SPECIFICATION Spec
CONSTANTS
  web = web
  db = db
  VMs <- TwoVMs
  Names = {"web", "db"}
  Name <- OwnNames
  Attempts = 3
  Strangers = {}
  MaxFaults = 3
INVARIANT TypeOK
INVARIANT OneAtATime
INVARIANT FailuresAreCounted
INVARIANT DoneMeansImported
PROPERTY AllEnd
CHECK_DEADLOCK FALSE
