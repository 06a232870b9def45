SPECIFICATION Spec
CONSTANTS
  web = web
  db = db
  VMs <- OneVM
  Names = {"web"}
  Name <- OneName
  Attempts = 3
  Strangers = {"web"}
  MaxFaults = 0
PROPERTY OnlyPartialsRemoved
CHECK_DEADLOCK FALSE
