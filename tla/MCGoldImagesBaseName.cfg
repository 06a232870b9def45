SPECIFICATION Spec
CONSTANTS
  web = web
  db = db
  cache = cache
  Images <- AllImages
  File <- BaseName
  Remote <- Urls
  VMs <- TwoVMs
  Source <- ByUrl
  CutShort = FALSE
  MaxFaults = 0
  MaxKills = 0
INVARIANT OwnImage
CHECK_DEADLOCK FALSE
