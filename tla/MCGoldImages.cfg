SPECIFICATION Spec
CONSTANTS
  web = web
  db = db
  cache = cache
  Images <- AllImages
  File <- BaseName
  Remote <- Urls
  VMs <- ThreeVMs
  Source <- Mostly
  CutShort = TRUE
  MaxFaults = 2
  MaxKills = 2
INVARIANT TypeOK
INVARIANT OwnImageUnlessCutShort
 
PROPERTY CompleteGoldIsFinal
PROPERTY AllEnd
CHECK_DEADLOCK FALSE
