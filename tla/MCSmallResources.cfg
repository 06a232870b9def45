SPECIFICATION Spec
CONSTANTS
  Protocols <- UdpRules
  Ids <- FourIds
  Ranges = {0, 1, 2}
  V6s = {0, 1}
  Names <- TwoNames
  Bases <- TwoBases
  Prefix <- WebPrefix
  MaxEdits = 1
  MaxEvents = 1
  MaxFaults = 2
  MaxSnapshotFaults = 1
  MaxLines = 6
INVARIANT TypeOK
INVARIANT CleanPlanMeansConfigured
INVARIANT LossesComeFromFailures
INVARIANT ExportsAreWhole
INVARIANT ParsersAgree
PROPERTY OnlyOwnTouched
PROPERTY Converges
CHECK_DEADLOCK FALSE
