SPECIFICATION Spec
CONSTANTS
  AcpiPolls = 2
  HardPolls = 2
  CleanupScans = 2
  MaxFaults = 3
  ReadDirFails = TRUE
  Interference = TRUE
  Sluggish = TRUE
  MayRetry = FALSE
  Diagnostic = "stderr"
INVARIANT TypeOK
INVARIANT SuccessMeansGone
PROPERTY Terminates
PROPERTY ImplementsDestroy
CHECK_DEADLOCK FALSE
