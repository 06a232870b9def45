SPECIFICATION Spec
CONSTANTS
  AcpiPolls = 3
  HardPolls = 3
  CleanupScans = 3
  MaxFaults = 3
  ReadDirFails = FALSE
  Interference = FALSE
  Sluggish = TRUE
  MayRetry = TRUE
  Diagnostic = "stdout"
INVARIANT OffBeforeUnregister
INVARIANT NoLeftovers
INVARIANT GoneIsSuccess
INVARIANT IdleGuestsAreNotPolled
PROPERTY FolderWithConfigKept
PROPERTY EventuallyDestroyed
CHECK_DEADLOCK FALSE
