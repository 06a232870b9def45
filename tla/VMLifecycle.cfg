SPECIFICATION Spec
CONSTANTS
  Paths = {"image", "ova"}
  Specs = {1, 2, 3}
  Refused = {3}
  BootLists = {4}
  Prompt = TRUE
  Interference = TRUE
  MaxEdits = 1
  MaxEvents = 2
  MaxFaults = 2
INVARIANT TypeOK
INVARIANT CleanPlanMeansConfigured
INVARIANT OrphansComeFromFailures
PROPERTY OthersMachineUntouched
PROPERTY SuccessMeansStatus
PROPERTY Converges
CHECK_DEADLOCK FALSE
