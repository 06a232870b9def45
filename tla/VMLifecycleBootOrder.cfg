SPECIFICATION Spec
CONSTANTS
  Paths = {"image", "ova"}
  Specs = {1, 2}
  Refused = {}
  BootLists = {3}
  Prompt = TRUE
  Interference = FALSE
  MaxEdits = 1
  MaxEvents = 0
  MaxFaults = 0
PROPERTY Converges
CHECK_DEADLOCK FALSE
