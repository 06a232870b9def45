SPECIFICATION Spec
CONSTANTS
  Origins = {"image", "clone", "ova"}
  Configs <- AdapterLists
  Machines <- NewMachines
  Slots = 3
  Asked <- StorageAsked
  Files <- DiskFiles
  AutoPorts = 2
  MaxEdits = 1
  MaxEvents = 1
  MaxFaults = 1
INVARIANT TypeOK
INVARIANT SuccessMeansConfigured
INVARIANT FreshVMIsExact
INVARIANT MediaInPlace
INVARIANT CleanPlanMeansAdapters
INVARIANT PortsForwarded
PROPERTY AdaptersConverge
CHECK_DEADLOCK FALSE
