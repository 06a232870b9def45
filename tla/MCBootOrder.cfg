SPECIFICATION Spec
CONSTANTS
  netboot = netboot
  plain = plain
  VMs <- TwoVMs
  Slots = 4
  Devices = {"disk", "net", "none"}
  Asked <- Orders
INVARIANT NoOthersBootOrder
CHECK_DEADLOCK FALSE
