SPECIFICATION Spec
CONSTANTS
  Protocols <- TcpThenUdp
  MaxEdits = 0
  MaxEvents = 0
  MaxFaults = 0
PROPERTY Converges
CHECK_DEADLOCK FALSE
