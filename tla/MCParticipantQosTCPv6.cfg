SPECIFICATION Spec
CONSTANTS
  Fields = {"10.0.0.1", "host", "7", "17", "-1"}
  IPv4 = {"10.0.0.1"}
  AtoI <- MCAtoI
  Texts <- MCTexts
  ListenPorts = {0, 7}
  PhysicalPorts = 16
  MaxPeers = 2
  MaxCalls = 2
INVARIANTS
  RequestedIsAdded
CHECK_DEADLOCK FALSE
