SPECIFICATION Spec
CONSTANTS
  n1 = n1
  n2 = n2
  n3 = n3
  Node = {n1, n2, n3}
  Addr = {1, 2, 3}
  None = None
  Setups <- MCSetups
  MaxFaults = 1
  MaxErr = 1
  MaxQueue = 2
CHECK_DEADLOCK FALSE
INVARIANTS AddressesUnique FramesReachTheirs
PROPERTIES AddressesSettle
