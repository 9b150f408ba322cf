CONSTANTS
  c1 = c1
  c2 = c2
  c3 = c3
  Client <- MCClient
  None = None
  MaxClients = 2
  Room = 2
  Setups <- MCSetups
SPECIFICATION Spec
CHECK_DEADLOCK FALSE
INVARIANTS ServerSound AnswersSound
PROPERTIES EverythingEnds
