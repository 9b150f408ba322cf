SPECIFICATION Spec
CONSTANTS
  m1 = m1
  m2 = m2
  m3 = m3
  a1 = a1
  Msg = {m1, m2, m3}
  NoMsg = NoMsg
  NoBlock = NoBlock
  Addr = {a1}
  SendBlock = {b1, b2}
  Cfs <- MCCfs
  Dest <- MCOneDest
  PeerFc <- MCPeerFc
  SnMod = 4
  Bs = 2
  Stmin = FALSE
  WftMax = 1
  FaultKinds = {}
  MaxFaults = 0
  LateTimers = FALSE
  SpuriousFc = FALSE
  FastBus = FALSE
  Overlap = FALSE
  MayUnbind = TRUE
CHECK_DEADLOCK FALSE
INVARIANTS UnboundOkMeansAired FailingSendInv AiredInOrder AtMostOneReport
PROPERTIES  UnboundEverythingEnds SilentAfterUnbind 
