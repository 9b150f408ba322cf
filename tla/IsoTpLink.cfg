SPECIFICATION Spec
CONSTANTS
  m1 = m1
  m2 = m2
  m3 = m3
  a1 = a1
  Msg = {m1, m2, m3}
  NoMsg = NoMsg
  NoBlock = NoBlock
  Addr = {a1}
  Src = {a1}
  SendBlock = {b1}
  RecvBlock = {r1}
  Cfs <- MCCfs
  Dest <- MCDest
  SnMod = 4
  Bs = 3
  RBs = 3
  Stmin = FALSE
  WftMax = 2
  RWftMax = 2
  PoolSize = 10
  FaultKinds = {}
  MaxFaults = 0
  LateTimers = FALSE
  SpuriousFc = FALSE
  FastBus = FALSE
  Overlap = FALSE
  MayUnbind = FALSE
  PeerFc = {}
  RecvPreempted = FALSE
  EagerSender = FALSE
  RMayUnbind = FALSE
  MaxDelivered = 3
  MaxFcQueued = 3
  PromptReceiver = TRUE
CHECK_DEADLOCK FALSE
INVARIANTS SequenceAgreement LinkSafe
PROPERTIES AnsweredAndDelivered ImplementsTransfer ErrorMeansUndelivered
