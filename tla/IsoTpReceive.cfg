SPECIFICATION Spec
CONSTANTS
  m1 = m1
  m2 = m2
  m3 = m3
  NoMsg = NoMsg
  s1 = s1
  s2 = s2
  Msg = {m1, m3}
  Cfs <- MCCfs
  Src = {s1, s2}
  RecvBlock = {r1, r2}
  NoBlock = NoBlock
  SnMod = 4
  RBs = 0
  RWftMax = 2
  PoolSize = 2
  FaultKinds = {"sendFails"}
  MaxFaults = 1
  LateTimers = TRUE
  RecvPreempted = FALSE
  EagerSender = FALSE
  RMayUnbind = TRUE
  MaxDelivered = 2
  MaxFcQueued = 2
CHECK_DEADLOCK FALSE
INVARIANTS ContextsSound DeliveredInSequence
PROPERTIES ReceptionsEnd FreedUnreferenced RSilentAfterUnbind
