SPECIFICATION Spec
CONSTANTS
  root = root
  meta = meta
  g = g
  pa = pa
  pb = pb
  ra = ra
  rb = rb
  m = m
  m2 = m2
  f = f
  dup = dup
  Node = {root, meta, g, pa, pb, ra, rb, m, m2, f, dup}
  Nil = Nil
  Root = root
  Metadata = meta
  Id <- MCId
  Parent <- MCParent
  Name <- MCName
  Kind <- MCKind
  NumberOf <- MCNumberOf
  RecordSize = 1
  Static <- MCStatic
  Asserts = TRUE
  MaxRefs = 2
  Values = {0, 1}
  Bad = Bad
  CanWrite = {pa, dup, f}
  CanRead = {root, meta, g, pa, pb, ra, rb, m, m2, dup}
  Sets <- MCSets
  Gateway = FALSE
  Requests <- MCRequests
  MaxTokens = 8
CHECK_DEADLOCK FALSE
INVARIANTS RegistrySound NodesFound TextSound
PROPERTIES UpdatesByEntry WritesSound AnswersTrue
