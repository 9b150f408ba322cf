SPECIFICATION Spec
CONSTANTS
  s1 = s1
  s2 = s2
  Sender = {s1, s2}
  None = None
  Setups <- MCSetups
  Reports <- MCReports
CHECK_DEADLOCK FALSE
INVARIANTS EveryWholeReportRead
