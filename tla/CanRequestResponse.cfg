SPECIFICATION Spec
CONSTANTS
  c1 = c1
  c2 = c2
  Client = {c1, c2}
  Server = Server
  None = None
  Setups <- MCSetups
  MaxCalls = 2
  MaxLost = 1
CHECK_DEADLOCK FALSE
INVARIANTS AnswersFit OwnAnswersOnly NotUsedTwice NothingMultiplies
PROPERTIES CallsEnd
