SPECIFICATION FairSpec
CONSTANTS
  Workers = {"w1", "w2"}
  Loads <- MCLoads
  Size <- MCSize
  Numbers = {"n"}
  PipeCells = 2
  Kinds = {"lines", "streams", "chatty", "hoards", "mumbles"}
INVARIANTS
  AnswersBelong
PROPERTIES
  EveryCallReturns
CHECK_DEADLOCK FALSE
