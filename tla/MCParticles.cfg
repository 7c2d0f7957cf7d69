SPECIFICATION FairSpec
CONSTANTS
  Choice = {"w", "x", "y", "z", "f"}
  Maker = {"coinA", "coinB", "coinC", "memo"}
  Output = {"u", "o"}
  Id = {"k", "l"}
  Scope = {"s"}
  Value = {"heads", "tails"}
  Proc = {"sp"}
  None = None
  Default = "default"
  AAA = {"coinC"}
  Op <- MCOp
  Root <- MCRoot
  Program <- MCProgram
  First <- MCFirst
  Ends <- MCEnds
  NumNew = 1
  MaxRounds = 2
CHECK_DEADLOCK FALSE
INVARIANTS
  RestoredAsBefore
  ScopesWellFormed
  StatisticsCount
  BlocksAgree
PROPERTIES
  Refines
  MovesEnd
