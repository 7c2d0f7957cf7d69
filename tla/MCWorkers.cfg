SPECIFICATION FairSpec
CONSTANTS
  NumObjects = 3
  ProcessCap = 2
  Mode = "multiprocess"
  MaxCalls = 2
CHECK_DEADLOCK FALSE
INVARIANTS
  AnswersMatch
  RanEverywhere
  FirstFailureRaised
  Quiescent
PROPERTIES
  CallReturns
