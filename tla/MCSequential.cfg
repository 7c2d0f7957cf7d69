SPECIFICATION Spec
CONSTANTS
  NumObjects = 2
  ProcessCap = 0
  Mode = "sequential"
  MaxCalls = 2
INVARIANTS
  AnswersMatch
