SPECIFICATION Spec
CONSTANTS
  Procedures = {"crp", "dir_cat", "hmm"}
  App = {"a", "b", "c"}
  Fixed <- MCFixed
  MaxIndex = 2
  Hidden = {"rain", "sun"}
  Out = {1, 2}
  Alpha <- MCWhole
  Mass = 2
  Discount = 1
  Blocks <- MCBlocks
  MaxTable = 5
  None = None
CHECK_DEADLOCK FALSE
INVARIANTS
  Sufficient
  Normalized
  LatentsCover
PROPERTY
  RejectRestores
