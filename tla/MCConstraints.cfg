SPECIFICATION FairSpec
CONSTANTS
  MaxNodes = 40
  Prelude <- MCPrelude
  Syms = {"x", "y", "f", "memoizedSP"}
  Outcomes = {0, 1}
  Directives <- ConstraintSession
INVARIANTS
  Coherent
  ObservationsHold
  NoAssertionFails
PROPERTIES
  Terminates
