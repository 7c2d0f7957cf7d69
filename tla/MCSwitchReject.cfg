SPECIFICATION Spec
CONSTANTS
  MaxNodes = 56
  Prelude <- MCPrelude
  Syms = {"x", "y", "f", "memoizedSP"}
  Outcomes = {0, 1}
  Directives <- SwitchProgram
INVARIANTS
  RejectRestores
