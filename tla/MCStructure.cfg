SPECIFICATION Spec
CONSTANTS
  MaxNodes = 44
  Prelude <- MCPrelude
  Syms = {"x", "y", "f", "memoizedSP"}
  Outcomes = {0, 1}
  Directives <- StructureSession
INVARIANTS
  CountsMatchTrace
  RejectRestores
  RequestAccounting
  WellLinked
  Registered
  RestoreMirrorsDetach
