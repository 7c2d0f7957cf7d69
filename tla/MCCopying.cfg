SPECIFICATION Spec
CONSTANTS
  Object <- MCObject
  Trace = "trace"
  Kind <- MCKind
  Points <- MCPoints
  None = None
CHECK_DEADLOCK FALSE
INVARIANTS
  CopiedOnce
  OwnedOnce
  Isomorphic
PROPERTIES
  KeysFinal
