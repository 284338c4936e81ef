SPECIFICATION Spec
CONSTANTS
  NThreads = 2
  COLOR_CHUNK = 3
  Node = {1, 2, 3, 4, 5}
  NIL = NIL
  NULL = NULL
  Graphs <- Shapes
  DROP = 2
  COMPACT = 2
INVARIANTS ItemsExact UniqueColors
PROPERTY Refinement
