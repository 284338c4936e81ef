SPECIFICATION Spec
CONSTANTS
  NNodes = 4
  NThreads = 2
  NIL = NIL
  Graphs <- Shapes
  Plans <- Passes
INVARIANT PassExact
PROPERTY Refinement
CHECK_DEADLOCK FALSE
