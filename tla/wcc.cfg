SPECIFICATION FairSpec
CONSTANTS
  NThreads = 2
  COLOR_CHUNK = 2
  NNodes = 6
  NIL <- NIL_NODE
  Graphs <- Shapes
  LARGE = 3
  POOL = 6
INVARIANT Labelled
PROPERTIES Refinement Termination
CHECK_DEADLOCK FALSE
