SPECIFICATION Spec
CONSTANTS
  Node = {0, 1, 2, 3, 4, 5}
  NIL <- NIL_NODE
  Graphs <- Shapes
  Sessions = 2
INVARIANT Answers
