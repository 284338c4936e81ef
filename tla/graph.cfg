SPECIFICATION Spec
CONSTANTS
  MaxNodes = 3
  MaxEdges = 3
  Files <- TwoFiles
  INSERTION = 2
  LINEAR = 0
  NULL = NULL
INVARIANTS Represents FindsEdge
