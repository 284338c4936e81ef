SPECIFICATION Spec
CONSTANTS
  Node = {1, 2, 3, 4}
  NIL = NIL
  Graphs <- SparseGraphs
INVARIANTS Correct LowlinkSound
