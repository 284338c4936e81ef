SPECIFICATION Spec
CONSTANTS
  Node = {1, 2, 3, 4}
  NIL = NIL
  Graphs <- AllGraphs
INVARIANTS WholeSCCs Identified
CHECK_DEADLOCK FALSE
