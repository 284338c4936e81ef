SPECIFICATION FairSpec
CONSTANTS
  NWorkers = 3
  LocalItems = 1
  Node = {1, 2, 3, 4, 5, 6}
  NIL = NIL
  Graphs <- Shapes
  TRIM_STOP = 1
INVARIANTS TypeOK FlagExact Quiescent OneItem AllIdentified
PROPERTIES Refinement EndsUnlessStarved
