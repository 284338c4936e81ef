SPECIFICATION Spec
CONSTANTS
  N = 8
  NIL = NIL
  Graphs <- Shapes
  NThreads = 2
  CHUNK = 2
  BYTE = 2
  THRESHOLD2 = 2
  GROWTH = 2
  HALF = 4
  Limits <- All
INVARIANTS VisitedOnce Outcome
