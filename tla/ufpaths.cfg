SPECIFICATION Spec
CONSTANTS
  N = 4
  NWorkers = 3
  WordBits = 3
  Paths <- Overlapping
INVARIANTS BitsAtRoot UniteJoins ClosesInTime
