SPECIFICATION Spec
CONSTANTS
  N = 2
  Uniter = {w1}
  Claimer = {w2}
INVARIANT BitAtRepresentative
CHECK_DEADLOCK FALSE
