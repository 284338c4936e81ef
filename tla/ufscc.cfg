SPECIFICATION FairSpec
CONSTANTS
  N = 3
  NWorkers = 2
  WordBits = 2
  Graphs <- Cycles
INVARIANTS TypeOK ParentIncreasing LocksOwned StacksInBounds
INVARIANTS ExploredClosed DeadExplored ListCovers SamesetSound FoundOnRoots UniqueCounted
PROPERTIES Monotone Refinement Termination
