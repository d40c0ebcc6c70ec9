SPECIFICATION Spec
CONSTANTS
  w1 = w1
  w2 = w2
  Write <- MCWrite
  Robust <- MCRobust
  MaxHooks = 3
  MaxDepth = 4
  Faults = {}
INVARIANTS
  DurableIsKept
  CleanBetweenBlocks
PROPERTIES
  KeepsPromise
