SPECIFICATION Spec
CONSTANTS
  w1 = w1
  w2 = w2
  Write <- MCWrite
  Robust <- MCRobust
  MaxHooks = 3
  MaxDepth = 4
  Faults = {"commit", "swallow", "start", "close_pool", "django"}
SYMMETRY Symmetry
INVARIANTS
  TypeOK
  NestingMatchesBlocks
  HooksOutsideBlocks
  KeptIsDurable
  HooksInOrder
  NoHookTwice
