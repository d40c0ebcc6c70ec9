SPECIFICATION Spec
CONSTANTS
  w1 = w1
  w2 = w2
  Write <- MCWrite
  Robust <- MCRobust
  MaxHooks = 2
  MaxDepth = 3
  Faults = {"commit"}
INVARIANT ExceptionRollsBack
