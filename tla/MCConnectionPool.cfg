SPECIFICATION Spec
CONSTANTS
  t1 = t1
  t2 = t2
  t3 = t3
  c1 = c1
  c2 = c2
  c3 = c3
  c4 = c4
  NoClient = NoClient
  Thread <- MCThread
  Client <- MCClient
SYMMETRY Symmetry
INVARIANTS
  PoolHoldsOpenClient
  OneClient
  NoKeyError
CHECK_DEADLOCK FALSE
