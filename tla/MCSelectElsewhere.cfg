SPECIFICATION Spec
CONSTANTS
  None = None
  Table <- MCTable
  Query <- ElsewhereQuery
  Contents <- MCContents
INVARIANTS CombinationsMatchSQL
CHECK_DEADLOCK FALSE
