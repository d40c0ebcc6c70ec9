SPECIFICATION Spec
CONSTANTS
  None = None
  Table <- MCTable
  Query <- MCQuery
  Contents <- MCContents
INVARIANTS
  SelectsMatchSQL
  CombinationsMatchSQL
  AggregatesMatchSQL
  WindowsMatchSQL
CHECK_DEADLOCK FALSE
