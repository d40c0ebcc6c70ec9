SPECIFICATION Spec
CONSTANTS
  Alias <- MCAlias
  Col <- MCCol
  Height = 6
  Base = "T1"
  Query <- MCQuery
  Database <- MCDatabase
INVARIANTS
  ResultMatchesSQL
  PathAndExprAgree
  PushdownIsSafe
CHECK_DEADLOCK FALSE
