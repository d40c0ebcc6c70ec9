SPECIFICATION Spec
CONSTANTS
  Query <- MCQuery
  Value <- MCValue
INVARIANTS ArrayLookupsMatchPython JsonLookupsMatchPython TextLookupsMatchPython TextFunctionsMatchSQL
CHECK_DEADLOCK FALSE
