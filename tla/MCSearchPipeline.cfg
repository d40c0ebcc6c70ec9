SPECIFICATION Spec
CONSTANTS
  Field <- MCField
  Missing <- MCMissing
  None = None
  Height = 6
  Document <- MCDocument
  IndexList <- MCIndexList
  Query <- MCQuery
INVARIANTS
  SearchesMatch
  NearestAreFound
  RefusedIfNotOneStage
CHECK_DEADLOCK FALSE
