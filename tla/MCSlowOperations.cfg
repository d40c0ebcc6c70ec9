SPECIFICATION Spec
CONSTANTS
  Table = {"patient", "article"}
  Index = {"i", "j"}
  EncryptedFields <- MCEncryptedFields
  MaxPolls = 2
  MaxKeys = 4
  None = None
INVARIANTS
  TypeOK
  MapMatchesCollections
  SearchMatchesModels
  FirstRunsRefusedForKeysOnly
PROPERTY OperationEnds
