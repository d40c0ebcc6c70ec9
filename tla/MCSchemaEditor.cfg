SPECIFICATION Spec
CONSTANTS
  None = None
  Name <- MCName
  Column = {a, b, c}
  Projects <- MCProjects
  Quirks = {}
SYMMETRY Symmetry
INVARIANTS
  IndexesMatchModel
  DocMatchesModel
  NothingRefused
  ValuesSurvive
  RerunSucceeds
