CONSTANTS
  p1 = p1
  p2 = p2
  Proc = {p1, p2}
  Key = {1, 2}
  ObjectId = {1}
  Val = {0, 1}
  None = None
  Programs <- AllPrograms
  MaxFaults = 1
SPECIFICATION Spec
INVARIANTS CallsMatchSQL FailedCallsLeaveParts CreatedOnce
PROPERTIES BlocksAreAtomic
