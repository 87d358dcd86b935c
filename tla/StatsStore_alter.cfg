SPECIFICATION Spec
CONSTANTS
  Process = {p1, p2}
  Id = {i1}
  Tokens = {1}
  Absent = Absent
  Attempts = 3
  InitialSchemas <- NewOrLegacy
  MaxCalls = 2
  MaxBusy = 3
  MaxNow = 0
INVARIANTS OpenStoreHasItsColumns
CHECK_DEADLOCK FALSE
