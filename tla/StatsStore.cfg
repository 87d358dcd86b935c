SPECIFICATION FairSpec
CONSTANTS
  Process = {p1, p2}
  Id = {i1, i2}
  Tokens = {1, 2}
  Absent = Absent
  Attempts = 3
  InitialSchemas <- AnySchema
  MaxCalls = 2
  MaxBusy = 4
  MaxNow = 1
INVARIANT AckedIsDurable
PROPERTIES DropsCostExceptions ImplementsLedger LogReturns
CHECK_DEADLOCK FALSE
