SPECIFICATION Spec
CONSTANTS
  Session = {s1, s2}
  CallId = {k1, k2}
  Path <- AllPaths
  LargePath <- Large
  LowSignalPath <- Vendored
  Tool = {"smart_read", "edit", "read", "glob", "bash", "get_stats"}
  Estimate = {1, 2}
  UniqueCallIds = TRUE
  None = None
SYMMETRY Symmetry
INVARIANTS SavingsAreEarned RewritesAreLogged
PROPERTIES LargeReadsNeedEngagement
CHECK_DEADLOCK FALSE
