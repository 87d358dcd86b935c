SPECIFICATION Spec
CONSTANTS
  b1 = b1
  b2 = b2
  b3 = b3
  Handler = {h1, h2}
  Body = {b1, b2, b3}
  Distance <- Likeness
  Threshold = 1
  K = 2
  MaxEntries = 1
  TTL = 1
  L2Enabled = TRUE
  Clears = TRUE
  MaxRequests = 3
  MaxRestarts = 0
  MaxNow = 1
  None = None
SYMMETRY Symmetry
INVARIANTS L1HitIsAuthentic L2HitIsSimilar
CHECK_DEADLOCK FALSE
