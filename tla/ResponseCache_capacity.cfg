SPECIFICATION FairSpec
CONSTANTS
  b1 = b1
  b2 = b2
  b3 = b3
  Handler = {h1, h2}
  Body = {b1, b2, b3}
  Distance <- Likeness
  Threshold = 1
  K = 2
  MaxEntries = 1
  TTL = 1
  L2Enabled = FALSE
  Clears = TRUE
  MaxRequests = 3
  MaxRestarts = 1
  MaxNow = 0
  None = None
INVARIANTS CapacityIsAccountedFor
PROPERTIES CapacityIsRestored
CHECK_DEADLOCK FALSE
