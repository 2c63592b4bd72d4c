SPECIFICATION MCSpec
CONSTANTS
  Clients = {c1, c2}
  NULL = NULL
  NumEntry = 2
  Foreign = {}
  MaxQueue = 1
  AllocFails = FALSE
  Hasty = FALSE
  Bytes = 4
INVARIANT PoolIsRange
PROPERTY EventuallyBound
CHECK_DEADLOCK FALSE
