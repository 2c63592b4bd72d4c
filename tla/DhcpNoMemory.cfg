SPECIFICATION Spec
CONSTANTS
  Clients = {c1, c2}
  NULL = NULL
  NumEntry = 2
  Foreign = {}
  MaxQueue = 2
  AllocFails = TRUE
  Hasty = TRUE
INVARIANT NoDuplicateAddress
SYMMETRY Symmetry
