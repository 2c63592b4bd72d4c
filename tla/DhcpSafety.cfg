SPECIFICATION Spec
CONSTANTS
  Clients = {c1, c2, c3}
  NULL = NULL
  NumEntry = 2
  Foreign = {f}
  MaxQueue = 1
  AllocFails = FALSE
  Hasty = TRUE
INVARIANTS
  OneEntryPerClient
  BoundIsRegistered
SYMMETRY Symmetry
