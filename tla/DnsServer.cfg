SPECIFICATION BothSpec
CONSTANTS
  Byte = {0, 1, 2}
  Dot = 2
  NameMax = 4
  MaxSize = 9
  HostNames = {n1, n2}
  MaxHosts = 3
  Nobody = Nobody
INVARIANTS
  BothTypeOK
  NameFits
  ParsesQuery
  SearchUndisturbed
  NothingLeftBehind
CHECK_DEADLOCK FALSE
