SPECIFICATION Spec
CONSTANTS
  Frames = {f1, f2}
  NULL = NULL
  Size = 4
  Preempting = "producer"
INVARIANTS
  TypeOK
  CopiesApart
PROPERTIES
  ImplementsFifo
  TresholdKept
