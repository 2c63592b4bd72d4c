SPECIFICATION Spec
CONSTANTS
  Frames = {f1, f2}
  NULL = NULL
  Size = 3
  Preempting = "consumer"
INVARIANT CountWithinCapacity
