SPECIFICATION Spec
CONSTANTS
  Ss = {s1, s2, s3}
  NULL = NULL
  NumBroadcast = 2
  NumPcb = 2
  MaxChunks = 1
  SndBuf = 1
  Console = FALSE
INVARIANT EveryConnectionTracked
CHECK_DEADLOCK FALSE
