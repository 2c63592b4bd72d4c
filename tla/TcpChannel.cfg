SPECIFICATION FairSpec
CONSTANTS
  Ss = {s1, s2}
  NULL = NULL
  NumBroadcast = 3
  NumPcb = 2
  MaxChunks = 2
  SndBuf = 1
  Console = FALSE
INVARIANTS
  TypeOK
  TableInv
  NoUseAfterFree
PROPERTIES
  BroadcastReachesAllOnce
  FlushEventually
  ClosingEventuallyCloses
CHECK_DEADLOCK FALSE
