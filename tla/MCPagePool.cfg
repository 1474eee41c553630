CONSTANTS
  k1 = k1
  k2 = k2
  p1 = p1
  p2 = p2
  KThreads <- MCKThreads
  Procs <- MCProcs
  IntrOn <- MCIntrOn
  Casts <- MCCasts
  KFrames = {0, 1, 2}
  UFrames = {3, 4}
  Pages = {0, 1, 2}
  TableSize = 2
  MaxPages = 2
  NULL = NULL
SPECIFICATION Spec
CHECK_DEADLOCK FALSE
INVARIANTS FrameExclusive PoolExact VaddrExact
