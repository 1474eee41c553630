CONSTANTS
  FileNames = {f, g}
  DirNames = {d}
  Dot = dot
  DotDot = dotdot
  NInodes = 5
  NBlocks = 4
  NDirect = 4
  PerSec = 2
  SyncMod = 4
  MaxDepth = 2
  MaxLost = 1
  NULL = NULL
SPECIFICATION Spec
CHECK_DEADLOCK FALSE
INVARIANTS GetcwdAsserts
