CONSTANTS
  p1 = p1
  p2 = p2
  f1 = f1
  Procs = {p1, p2}
  Files = {f1, f2}
  Uses <- MCUses
  BlockSize = 2
  Direct = 2
  Total = 4
  Width = 64
  Blocks = {1, 2, 3, 4, 5, 6}
  Writes <- MCWrites
  Reads = {3}
  Seeks = {3}
  NULL = NULL
SPECIFICATION Spec
CHECK_DEADLOCK FALSE
INVARIANTS  SectorsHold BlocksExact
