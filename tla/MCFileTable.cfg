CONSTANTS
  k1 = k1
  p1 = p1
  p2 = p2
  Scenarios <- MCAll
  Kernel = {k1}
  Files = {f1, f2}
  Root = root
  Fds = {3, 4}
  MaxOpens = 3
  NULL = NULL
SPECIFICATION Spec
CHECK_DEADLOCK FALSE
INVARIANTS FdSafe InodesSafe InodeKept
