CONSTANTS
  Heaps = {p1, p2}
  Started = {p1}
  Kernel = kernel
  Pages = {0, 1}
  Classes = {1024, 512}
  PerArena <- MCPerArena
  Large = {1, 2}
  NULL = NULL
SPECIFICATION Spec
CHECK_DEADLOCK FALSE
INVARIANTS BlockExclusive ArenaExact PagesExact
