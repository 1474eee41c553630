CONSTANTS
  Threads = {k1, k2, p1}
  KThreads = {k1, k2}
  Idle = idle_thread
  NULL = NULL
  MaxRepeat = 2
  Prio <- MCPrio
SPECIFICATION Spec
INVARIANTS MutualExclusion WaitersExact NoLostWakeup NoPanic
PROPERTIES ImplementsLock ImplementsFairLock
