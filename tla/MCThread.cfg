CONSTANTS
  Threads = {main, init, t1}
  Main = main
  InitProc = init
  Idle = idle_thread
  Prio <- MCPrio
SPECIFICATION Spec
INVARIANTS ReadyListExact NoPanic
PROPERTIES ReadyRuns IdleLast
