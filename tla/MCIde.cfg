CONSTANTS
  Threads = {main, k1, p1}
  KThreads = {main, k1}
  Main = main
  Ops = {"read", "write"}
  MaxCmds = 2
  Extra = 1
  Idle = idle_thread
  NULL = NULL
  Prio <- MCPrio
SPECIFICATION Spec
INVARIANTS DataOfOwnCommand NoLostInterrupt
PROPERTIES ChannelReleased
