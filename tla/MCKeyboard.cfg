CONSTANTS
  Threads = {c1, c2}
  Lower = a
  Upper = b
  Chars = {a, b}
  BufSize = 3
  Letters = {"letter"}
  Pairs = {"digit"}
  Keys <- MCKeys
  Keymap <- MCKeymap
  Idle = idle_thread
  NULL = NULL
  Prio <- MCPrio
SPECIFICATION Spec
INVARIANTS SleepersExact KeysInStep
PROPERTIES ImplementsFifo CharRead
