----------------------------- MODULE MCSyncLock -----------------------------
(* A small instance of SyncLock: every thread has a slice of one tick.      *)
EXTENDS SyncLock

MCPrio == [t \in All |-> IF t = Idle THEN 0 ELSE 1]
=============================================================================
