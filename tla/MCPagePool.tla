----------------------------- MODULE MCPagePool -----------------------------
(* The threads that share the allocator: two kernel threads, of which one    *)
(* can be preempted; two processes, of which one is in start_process and can *)
(* be preempted; a kernel thread and a process, with interrupts on (the      *)
(* boot's main and init, and what follows when they get the same frame) and  *)
(* off.                                                                      *)
EXTENDS PagePool

CONSTANTS k1, k2, p1, p2

MCKThreads == {k1, k2}
MCProcs == {p1, p2}
MCIntrOn == {k1, p1}
MCCasts == {{k1, k2}, {p1, p2}, {k1, p1}, {k2, p2}}
=============================================================================
