-------------------------------- MODULE Mutex --------------------------------
(***************************************************************************)
(* The lock of thread/sync.c for the components that use it, at the grain  *)
(* of the abstract lock it implements (SyncLock, ImplementsLock): taking   *)
(* it, waiting for it and giving it back are one step each.  A lock that   *)
(* is never nested is its holder and its queue: sem.value is 0 exactly     *)
(* when holder is set, and holder_repeat_nr is then 1.                     *)
(***************************************************************************)
EXTENDS Sched

CONSTANT NULL

ASSUME NullAssumption == NULL \notin All

VARIABLES holder,    \* lock.holder
          waiters    \* lock.sem.waiters

mutexVars == <<holder, waiters>>

\* lock_acquire by the running thread when another one has the lock: it waits
\* in sema_down, and tests the lock again when it is woken.
lock_wait ==
  /\ holder # NULL
  /\ waiters' = list_append(waiters, cur)
  /\ thread_block("BLOCKED", ~elem_find(waiters, cur))
  /\ UNCHANGED holder

\* lock_acquire when the lock is free.
lock_take ==
  /\ holder = NULL
  /\ holder' = cur
  /\ UNCHANGED waiters

\* lock_release by the running thread: sema_up wakes the first waiter.
lock_release ==
  /\ holder' = NULL
  /\ IF waiters # <<>>
     THEN thread_unblock(Head(waiters), holder = cur) /\ waiters' = Tail(waiters)
     ELSE /\ panic' = (holder # cur)
          /\ UNCHANGED <<status, ready, cur, ticks, waiters>>

=============================================================================
