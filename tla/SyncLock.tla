------------------------------ MODULE SyncLock ------------------------------
(***************************************************************************)
(* thread/sync.c on the scheduler: the binary semaphore with its queue of  *)
(* waiters, and the recursive lock built on it.                            *)
(*                                                                         *)
(* sema_down and sema_up disable interrupts: each is one step, up to the   *)
(* thread_block inside sema_down.  lock_acquire and lock_release do not:   *)
(* their statements are separate steps, between which a kernel thread can  *)
(* be preempted.  A system call enters the kernel through an interrupt     *)
(* gate, so a process that uses the lock runs with interrupts off from     *)
(* entry to return.                                                        *)
(***************************************************************************)
EXTENDS Sched

CONSTANTS KThreads,   \* kernel threads: interrupts on outside sema_down/sema_up
          MaxRepeat,  \* bound on the nesting of lock_acquire by one thread
          NULL

ASSUME SyncAssumption == /\ KThreads \subseteq Threads
                         /\ MaxRepeat \in Nat \ {0}
                         /\ NULL \notin All

VARIABLES value,      \* sem.value
          waiters,    \* sem.waiters
          holder,     \* lock.holder
          repeat,     \* lock.holder_repeat_nr
          nest,       \* lock_acquire calls of each client less its lock_release calls
          pc          \* where each thread is

lockVars == <<value, waiters, holder, repeat>>
vars == <<status, ready, cur, ticks, panic, value, waiters, holder, repeat, nest, pc>>

(***************************************************************************)
(* pc[t]:                                                                  *)
(*   out      outside the critical section (nest = 0)                      *)
(*   acquire  about to test plock->holder in lock_acquire                  *)
(*   down     about to call sema_down                                      *)
(*   blocked  inside sema_down's thread_block, about to test value again   *)
(*   take     sema_down returned; about to set holder                      *)
(*   count    holder set; about to check and set holder_repeat_nr          *)
(*   cs       in the critical section                                      *)
(*   release  about to run lock_release                                    *)
(*   clear    holder cleared; about to clear holder_repeat_nr              *)
(*   up       about to call sema_up                                        *)
(***************************************************************************)
PC == {"out", "acquire", "down", "blocked", "take", "count", "cs", "release",
       "clear", "up"}

\* The running thread can be interrupted: not inside sema_down, and a process
\* only in user mode.  idle_thread halts with interrupts on.
IntrOn == \/ cur = Idle
          \/ cur \in KThreads /\ pc[cur] # "blocked"
          \/ cur \in Threads /\ pc[cur] = "out"

at(t, l) == cur = t /\ pc[t] = l
goto(t, l) == pc' = [pc EXCEPT ![t] = l]

\* All threads exist and use an unlocked lock (lock_init); any order of the
\* ready list.
Init ==
  /\ cur \in Threads
  /\ ready \in Orders(All \ {cur})
  /\ status = [t \in All |-> IF t = cur THEN "RUNNING" ELSE "READY"]
  /\ ticks = Prio
  /\ panic = FALSE
  /\ value = 1
  /\ waiters = <<>>
  /\ holder = NULL
  /\ repeat = 0
  /\ nest = [t \in Threads |-> 0]
  /\ pc = [t \in Threads |-> "out"]

----------------------------------------------------------------------------
\* The client calls lock_acquire, from outside or again by the holder, and
\* lock_release as often.
CallAcquire(t) ==
  /\ at(t, "out") \/ at(t, "cs")
  /\ nest[t] < MaxRepeat
  /\ nest' = [nest EXCEPT ![t] = @ + 1]
  /\ goto(t, "acquire")
  /\ UNCHANGED <<schedVars, lockVars>>

CallRelease(t) ==
  /\ at(t, "cs")
  /\ nest' = [nest EXCEPT ![t] = @ - 1]
  /\ goto(t, "release")
  /\ UNCHANGED <<schedVars, lockVars>>

\* lock_release returns to a client that may have more releases to call.
Return(t) == goto(t, IF nest[t] = 0 THEN "out" ELSE "cs")

\* Mutant: the test asks whether the lock is free, not whose it is.
Mut_acquire_any(t) ==
  /\ at(t, "acquire")
  /\ IF holder = NULL
     THEN goto(t, "down") /\ UNCHANGED lockVars
     ELSE /\ repeat' = repeat + 1
          /\ goto(t, "cs")
          /\ UNCHANGED <<value, waiters, holder>>
  /\ UNCHANGED <<schedVars, nest>>

\* lock_acquire's test of plock->holder, with the else branch.
lock_acquire(t) ==
  /\ at(t, "acquire")
  /\ IF holder # t
     THEN goto(t, "down") /\ UNCHANGED lockVars
     ELSE /\ repeat' = repeat + 1
          /\ goto(t, "cs")
          /\ UNCHANGED <<value, waiters, holder>>
  /\ UNCHANGED <<schedVars, nest>>

\* One round of sema_down's loop: wait, or leave the loop with the semaphore.
sema_down(t) ==
  /\ at(t, "down") \/ at(t, "blocked")
  /\ IF value = 0
     THEN /\ waiters' = list_append(waiters, t)
          /\ thread_block("BLOCKED", ~elem_find(waiters, t))
          /\ goto(t, "blocked")
          /\ UNCHANGED value
     ELSE /\ value' = value - 1
          /\ panic' = (value' # 0)
          /\ goto(t, "take")
          /\ UNCHANGED <<waiters, status, ready, cur, ticks>>
  /\ UNCHANGED <<holder, repeat, nest>>

lock_acquire_holder(t) ==
  /\ at(t, "take")
  /\ holder' = t
  /\ goto(t, "count")
  /\ UNCHANGED <<schedVars, value, waiters, repeat, nest>>

lock_acquire_repeat(t) ==
  /\ at(t, "count")
  /\ panic' = (repeat # 0)
  /\ repeat' = 1
  /\ goto(t, "cs")
  /\ UNCHANGED <<status, ready, cur, ticks, value, waiters, holder, nest>>

\* Mutant: lock_release does not look at holder_repeat_nr.
Mut_release_at_once(t) ==
  /\ at(t, "release")
  /\ panic' = (holder # t)
  /\ holder' = NULL
  /\ goto(t, "clear")
  /\ UNCHANGED <<status, ready, cur, ticks, value, waiters, repeat, nest>>

\* lock_release, up to the assignment that clears the holder.
lock_release(t) ==
  /\ at(t, "release")
  /\ panic' = ~(holder = t /\ repeat >= 1)
  /\ IF repeat > 1
     THEN repeat' = repeat - 1 /\ Return(t) /\ UNCHANGED holder
     ELSE holder' = NULL /\ goto(t, "clear") /\ UNCHANGED repeat
  /\ UNCHANGED <<status, ready, cur, ticks, value, waiters, nest>>

\* Mutant: holder_repeat_nr is not cleared.
Mut_release_keeps_count(t) ==
  /\ at(t, "clear")
  /\ goto(t, "up")
  /\ UNCHANGED <<schedVars, value, waiters, holder, repeat, nest>>

lock_release_repeat(t) ==
  /\ at(t, "clear")
  /\ repeat' = 0
  /\ goto(t, "up")
  /\ UNCHANGED <<schedVars, value, waiters, holder, nest>>

\* Mutant: the woken waiter stays in the queue.
Mut_sema_up_no_pop(t) ==
  /\ at(t, "up")
  /\ value' = value + 1
  /\ IF waiters # <<>>
     THEN thread_unblock(Head(waiters), value = 0)
     ELSE panic' = (value # 0) /\ UNCHANGED <<status, ready, cur, ticks>>
  /\ Return(t)
  /\ UNCHANGED <<waiters, holder, repeat, nest>>

\* Mutant: sema_up gives the unit back and wakes nobody.
Mut_sema_up_no_wake(t) ==
  /\ at(t, "up")
  /\ value' = value + 1
  /\ panic' = (value # 0)
  /\ Return(t)
  /\ UNCHANGED <<waiters, status, ready, cur, ticks, holder, repeat, nest>>

\* sema_up: wake the first waiter, if any, and give the unit back.
sema_up(t) ==
  /\ at(t, "up")
  /\ value' = value + 1
  /\ IF waiters # <<>>
     THEN /\ thread_unblock(Head(waiters), value = 0 /\ value' = 1)
          /\ waiters' = Tail(waiters)
     ELSE /\ panic' = ~(value = 0 /\ value' = 1)
          /\ UNCHANGED <<waiters, status, ready, cur, ticks>>
  /\ Return(t)
  /\ UNCHANGED <<holder, repeat, nest>>

idle ==
  /\ cur = Idle
  /\ thread_block("BLOCKED", TRUE)
  /\ UNCHANGED <<lockVars, nest, pc>>

Timer ==
  /\ IntrOn
  /\ intr_timer_handler
  /\ UNCHANGED <<lockVars, nest, pc>>

\* The steps of a thread that are sync.c's; it takes the others when it likes.
Run(t) ==
  \/ lock_acquire(t) \/ sema_down(t) \/ lock_acquire_holder(t)
  \/ lock_acquire_repeat(t) \/ lock_release(t) \/ lock_release_repeat(t)
  \/ sema_up(t)

Next ==
  /\ ~panic
  /\ \/ \E t \in Threads : CallAcquire(t) \/ CallRelease(t) \/ Run(t)
     \/ idle
     \/ Timer

(***************************************************************************)
(* A thread on the CPU executes instructions between two timer interrupts, *)
(* so its next step is not put off for ever while it keeps being scheduled *)
(* (strong fairness, for the steps of sync.c and for leaving the critical  *)
(* section); the timer is taken whenever interrupts come on again.         *)
(***************************************************************************)
Fairness ==
  /\ SF_vars(~panic /\ Timer)
  /\ \A t \in Threads : /\ SF_vars(~panic /\ Run(t))
                        /\ SF_vars(~panic /\ CallRelease(t))

Spec == Init /\ [][Next]_vars /\ Fairness

----------------------------------------------------------------------------
\* The threads that have the semaphore's unit: from the decrement in
\* sema_down to the increment in sema_up.
Owns(t) == \/ pc[t] \in {"take", "count", "cs", "release", "clear", "up"}
           \/ pc[t] = "acquire" /\ holder = t

\* Every variable keeps its type.
TypeOK ==
  /\ SchedTypeOK
  /\ value \in Nat
  /\ waiters \in Seq(Threads)
  /\ holder \in Threads \cup {NULL}
  /\ repeat \in Nat
  /\ nest \in [Threads -> Nat]
  /\ pc \in [Threads -> PC]

\* At most one thread is between sema_down and sema_up of one lock, whatever
\* the timer does between the statements of lock_acquire and lock_release.
MutualExclusion == \A t, u \in Threads : Owns(t) /\ Owns(u) => t = u

\* The one general_tag of a thread is in at most one list: the waiters are
\* exactly the blocked threads that wait in sema_down, each queued once, and
\* none of them is in thread_ready_list.
WaitersExact ==
  /\ NoDup(waiters)
  /\ \A t \in Threads : /\ elem_find(waiters, t) <=> status[t] \in Blocked
                        /\ elem_find(waiters, t) => pc[t] = "blocked"

\* A thread waits only while the lock is held, or while a thread sema_up has
\* woken is on its way to test value again: no wake-up is lost.
NoLostWakeup ==
  waiters # <<>> =>
    \/ \E t \in Threads : Owns(t)
    \/ \E t \in Threads : pc[t] = "blocked" /\ status[t] \in {"READY", "RUNNING"}

\* The lock as its users see it: the owner is the thread with the unit, and
\* the steps between value-- and holder_repeat_nr = 1, and between
\* holder = NULL and value++, are invisible.
AbsOwner == IF \E t \in Threads : Owns(t)
            THEN CHOOSE t \in Threads : Owns(t) ELSE NULL
AbsDepth == IF \E t \in Threads : pc[t] \in {"take", "count", "clear", "up"}
            THEN 1 ELSE repeat
AbsWant == {t \in Threads : pc[t] \in {"down", "blocked"}}

Abs == INSTANCE LockAbs WITH owner <- AbsOwner, depth <- AbsDepth, want <- AbsWant

\* lock_acquire and lock_release implement the abstract lock.
ImplementsLock == Abs!Spec

\* With critical sections that end, a wanted lock is always granted to
\* somebody and a granted lock released, under the scheduler's fairness
\* (not always to the thread sema_up woke: another one may take the unit
\* first, and then the woken one waits again, at the tail).
ImplementsFairLock == Abs!FairSpec

=============================================================================
