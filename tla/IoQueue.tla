------------------------------- MODULE IoQueue -------------------------------
(***************************************************************************)
(* device/io_queue.c on the scheduler: the ring buffer between the         *)
(* keyboard handler (Keyboard) and the threads that read it, with the one  *)
(* sleeping consumer it records, and its lock.                             *)
(*                                                                         *)
(* ioq_getchar and ioq_putchar run with interrupts off (they assert it):   *)
(* between two context switches they are atomic.  The only caller of       *)
(* ioq_putchar is intr_keyboard_handler, which does not call it when the   *)
(* queue is full: its wait loop is never entered, and ioq->producer is     *)
(* always NULL.                                                            *)
(***************************************************************************)
EXTENDS Mutex

CONSTANTS Chars,      \* characters
          BufSize     \* BUF_SIZE

ASSUME IoqAssumption == BufSize \in Nat \ {0, 1}

VARIABLES buf, head, tail,  \* the ring
          consumer,         \* the recorded sleeper
          got,              \* the character ioq_getchar returned last
          pc                \* where each thread is

ring == <<buf, head, tail, got>>
ioqVars == <<schedVars, mutexVars, ring, consumer, pc>>

(***************************************************************************)
(* pc[t]:                                                                  *)
(*   user      not in the queue code; interrupts on                        *)
(*   test      interrupts off, about to test for an empty queue            *)
(*   lock      about to go on in lock_acquire (possibly after a wait)      *)
(*   asleep    in ioq_wait's thread_block, holding the lock                *)
(***************************************************************************)
PC == {"user", "test", "lock", "asleep"}

IntrOn == cur = Idle \/ (cur \in Threads /\ pc[cur] = "user")

at(t, l) == cur = t /\ pc[t] = l
goto(t, l) == pc' = [pc EXCEPT ![t] = l]

\* The empty queue, with every thread queued in any order.
io_queue_init ==
  /\ cur \in Threads
  /\ ready \in Orders(All \ {cur})
  /\ status = [t \in All |-> IF t = cur THEN "RUNNING" ELSE "READY"]
  /\ ticks = Prio
  /\ panic = FALSE
  /\ got \in Chars
  /\ buf = [i \in 0..BufSize - 1 |-> got]
  /\ head = 0
  /\ tail = 0
  /\ consumer = NULL
  /\ holder = NULL
  /\ waiters = <<>>
  /\ pc = [t \in Threads |-> "user"]

----------------------------------------------------------------------------
next_pos(pos) == (pos + 1) % BufSize

\* Mutant: a full queue is not noticed.
Mut_never_full == FALSE

ioq_full == next_pos(head) = tail
ioq_empty == head = tail

\* Mutant: the sleeper is forgotten without being woken.
Mut_no_wakeup(w, ok) == panic' = ~ok /\ UNCHANGED <<status, ready, cur, ticks>>

\* ioq_wakeup of the recorded sleeper w, or nothing when there is none.
ioq_wakeup(w, ok) ==
  IF w = NULL
  THEN panic' = ~ok /\ UNCHANGED <<status, ready, cur, ticks>>
  ELSE thread_unblock(w, ok)

\* The thread enters the queue code with interrupts off.
Call(t) ==
  /\ at(t, "user")
  /\ goto(t, "test")
  /\ UNCHANGED <<schedVars, ring, consumer, mutexVars>>

\* The loop test, when the thread has to wait: on to lock_acquire.
MustWait(t) ==
  /\ at(t, "test")
  /\ ioq_empty
  /\ goto(t, "lock")
  /\ UNCHANGED <<schedVars, ring, consumer, mutexVars>>

\* lock_acquire when another thread has the lock.
WaitForLock(t) ==
  /\ at(t, "lock")
  /\ lock_wait
  /\ UNCHANGED <<ring, consumer, pc>>

\* lock_acquire when the lock is free, then ioq_wait: the sleeper is recorded
\* and sleeps with the lock.
ioq_wait(t) ==
  /\ at(t, "lock")
  /\ lock_take
  /\ thread_block("BLOCKED", consumer = NULL)
  /\ consumer' = t
  /\ goto(t, "asleep")
  /\ UNCHANGED ring

\* Woken from ioq_wait: lock_release, and back to the loop test.
Woken(t) ==
  /\ at(t, "asleep")
  /\ lock_release
  /\ goto(t, "test")
  /\ UNCHANGED <<ring, consumer>>

\* ioq_getchar past its loop; there is no producer to wake.
ioq_getchar(t) ==
  /\ at(t, "test")
  /\ ~ioq_empty
  /\ got' = buf[tail]
  /\ tail' = next_pos(tail)
  /\ goto(t, "user")
  /\ UNCHANGED <<schedVars, buf, head, consumer, mutexVars>>

\* Mutant: the woken consumer stays recorded.
Mut_put_keeps_consumer(c) ==
  /\ buf' = [buf EXCEPT ![head] = c]
  /\ head' = next_pos(head)
  /\ ioq_wakeup(consumer, TRUE)
  /\ UNCHANGED <<tail, got, consumer, mutexVars>>

\* ioq_putchar past its loop.
ioq_putchar(c) ==
  /\ buf' = [buf EXCEPT ![head] = c]
  /\ head' = next_pos(head)
  /\ ioq_wakeup(consumer, TRUE)
  /\ consumer' = NULL
  /\ UNCHANGED <<tail, got, mutexVars>>

idle ==
  /\ cur = Idle
  /\ thread_block("BLOCKED", TRUE)
  /\ UNCHANGED <<ring, consumer, mutexVars, pc>>

Timer ==
  /\ IntrOn
  /\ intr_timer_handler
  /\ UNCHANGED <<ring, consumer, mutexVars, pc>>

Run(t) == MustWait(t) \/ WaitForLock(t) \/ ioq_wait(t) \/ Woken(t) \/ ioq_getchar(t)

----------------------------------------------------------------------------
\* The characters in the ring, oldest first.
Contents == [i \in 1..((head - tail) % BufSize) |-> buf[(tail + i - 1) % BufSize]]

F == INSTANCE Fifo WITH q <- Contents, Capacity <- BufSize - 1

\* The ring is a first-in first-out queue of BUF_SIZE - 1 characters: none is
\* lost, duplicated, reordered or overwritten, whoever is interrupted.
ImplementsFifo == F!Spec

\* The recorded sleeper really sleeps, holding the lock, and every other
\* blocked thread is in the lock's queue: the tag of a thread is in one list,
\* and the assertions of ioq_wait, ioq_wakeup and thread_unblock hold.
SleepersExact ==
  /\ ~panic
  /\ \A t \in Threads :
       /\ t = consumer => holder = t /\ pc[t] = "asleep"
       /\ status[t] \in Blocked <=> t = consumer \/ elem_find(waiters, t)

\* Readers that keep reading take every character in the end, even when one
\* of them sleeps on it: a queue that is not empty again and again is read
\* again and again.
CharRead == []<>ioq_empty \/ []<><<tail' = next_pos(tail)>>_tail

=============================================================================
