------------------------------- MODULE Sched -------------------------------
(***************************************************************************)
(* The scheduler of thread/thread.c: the status of every thread, the ready *)
(* list, the thread on the (only) CPU and the remaining time slices, with  *)
(* the primitives every other component is built from: schedule,           *)
(* thread_block, thread_unblock, thread_yield and the timer handler.       *)
(*                                                                         *)
(* All of these run with interrupts disabled, so on one CPU each is atomic *)
(* up to the moment it returns or switches to another thread: each is one  *)
(* action here, to be conjoined with what its caller does.  A switch       *)
(* leaves the caller inside schedule(); the pc of the component says where *)
(* the thread resumes.                                                     *)
(*                                                                         *)
(* ASSERT and PANIC disable interrupts and spin for ever, so a failed one  *)
(* stops the machine: it sets panic, and no action of any component is     *)
(* enabled once panic holds (what the step leaves in the other variables   *)
(* is then irrelevant).                                                    *)
(***************************************************************************)
EXTENDS Integers, Sequences, FiniteSets

CONSTANTS Threads,   \* the threads other than idle_thread
          Idle,      \* idle_thread
          Prio       \* priority of each thread, its time slice in ticks

All == Threads \cup {Idle}

ASSUME SchedAssumption == /\ IsFiniteSet(Threads)
                          /\ Idle \notin Threads
                          /\ Prio \in [All -> Nat]

VARIABLES status,    \* task_struct.status; "NONE" before the thread exists
          ready,     \* thread_ready_list, a sequence of threads
          cur,       \* running_thread()
          ticks,     \* task_struct.ticks
          panic      \* an ASSERT or PANIC has stopped the machine

schedVars == <<status, ready, cur, ticks, panic>>

\* The states in which a thread waits for an event.
Blocked == {"BLOCKED", "WAITING", "HANGING"}

Status == {"NONE", "RUNNING", "READY"} \cup Blocked

----------------------------------------------------------------------------
(***************************************************************************)
(* The list operations of lib/kernel/list.c.                               *)
(***************************************************************************)
elem_find(lst, e) == \E i \in 1..Len(lst) : lst[i] = e

list_push(lst, e) == <<e>> \o lst

\* Mutant: list_append links the element in front.
Mut_append_front(lst, e) == <<e>> \o lst

list_append(lst, e) == Append(lst, e)

----------------------------------------------------------------------------
\* Mutant: schedule() wakes idle_thread although one thread is still ready.
Mut_schedule_idle_early(st, rd, ok) ==
  LET expired == st[cur] = "RUNNING"
      rd1  == IF expired THEN list_append(rd, cur) ELSE rd
      st1  == IF expired THEN [st EXCEPT ![cur] = "READY"] ELSE st
      rd2  == IF Len(rd1) <= 1 THEN list_push(rd1, Idle) ELSE rd1
      next == Head(rd2)
  IN  /\ panic' = ~ok
      /\ ticks' = IF expired THEN [ticks EXCEPT ![cur] = Prio[cur]] ELSE ticks
      /\ status' = [st1 EXCEPT ![next] = "RUNNING"]
      /\ ready' = Tail(rd2)
      /\ cur' = next

(***************************************************************************)
(* schedule(), called with the status and the ready list the caller left;  *)
(* ok says whether the ASSERTs the caller already passed held.  A RUNNING  *)
(* thread is preempted: it goes to the tail with a fresh time slice.  When *)
(* nothing is ready, idle_thread is unblocked first.                       *)
(***************************************************************************)
schedule(st, rd, ok) ==
  LET expired == st[cur] = "RUNNING"
      rd1  == IF expired THEN list_append(rd, cur) ELSE rd
      st1  == IF expired THEN [st EXCEPT ![cur] = "READY"] ELSE st
      rd2  == IF rd1 = <<>> THEN list_push(rd1, Idle) ELSE rd1
      next == Head(rd2)
  IN  /\ panic' = ~ /\ ok
                    /\ expired => ~elem_find(rd, cur)
                    /\ rd1 = <<>> => st1[Idle] \in Blocked
      /\ ticks' = IF expired THEN [ticks EXCEPT ![cur] = Prio[cur]] ELSE ticks
      /\ status' = [st1 EXCEPT ![next] = "RUNNING"]
      /\ ready' = Tail(rd2)
      /\ cur' = next

\* thread_block: the running thread leaves the CPU without being queued.
thread_block(stat, ok) ==
  schedule([status EXCEPT ![cur] = stat], ready, ok /\ stat \in Blocked)

\* Mutant: thread_unblock queues the thread and forgets its status.
Mut_unblock_keeps_status(t, ok) ==
  /\ panic' = ~ /\ ok
                /\ status[t] \in Blocked
                /\ ~elem_find(ready, t)
  /\ ready' = list_push(ready, t)
  /\ UNCHANGED <<status, cur, ticks>>

\* thread_unblock: t goes to the FRONT of the ready list; the caller goes on.
thread_unblock(t, ok) ==
  /\ panic' = ~ /\ ok
                /\ status[t] \in Blocked
                /\ ~elem_find(ready, t)
  /\ ready' = list_push(ready, t)
  /\ status' = [status EXCEPT ![t] = "READY"]
  /\ UNCHANGED <<cur, ticks>>

\* Mutant: thread_yield leaves the caller RUNNING.
Mut_yield_keeps_running ==
  schedule(status, list_append(ready, cur), ~elem_find(ready, cur))

\* thread_yield: to the tail, keeping what is left of the time slice.
thread_yield ==
  schedule([status EXCEPT ![cur] = "READY"], list_append(ready, cur),
           ~elem_find(ready, cur))

\* intr_timer_handler: one tick of the running thread's time slice.
intr_timer_handler ==
  IF ticks[cur] = 0
  THEN schedule(status, ready, TRUE)
  ELSE /\ ticks' = [ticks EXCEPT ![cur] = @ - 1]
       /\ UNCHANGED <<status, ready, cur, panic>>

----------------------------------------------------------------------------
(***************************************************************************)
(* What the scheduler relies on.  General tags are intrusive list nodes,   *)
(* so a thread queued twice, or queued while it runs or waits, corrupts    *)
(* the list.                                                               *)
(***************************************************************************)
NoDup(lst) == \A i, j \in 1..Len(lst) : lst[i] = lst[j] => i = j

\* The lists that hold every member of a finite set once, in any order.
Orders(S) == {s \in [1..Cardinality(S) -> S] :
                NoDup(s) /\ \A e \in S : elem_find(s, e)}

SchedTypeOK ==
  /\ status \in [All -> Status]
  /\ ready \in Seq(All)
  /\ cur \in All
  /\ ticks \in [All -> Nat]
  /\ panic \in BOOLEAN

\* The CPU runs exactly the RUNNING thread, and the ready list holds exactly
\* the READY ones, each once.
ReadyListExact ==
  /\ \A t \in All : status[t] = "RUNNING" <=> t = cur
  /\ \A t \in All : elem_find(ready, t) <=> status[t] = "READY"
  /\ NoDup(ready)

\* idle_thread only ever waits in its own thread_block(TASK_BLOCKED).
IdleParked == status[Idle] \in {"RUNNING", "READY", "BLOCKED"}

\* No ASSERT or PANIC of the modelled code ever stops the machine.
NoPanic == ~panic

=============================================================================
