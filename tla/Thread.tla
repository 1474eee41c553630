------------------------------- MODULE Thread -------------------------------
(***************************************************************************)
(* The life of threads on the scheduler: thread_init's initial state,      *)
(* thread_start, the idle loop, and threads that block, yield and unblock  *)
(* each other at will, preempted by the timer.                             *)
(***************************************************************************)
EXTENDS Sched

CONSTANTS Main,      \* main_thread, which runs while thread_init builds the rest
          InitProc   \* the process thread_init starts before everything else

ASSUME MainAssumption == /\ Main \in Threads
                         /\ InitProc \in Threads
                         /\ Main # InitProc

VARIABLES all_list,  \* the threads in thread_all_list
          starting   \* what each thread has queued in thread_start and not yet
                     \* put in thread_all_list

vars == <<status, ready, cur, ticks, panic, all_list, starting>>

\* thread_init: the init process and idle_thread are queued, in this order.
Init ==
  /\ status = [t \in All |-> CASE t = Main -> "RUNNING"
                               [] t \in {InitProc, Idle} -> "READY"
                               [] OTHER -> "NONE"]
  /\ ready = <<InitProc, Idle>>
  /\ cur = Main
  /\ ticks = Prio
  /\ panic = FALSE
  /\ all_list = {Main, InitProc, Idle}
  /\ starting = [t \in Threads |-> {}]

----------------------------------------------------------------------------
\* The running thread is in no call of the scheduler.
Free == cur \in Threads /\ starting[cur] = {}

\* init_thread and thread_create fill in a fresh PCB, which is queued at the
\* tail.
Enqueue(t, ok) ==
  /\ Free
  /\ status[t] = "NONE"
  /\ panic' = ~(ok /\ ~elem_find(ready, t))
  /\ status' = [status EXCEPT ![t] = "READY"]
  /\ ticks' = [ticks EXCEPT ![t] = Prio[t]]
  /\ ready' = list_append(ready, t)
  /\ UNCHANGED cur

\* process_execute fills both lists with interrupts off.
process_execute(t) ==
  /\ Enqueue(t, t \notin all_list)
  /\ all_list' = all_list \cup {t}
  /\ UNCHANGED starting

\* thread_start does not disable interrupts: its caller can be preempted, and
\* the new thread run, before it is in thread_all_list.
thread_start(t) ==
  /\ Enqueue(t, TRUE)
  /\ starting' = [starting EXCEPT ![cur] = {t}]
  /\ UNCHANGED all_list

thread_start_end ==
  /\ cur \in Threads
  /\ starting[cur] # {}
  /\ panic' = (starting[cur] \cap all_list # {})
  /\ all_list' = all_list \cup starting[cur]
  /\ starting' = [starting EXCEPT ![cur] = {}]
  /\ UNCHANGED <<status, ready, cur, ticks>>

\* idle: the loop of idle_thread; between two rounds it halts with interrupts
\* on, so the timer can take the CPU from it.
idle ==
  /\ cur = Idle
  /\ thread_block("BLOCKED", TRUE)
  /\ UNCHANGED <<all_list, starting>>

\* A thread waits for an event, in any state thread_block accepts.
Wait(stat) ==
  /\ Free
  /\ thread_block(stat, TRUE)
  /\ UNCHANGED <<all_list, starting>>

\* The event comes: the running thread, or an interrupt handler that borrows
\* it, unblocks a thread that waits.
Wake(t) ==
  /\ t # cur
  /\ status[t] \in Blocked
  /\ thread_unblock(t, TRUE)
  /\ UNCHANGED <<all_list, starting>>

Yield ==
  /\ Free
  /\ thread_yield
  /\ UNCHANGED <<all_list, starting>>

Timer ==
  /\ intr_timer_handler
  /\ UNCHANGED <<all_list, starting>>

Next ==
  /\ ~panic
  /\ \/ \E t \in Threads : process_execute(t) \/ thread_start(t) \/ Wake(t)
     \/ thread_start_end
     \/ \E stat \in Blocked : Wait(stat)
     \/ idle
     \/ Yield
     \/ Timer

(***************************************************************************)
(* The timer interrupt stays pending while interrupts are off and is taken *)
(* as soon as they are on again, so it cannot be passed over for ever.     *)
(***************************************************************************)
Fairness == SF_vars(Timer)

Spec == Init /\ [][Next]_vars /\ Fairness

----------------------------------------------------------------------------
\* Every variable keeps its type.
TypeOK ==
  /\ SchedTypeOK
  /\ all_list \subseteq All
  /\ starting \in [Threads -> SUBSET Threads]

\* thread_unblock queues at the FRONT and a thread that blocks keeps its used
\* up slice, yet no READY thread can be passed over for ever: each expiry of
\* a slice puts one more rival behind it in thread_ready_list.
ReadyRuns == \A t \in Threads : status[t] = "READY" ~> cur = t

\* idle_thread is woken from its thread_block only when schedule() found
\* nothing else to run.  (One that was preempted while awake is queued and
\* chosen like any other thread.)
IdleLast ==
  [][status[Idle] = "BLOCKED" /\ status'[Idle] # "BLOCKED"
       => \A t \in Threads : status'[t] # "READY"]_vars

=============================================================================
