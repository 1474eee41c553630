---------------------------- MODULE ThreadProofs ----------------------------
(***************************************************************************)
(* The safety of thread.c's lists for any number of threads and any time   *)
(* slices.                                                                 *)
(***************************************************************************)
EXTENDS Thread, SchedProofs

\* thread_all_list holds the threads that exist, less those whose thread_start
\* is not finished, each of which has one caller (the second ASSERT of
\* thread_start relies on it).
Unlisted(t) == \E u \in Threads : t \in starting[u]
AllListInv ==
  /\ starting \in [Threads -> SUBSET Threads]
  /\ \A t \in All : t \in all_list <=> status[t] # "NONE" /\ ~Unlisted(t)
  /\ \A t \in Threads : Unlisted(t) => status[t] # "NONE"
  /\ \A u, v \in Threads : u # v => starting[u] \cap starting[v] = {}

\* The inductive invariant: the scheduler's and that of thread_all_list.
IInv == SchedInv /\ all_list \subseteq All /\ AllListInv

\* The state thread_init leaves satisfies the inductive invariant.
LEMMA InitIInv == Init => IInv
<1> SUFFICES ASSUME Init PROVE IInv
  OBVIOUS
<1> USE SchedAssumption, MainAssumption
<1>1. /\ Main \in All /\ InitProc \in All /\ Idle \in All
      /\ Main # Idle /\ InitProc # Idle /\ Main # InitProc
  BY DEF All
<1>2. /\ status \in [All -> Status]
      /\ status[Main] = "RUNNING" /\ status[InitProc] = "READY" /\ status[Idle] = "READY"
      /\ \A t \in All \ {Main, InitProc, Idle} : status[t] = "NONE"
  BY <1>1 DEF Init, Status
<1>3. ready \in Seq(All) /\ Len(ready) = 2 /\ ready[1] = InitProc /\ ready[2] = Idle
  BY <1>1 DEF Init
<1>4. SchedTypeOK
  BY <1>1, <1>2, <1>3 DEF Init, SchedTypeOK
<1>5. \A t \in All : elem_find(ready, t) <=> t \in {InitProc, Idle}
  BY <1>3 DEF elem_find
<1>6. NoDup(ready)
  BY <1>1, <1>3 DEF NoDup
<1>7. ReadyListExact
  BY <1>1, <1>2, <1>5, <1>6 DEF Init, ReadyListExact
<1>8. IdleParked /\ NoPanic
  BY <1>2 DEF Init, IdleParked, NoPanic
<1>9. all_list \subseteq All /\ AllListInv
  BY <1>1, <1>2 DEF Init, AllListInv, Unlisted
<1> QED BY <1>4, <1>7, <1>8, <1>9 DEF IInv, SchedInv

\* Which threads exist is not changed by a step that only moves threads
\* between the states of existing ones.
LEMMA AllListKept ==
  ASSUME IInv, SchedInv', UNCHANGED <<all_list, starting>>,
         \A t \in All : status'[t] = "NONE" <=> status[t] = "NONE"
  PROVE  IInv'
BY DEF IInv, AllListInv, Unlisted, All

\* Every step of a thread and of the timer preserves it.
LEMMA NextIInv == IInv /\ [Next]_vars => IInv'
<1> SUFFICES ASSUME IInv, [Next]_vars PROVE IInv'
  OBVIOUS
<1> USE SchedAssumption, MainAssumption
<1>0. SchedInv /\ Idle \in All /\ Idle \notin Threads /\ cur \in All
      /\ Threads \subseteq All /\ status[cur] = "RUNNING" /\ status[Idle] # "NONE"
  BY DEF IInv, SchedInv, SchedTypeOK, ReadyListExact, IdleParked, All
<1>1. ASSUME NEW t \in Threads, process_execute(t) \/ thread_start(t) PROVE IInv'
  <2>1. /\ t \in All /\ t # Idle /\ t # cur /\ cur \in Threads /\ starting[cur] = {}
        /\ status[t] = "NONE" /\ ~elem_find(ready, t)
        /\ t \notin all_list /\ ~Unlisted(t)
    BY <1>0, <1>1 DEF IInv, AllListInv, SchedInv, ReadyListExact,
                      process_execute, thread_start, Enqueue, Free
  <2>2. /\ status' = [status EXCEPT ![t] = "READY"]
        /\ ready' = list_append(ready, t)
        /\ cur' = cur
        /\ ticks' = [ticks EXCEPT ![t] = Prio[t]]
        /\ panic' = FALSE
    BY <1>1, <2>1 DEF process_execute, thread_start, Enqueue
  <2>3. /\ list_append(ready, t) \in Seq(All)
        /\ \A x : elem_find(list_append(ready, t), x) <=> elem_find(ready, x) \/ x = t
        /\ NoDup(list_append(ready, t))
    BY <2>1, <1>0, AppendMembers DEF SchedInv, SchedTypeOK, ReadyListExact
  <2>4. SchedTypeOK'
    BY <2>1, <2>2, <2>3, <1>0 DEF SchedInv, SchedTypeOK, Status
  <2>5. ReadyListExact'
    BY <2>1, <2>2, <2>3, <1>0 DEF SchedInv, SchedTypeOK, ReadyListExact
  <2>6. IdleParked' /\ NoPanic'
    BY <2>1, <2>2, <1>0 DEF SchedInv, SchedTypeOK, IdleParked, NoPanic
  <2>7. \A u \in All : status'[u] = IF u = t THEN "READY" ELSE status[u]
    BY <2>1, <2>2, <1>0 DEF SchedInv, SchedTypeOK
  <2>8. CASE process_execute(t)
    <3>1. all_list' = all_list \cup {t} /\ starting' = starting
      BY <2>8 DEF process_execute
    <3>2. all_list' \subseteq All /\ AllListInv'
      BY <3>1, <2>1, <2>7, <1>0 DEF IInv, AllListInv, Unlisted
    <3> QED BY <3>2, <2>4, <2>5, <2>6 DEF IInv, SchedInv
  <2>9. CASE thread_start(t)
    <3>1. all_list' = all_list /\ starting' = [starting EXCEPT ![cur] = {t}]
      BY <2>9 DEF thread_start
    <3>2. /\ starting' \in [Threads -> SUBSET Threads]
          /\ \A u \in Threads : starting'[u] = IF u = cur THEN {t} ELSE starting[u]
      BY <3>1, <2>1 DEF IInv, AllListInv
    <3>3. \A u \in All : Unlisted(u)' <=> Unlisted(u) \/ u = t
      BY <3>2, <2>1 DEF Unlisted
    <3>4. \A u, v \in Threads : u # v => starting'[u] \cap starting'[v] = {}
      BY <3>2, <2>1 DEF IInv, AllListInv, Unlisted
    <3>5. AllListInv'
      BY <3>1, <3>2, <3>3, <3>4, <2>1, <2>7, <1>0 DEF IInv, AllListInv
    <3> QED BY <3>1, <3>5, <2>4, <2>5, <2>6 DEF IInv, SchedInv
  <2> QED BY <1>1, <2>8, <2>9
<1>2. ASSUME NEW t \in Threads, Wake(t) PROVE IInv'
  <2>1. SchedInv' /\ status' = [status EXCEPT ![t] = "READY"]
    BY <1>0, <1>2, UnblockKeepsInv DEF Wake
  <2> QED BY <2>1, <1>0, <1>2, AllListKept DEF Wake, SchedInv, SchedTypeOK, Blocked
<1>3. ASSUME NEW stat \in Blocked, Wait(stat) PROVE IInv'
  <2>1. /\ SchedInv'
        /\ cur \in Threads => status'[cur] = stat
        /\ \A t \in Threads \ {cur} : \/ status'[t] = status[t]
                                      \/ {status[t], status'[t]} \subseteq {"READY", "RUNNING"}
    BY <1>0, <1>3, BlockKeepsInv DEF Wait, Free
  <2>2. status'[Idle] # "NONE"
    BY <2>1 DEF SchedInv, IdleParked
  <2>3. \A t \in All : status'[t] = "NONE" <=> status[t] = "NONE"
    BY <2>1, <2>2, <1>0, <1>3 DEF All, Blocked, Wait, Free
  <2> QED BY <2>1, <2>3, <1>3, AllListKept DEF Wait
<1>4. ASSUME idle PROVE IInv'
  <2>1. /\ SchedInv'
        /\ \A t \in Threads \ {cur} : \/ status'[t] = status[t]
                                      \/ {status[t], status'[t]} \subseteq {"READY", "RUNNING"}
    BY <1>0, <1>4, BlockKeepsInv DEF idle, Blocked
  <2>2. status'[Idle] # "NONE"
    BY <2>1 DEF SchedInv, IdleParked
  <2>3. \A t \in All : status'[t] = "NONE" <=> status[t] = "NONE"
    BY <2>1, <2>2, <1>0, <1>4 DEF All, idle
  <2> QED BY <2>1, <2>3, <1>4, AllListKept DEF idle
<1>5. ASSUME Yield \/ Timer PROVE IInv'
  <2>1. /\ SchedInv'
        /\ \A t \in Threads : \/ status'[t] = status[t]
                              \/ {status[t], status'[t]} \subseteq {"READY", "RUNNING"}
    BY <1>0, <1>5, YieldKeepsInv, TimerKeepsInv DEF Yield, Timer
  <2>2. status'[Idle] # "NONE"
    BY <2>1 DEF SchedInv, IdleParked
  <2>3. \A t \in All : status'[t] = "NONE" <=> status[t] = "NONE"
    BY <2>1, <2>2, <1>0 DEF All
  <2> QED BY <2>1, <2>3, <1>5, AllListKept DEF Yield, Timer
<1>6. ASSUME thread_start_end PROVE IInv'
  <2>1. /\ cur \in Threads
        /\ starting[cur] \cap all_list = {}
        /\ starting[cur] \subseteq Threads
    BY <1>6, <1>0 DEF thread_start_end, IInv, AllListInv, Unlisted
  <2>2. /\ panic' = FALSE
        /\ all_list' = all_list \cup starting[cur]
        /\ starting' = [starting EXCEPT ![cur] = {}]
        /\ status' = status /\ ready' = ready /\ cur' = cur /\ ticks' = ticks
    BY <1>6, <2>1 DEF thread_start_end
  <2>3. SchedInv'
    BY <2>2, <1>0 DEF SchedInv, SchedTypeOK, ReadyListExact, IdleParked, NoPanic
  <2>4. /\ starting' \in [Threads -> SUBSET Threads]
        /\ \A u \in Threads : starting'[u] = IF u = cur THEN {} ELSE starting[u]
    BY <2>1, <2>2 DEF IInv, AllListInv
  <2>5. \A t \in All : Unlisted(t)' <=> Unlisted(t) /\ t \notin starting[cur]
    BY <2>1, <2>4 DEF IInv, AllListInv, Unlisted
  <2>6. \A u, v \in Threads : u # v => starting'[u] \cap starting'[v] = {}
    BY <2>4 DEF IInv, AllListInv
  <2>7. \A t \in starting[cur] : status[t] # "NONE"
    BY <2>1 DEF IInv, AllListInv, Unlisted
  <2>8. all_list' \subseteq All /\ AllListInv'
    BY <2>1, <2>2, <2>4, <2>5, <2>6, <2>7, <1>0 DEF IInv, AllListInv
  <2> QED BY <2>3, <2>8 DEF IInv
<1>7. CASE UNCHANGED vars
  BY <1>7 DEF vars, IInv, SchedInv, SchedTypeOK, ReadyListExact, IdleParked, NoPanic,
              AllListInv, Unlisted
<1> QED BY <1>1, <1>2, <1>3, <1>4, <1>5, <1>6, <1>7 DEF Next

\* The inductive invariant holds in every reachable state.
LEMMA SpecIInv == Spec => []IInv
BY InitIInv, NextIInv, PTL DEF Spec

\* Every variable of thread.c's scheduler keeps its type.
THEOREM ThreadTypeCorrect == Spec => []TypeOK
<1>1. IInv => TypeOK
  BY DEF IInv, SchedInv, TypeOK, AllListInv
<1> QED BY SpecIInv, <1>1, PTL

\* The CPU runs exactly the RUNNING thread and thread_ready_list holds exactly
\* the READY ones, each once, whatever threads start, block, yield, wake each
\* other and lose their slices.
THEOREM ReadyListSafe == Spec => []ReadyListExact
<1>1. IInv => ReadyListExact
  BY DEF IInv, SchedInv
<1> QED BY SpecIInv, <1>1, PTL

\* idle_thread is never found in a state its loop does not block in.
THEOREM IdleStaysParked == Spec => []IdleParked
<1>1. IInv => IdleParked
  BY DEF IInv, SchedInv
<1> QED BY SpecIInv, <1>1, PTL

\* No ASSERT of schedule, thread_block, thread_unblock, thread_yield or
\* thread_start ever fails.
THEOREM ThreadNeverPanics == Spec => []NoPanic
<1>1. IInv => NoPanic
  BY DEF IInv, SchedInv
<1> QED BY SpecIInv, <1>1, PTL

\* schedule() wakes idle_thread from its thread_block only when no other thread
\* is READY.  (An idle_thread that the timer preempts before it blocks again is
\* queued like any other thread; nothing is stated of that.)
THEOREM IdleWokenLast == Spec => IdleLast
<1> DEFINE Last == status[Idle] = "BLOCKED" /\ status'[Idle] # "BLOCKED"
                     => \A t \in Threads : status'[t] # "READY"
<1>1. ASSUME IInv, [Next]_vars PROVE [Last]_vars
  <2> USE SchedAssumption
  <2>0. SchedInv /\ Idle \notin Threads /\ Idle \in All
    BY <1>1 DEF IInv, All
  <2>1. ASSUME NEW t \in Threads, process_execute(t) \/ thread_start(t) \/ Wake(t)
        PROVE  Last
    <3>1. status'[Idle] = status[Idle]
      BY <2>0, <2>1 DEF process_execute, thread_start, Enqueue, Wake, thread_unblock,
                        SchedInv, SchedTypeOK
    <3> QED BY <3>1
  <2>2. ASSUME NEW stat \in Blocked, Wait(stat) PROVE Last
    BY <2>0, <2>2, BlockKeepsInv DEF Wait, Free
  <2>3. ASSUME idle PROVE Last
    BY <2>0, <2>3, BlockKeepsInv DEF idle, Blocked
  <2>4. ASSUME Yield \/ Timer PROVE Last
    BY <2>0, <2>4, YieldKeepsInv, TimerKeepsInv DEF Yield, Timer
  <2>5. ASSUME thread_start_end PROVE Last
    BY <2>5 DEF thread_start_end
  <2> QED BY <1>1, <2>1, <2>2, <2>3, <2>4, <2>5 DEF Next
<1> QED BY <1>1, SpecIInv, PTL DEF Spec, IdleLast

=============================================================================
