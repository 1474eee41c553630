---------------------------- MODULE SchedProofs ----------------------------
(***************************************************************************)
(* Facts about the scheduler's primitives, for the proofs about the        *)
(* components built on them.                                               *)
(***************************************************************************)
EXTENDS Sched, FiniteSetTheorems, SequenceTheorems, TLAPS

\* list_append adds one member, and keeps the list free of duplicates when
\* the member is new (the ASSERT before every list_append of thread.c).
LEMMA AppendMembers ==
  ASSUME NEW S, NEW lst \in Seq(S), NEW e \in S
  PROVE  /\ list_append(lst, e) \in Seq(S)
         /\ list_append(lst, e) # <<>>
         /\ \A x : elem_find(list_append(lst, e), x) <=> elem_find(lst, x) \/ x = e
         /\ NoDup(lst) /\ ~elem_find(lst, e) => NoDup(list_append(lst, e))
<1> DEFINE app == list_append(lst, e)
<1>1. /\ app \in Seq(S)
      /\ Len(app) = Len(lst) + 1
      /\ \A i \in 1..Len(lst) : app[i] = lst[i]
      /\ app[Len(lst) + 1] = e
  BY DEF list_append
<1>2. \A x : elem_find(app, x) <=> elem_find(lst, x) \/ x = e
  <2>1. Len(lst) \in Nat
    OBVIOUS
  <2> HIDE DEF app
  <2> QED BY <1>1, <2>1 DEF elem_find
<1>3. NoDup(lst) /\ ~elem_find(lst, e) => NoDup(app)
  <2>1. Len(lst) \in Nat
    OBVIOUS
  <2> HIDE DEF app
  <2> QED BY <1>1, <2>1 DEF elem_find, NoDup
<1>4. app # <<>>
  BY <1>1
<1> QED BY <1>1, <1>2, <1>3, <1>4

\* The same for list_push.
LEMMA PushMembers ==
  ASSUME NEW S, NEW lst \in Seq(S), NEW e \in S
  PROVE  /\ list_push(lst, e) \in Seq(S)
         /\ list_push(lst, e) # <<>>
         /\ \A x : elem_find(list_push(lst, e), x) <=> elem_find(lst, x) \/ x = e
         /\ NoDup(lst) /\ ~elem_find(lst, e) => NoDup(list_push(lst, e))
<1> DEFINE psh == list_push(lst, e)
<1>1. /\ psh \in Seq(S)
      /\ Len(psh) = Len(lst) + 1
      /\ \A i \in 1..Len(lst) : psh[i + 1] = lst[i]
      /\ psh[1] = e
  BY DEF list_push
<1>2. \A i \in 2..Len(lst) + 1 : psh[i] = lst[i - 1]
  <2> SUFFICES ASSUME NEW i \in 2..Len(lst) + 1 PROVE psh[i] = lst[i - 1]
    OBVIOUS
  <2>1. i - 1 \in 1..Len(lst) /\ (i - 1) + 1 = i
    OBVIOUS
  <2> HIDE DEF psh
  <2> QED BY <1>1, <2>1
<1>3. Len(lst) \in Nat
  OBVIOUS
<1> HIDE DEF psh
<1>4. \A x : elem_find(psh, x) <=> elem_find(lst, x) \/ x = e
  <2> SUFFICES ASSUME NEW x PROVE elem_find(psh, x) <=> elem_find(lst, x) \/ x = e
    OBVIOUS
  <2>1. elem_find(psh, x) => elem_find(lst, x) \/ x = e
    <3> SUFFICES ASSUME NEW i \in 1..Len(lst) + 1, psh[i] = x
                 PROVE  elem_find(lst, x) \/ x = e
      BY <1>1 DEF elem_find
    <3>1. CASE i = 1
      BY <3>1, <1>1
    <3>2. CASE i # 1
      <4>1. i \in 2..Len(lst) + 1 /\ i - 1 \in 1..Len(lst)
        BY <3>2, <1>3
      <4> QED BY <4>1, <1>2 DEF elem_find
    <3> QED BY <3>1, <3>2
  <2>2. x = e => elem_find(psh, x)
    BY <1>1, <1>3 DEF elem_find
  <2>3. elem_find(lst, x) => elem_find(psh, x)
    <3> SUFFICES ASSUME NEW i \in 1..Len(lst), lst[i] = x PROVE elem_find(psh, x)
      BY DEF elem_find
    <3>1. i + 1 \in 1..Len(psh) /\ psh[i + 1] = x
      BY <1>1, <1>3
    <3> QED BY <3>1 DEF elem_find
  <2> QED BY <2>1, <2>2, <2>3
<1>5. NoDup(lst) /\ ~elem_find(lst, e) => NoDup(psh)
  <2> SUFFICES ASSUME NoDup(lst), ~elem_find(lst, e),
                      NEW i \in 1..Len(psh), NEW j \in 1..Len(psh), psh[i] = psh[j]
               PROVE  i = j
    BY DEF NoDup
  <2>1. \A k \in 1..Len(psh) : k # 1 =>
          k \in 2..Len(lst) + 1 /\ k - 1 \in 1..Len(lst) /\ k \in Int
    BY <1>1, <1>3
  <2>2. CASE i = 1 /\ j # 1
    BY <2>1, <2>2, <1>1, <1>2 DEF elem_find
  <2>3. CASE j = 1 /\ i # 1
    BY <2>1, <2>3, <1>1, <1>2 DEF elem_find
  <2>4. CASE i # 1 /\ j # 1
    <3>1. lst[i - 1] = lst[j - 1]
      BY <2>1, <2>4, <1>2
    <3>2. i - 1 = j - 1
      BY <3>1, <2>1, <2>4 DEF NoDup
    <3> QED BY <3>2, <2>1, <2>4
  <2> QED BY <2>2, <2>3, <2>4
<1>6. psh # <<>>
  BY <1>1, <1>3
<1> QED BY <1>1, <1>4, <1>5, <1>6 DEF psh

\* list_pop removes exactly the first member of a list without duplicates.
LEMMA PopMembers ==
  ASSUME NEW S, NEW lst \in Seq(S), lst # <<>>, NoDup(lst)
  PROVE  /\ Head(lst) \in S
         /\ elem_find(lst, Head(lst))
         /\ Tail(lst) \in Seq(S)
         /\ NoDup(Tail(lst))
         /\ \A x : elem_find(Tail(lst), x) <=> elem_find(lst, x) /\ x # Head(lst)
<1>1. /\ Tail(lst) \in Seq(S)
      /\ Len(lst) \in Nat /\ Len(lst) >= 1
      /\ Len(Tail(lst)) = Len(lst) - 1
      /\ \A i \in 1..Len(lst) - 1 : Tail(lst)[i] = lst[i + 1]
      /\ Head(lst) = lst[1]
      /\ Head(lst) \in S
  OBVIOUS
<1>2. elem_find(lst, Head(lst))
  BY <1>1 DEF elem_find
<1>3. NoDup(Tail(lst))
  <2> SUFFICES ASSUME NEW i \in 1..Len(lst) - 1, NEW j \in 1..Len(lst) - 1,
                      lst[i + 1] = lst[j + 1]
               PROVE  i = j
    BY <1>1 DEF NoDup
  <2>1. i + 1 \in 1..Len(lst) /\ j + 1 \in 1..Len(lst)
    BY <1>1
  <2>2. i + 1 = j + 1
    BY <2>1 DEF NoDup
  <2> QED BY <2>2
<1>4. ASSUME NEW x, elem_find(Tail(lst), x) PROVE elem_find(lst, x) /\ x # Head(lst)
  <2>1. PICK i \in 1..Len(lst) - 1 : lst[i + 1] = x
    BY <1>1, <1>4 DEF elem_find
  <2>2. i + 1 \in 1..Len(lst) /\ 1 \in 1..Len(lst) /\ i + 1 # 1
    BY <1>1
  <2> QED BY <1>1, <2>1, <2>2 DEF elem_find, NoDup
<1>5. ASSUME NEW x, elem_find(lst, x), x # Head(lst) PROVE elem_find(Tail(lst), x)
  <2>1. PICK i \in 1..Len(lst) : lst[i] = x
    BY <1>5 DEF elem_find
  <2>2. i - 1 \in 1..Len(lst) - 1 /\ (i - 1) + 1 = i
    BY <1>1, <1>5, <2>1
  <2>3. Tail(lst)[i - 1] = x
    BY <1>1, <2>1, <2>2
  <2> QED BY <1>1, <2>2, <2>3 DEF elem_find
<1> QED BY <1>1, <1>2, <1>3, <1>4, <1>5

\* A list in Orders(S) holds exactly the members of S.
LEMMA OrdersMembers ==
  ASSUME NEW S, IsFiniteSet(S), NEW s \in Orders(S)
  PROVE  /\ s \in Seq(S)
         /\ NoDup(s)
         /\ \A x : elem_find(s, x) <=> x \in S
<1>1. PICK n \in Nat : n = Cardinality(S)
  BY FS_CardinalityType
<1>2. s \in [1..n -> S] /\ NoDup(s) /\ \A e \in S : elem_find(s, e)
  BY <1>1 DEF Orders
<1>3. s \in Seq(S)
  <2>1. Seq(S) = UNION {[1..m -> S] : m \in Nat}
    BY SeqDef, Zenon
  <2>2. [1..n -> S] \in {[1..m -> S] : m \in Nat}
    BY <1>1
  <2> QED BY <1>2, <2>1, <2>2, Zenon
<1>4. \A x : elem_find(s, x) => x \in S
  BY <1>3 DEF elem_find
<1> QED BY <1>2, <1>3, <1>4

----------------------------------------------------------------------------
(***************************************************************************)
(* What the scheduler's state satisfies between two steps, and what the    *)
(* caller of schedule() must leave it: everything READY is queued once,    *)
(* and at most the caller is RUNNING.                                      *)
(***************************************************************************)
SchedInv == SchedTypeOK /\ ReadyListExact /\ IdleParked /\ NoPanic

CanSchedule(st, rd) ==
  /\ st \in [All -> Status]
  /\ rd \in Seq(All)
  /\ NoDup(rd)
  /\ \A t \in All : elem_find(rd, t) <=> st[t] = "READY"
  /\ \A t \in All : st[t] = "RUNNING" => t = cur
  /\ st[Idle] \in {"RUNNING", "READY", "BLOCKED"}

\* schedule() passes its ASSERTs, keeps the scheduler's invariant and decides
\* only between RUNNING and READY: a waiting thread other than idle_thread
\* goes on waiting, and idle_thread is woken only when nothing is READY.
LEMMA ScheduleKeepsInv ==
  ASSUME SchedTypeOK, NEW st, NEW rd, CanSchedule(st, rd),
         NEW ok \in BOOLEAN, ok, schedule(st, rd, ok)
  PROVE  /\ SchedInv'
         /\ \A t \in All : status'[t] = st[t] \/ status'[t] \in {"READY", "RUNNING"}
         /\ \A t \in Threads : status'[t] = st[t] \/ st[t] \in {"READY", "RUNNING"}
         /\ st[Idle] = "BLOCKED" /\ status'[Idle] # "BLOCKED"
              => \A t \in Threads : status'[t] # "READY"
<1> USE SchedAssumption
<1> DEFINE expired == st[cur] = "RUNNING"
           rd1  == IF expired THEN list_append(rd, cur) ELSE rd
           st1  == IF expired THEN [st EXCEPT ![cur] = "READY"] ELSE st
           rd2  == IF rd1 = <<>> THEN list_push(rd1, Idle) ELSE rd1
           next == Head(rd2)
<1>1. /\ panic' = ~ /\ ok
                    /\ expired => ~elem_find(rd, cur)
                    /\ rd1 = <<>> => st1[Idle] \in Blocked
      /\ ticks' = IF expired THEN [ticks EXCEPT ![cur] = Prio[cur]] ELSE ticks
      /\ status' = [st1 EXCEPT ![next] = "RUNNING"]
      /\ ready' = Tail(rd2)
      /\ cur' = next
  BY DEF schedule
<1>2. cur \in All /\ Idle \in All
  BY DEF SchedTypeOK, All
<1>3. /\ st1 \in [All -> Status]
      /\ \A t \in All : st1[t] # "RUNNING"
      /\ \A t \in All : st1[t] = "READY" <=> st[t] = "READY" \/ (expired /\ t = cur)
      /\ \A t \in All : st1[t] = st[t] \/ st[t] = "RUNNING"
      /\ \A t \in All : st1[t] = st[t] \/ st1[t] = "READY"
      /\ st1[Idle] \in {"READY", "BLOCKED"}
  BY <1>2 DEF CanSchedule, Status
<1>4. expired => ~elem_find(rd, cur)
  BY <1>2 DEF CanSchedule
<1>5. /\ rd1 \in Seq(All)
      /\ NoDup(rd1)
      /\ \A t \in All : elem_find(rd1, t) <=> st1[t] = "READY"
  <2>1. CASE expired
    <3>1. /\ list_append(rd, cur) \in Seq(All)
          /\ \A x : elem_find(list_append(rd, cur), x) <=> elem_find(rd, x) \/ x = cur
          /\ NoDup(list_append(rd, cur))
      BY <1>2, <1>4, <2>1, AppendMembers DEF CanSchedule
    <3> QED BY <2>1, <3>1, <1>3 DEF CanSchedule
  <2>2. CASE ~expired
    BY <2>2, <1>3 DEF CanSchedule
  <2> QED BY <2>1, <2>2
<1> HIDE DEF st1, rd1
<1>6. rd1 = <<>> => st1[Idle] \in Blocked
  <2>1. rd1 = <<>> => ~elem_find(rd1, Idle)
    BY DEF elem_find
  <2> QED BY <2>1, <1>2, <1>3, <1>5 DEF Blocked
<1>7. /\ rd2 \in Seq(All)
      /\ rd2 # <<>>
      /\ NoDup(rd2)
      /\ \A t \in All : elem_find(rd2, t) <=> st1[t] = "READY" \/ (rd1 = <<>> /\ t = Idle)
  <2>1. CASE rd1 = <<>>
    <3>1. ~elem_find(rd1, Idle)
      BY <2>1 DEF elem_find
    <3>2. /\ list_push(rd1, Idle) \in Seq(All)
          /\ list_push(rd1, Idle) # <<>>
          /\ \A x : elem_find(list_push(rd1, Idle), x) <=> elem_find(rd1, x) \/ x = Idle
          /\ NoDup(list_push(rd1, Idle))
      BY <1>2, <1>5, <3>1, PushMembers
    <3> QED BY <2>1, <3>2, <1>5
  <2>2. CASE rd1 # <<>>
    BY <2>2, <1>5
  <2> QED BY <2>1, <2>2
<1> HIDE DEF rd2
<1>8. /\ next \in All
      /\ elem_find(rd2, next)
      /\ Tail(rd2) \in Seq(All)
      /\ NoDup(Tail(rd2))
      /\ \A x : elem_find(Tail(rd2), x) <=> elem_find(rd2, x) /\ x # next
  BY <1>7, PopMembers
<1> HIDE DEF next
<1>9. \A t \in Threads : status'[t] = st[t] \/ st[t] \in {"READY", "RUNNING"}
  <2> SUFFICES ASSUME NEW t \in Threads, status'[t] # st[t]
               PROVE  st[t] \in {"READY", "RUNNING"}
    OBVIOUS
  <2>1. t \in All /\ t # Idle
    BY DEF All
  <2>2. CASE t = next
    BY <2>1, <2>2, <1>3, <1>7, <1>8
  <2>3. CASE t # next
    BY <2>1, <2>3, <1>1, <1>3
  <2> QED BY <2>2, <2>3
<1>10. \A t \in All : status'[t] = st[t] \/ status'[t] \in {"READY", "RUNNING"}
  BY <1>1, <1>3, <1>8
<1>11. SchedTypeOK'
  <2>1. status' \in [All -> Status]
    BY <1>1, <1>3, <1>8 DEF Status
  <2>2. ticks' \in [All -> Nat]
    BY <1>1, <1>2 DEF SchedTypeOK
  <2>3. panic' \in BOOLEAN
    BY <1>1, Zenon
  <2> QED BY <2>1, <2>2, <2>3, <1>1, <1>8 DEF SchedTypeOK
<1>12. ReadyListExact'
  <2>1. \A t \in All : status'[t] = "RUNNING" <=> t = cur'
    BY <1>1, <1>3, <1>8
  <2>2. \A t \in All : elem_find(ready', t) <=> status'[t] = "READY"
    <3> SUFFICES ASSUME NEW t \in All
                 PROVE  elem_find(ready', t) <=> status'[t] = "READY"
      OBVIOUS
    <3>1. CASE t = next
      BY <3>1, <1>1, <1>3, <1>8
    <3>2. CASE t # next
      <4>1. status'[t] = st1[t]
        BY <3>2, <1>1, <1>3
      <4>2. ASSUME rd1 = <<>> PROVE next = Idle
        <5>1. ~elem_find(rd1, next)
          BY <4>2 DEF elem_find
        <5> QED BY <5>1, <1>5, <1>7, <1>8
      <4> QED BY <3>2, <4>1, <4>2, <1>1, <1>7, <1>8
    <3> QED BY <3>1, <3>2
  <2> QED BY <2>1, <2>2, <1>1, <1>8 DEF ReadyListExact
<1>13. IdleParked'
  BY <1>2, <1>1, <1>3, <1>8 DEF IdleParked
<1>14. NoPanic'
  BY <1>1, <1>4, <1>6 DEF NoPanic
<1>15. ASSUME st[Idle] = "BLOCKED", status'[Idle] # "BLOCKED"
       PROVE  \A t \in Threads : status'[t] # "READY"
  <2>1. st1[Idle] = "BLOCKED"
    BY <1>2, <1>3, <1>15
  <2>2. next = Idle
    BY <2>1, <1>1, <1>2, <1>3, <1>15
  <2>3. rd1 = <<>>
    BY <2>1, <2>2, <1>2, <1>7, <1>8
  <2>4. \A t \in All : st1[t] # "READY"
    <3>1. \A t \in All : ~elem_find(rd1, t)
      BY <2>3 DEF elem_find
    <3> QED BY <3>1, <1>5
  <2> QED BY <2>4, <1>1, <1>3, <1>8 DEF All
<1> QED BY <1>9, <1>10, <1>11, <1>12, <1>13, <1>14, <1>15 DEF SchedInv

\* thread_block: the caller waits, and no other thread begins or ends to.
LEMMA BlockKeepsInv ==
  ASSUME SchedInv, NEW stat \in Blocked, cur = Idle => stat = "BLOCKED",
         NEW ok \in BOOLEAN, ok, thread_block(stat, ok)
  PROVE  /\ SchedInv'
         /\ cur \in Threads => status'[cur] = stat
         /\ \A t \in Threads \ {cur} : \/ status'[t] = status[t]
                                        \/ {status[t], status'[t]} \subseteq {"READY", "RUNNING"}
         /\ status[Idle] = "BLOCKED" /\ status'[Idle] # "BLOCKED"
              => \A t \in Threads : status'[t] # "READY"
<1> USE SchedAssumption
<1> DEFINE st == [status EXCEPT ![cur] = stat]
<1>1. cur \in All /\ Idle \in All /\ stat \in Status /\ stat \notin {"READY", "RUNNING"}
  BY DEF SchedInv, SchedTypeOK, All, Status, Blocked
<1>2. CanSchedule(st, ready)
  <2>1. st \in [All -> Status] /\ ready \in Seq(All) /\ NoDup(ready)
    BY <1>1 DEF SchedInv, SchedTypeOK, ReadyListExact
  <2>2. \A t \in All : elem_find(ready, t) <=> st[t] = "READY"
    BY <1>1 DEF SchedInv, SchedTypeOK, ReadyListExact
  <2>3. \A t \in All : st[t] = "RUNNING" => t = cur
    BY <1>1 DEF SchedInv, SchedTypeOK, ReadyListExact
  <2>4. st[Idle] \in {"RUNNING", "READY", "BLOCKED"}
    BY <1>1 DEF SchedInv, SchedTypeOK, IdleParked
  <2> QED BY <2>1, <2>2, <2>3, <2>4 DEF CanSchedule
<1>3. schedule(st, ready, ok /\ stat \in Blocked)
  BY DEF thread_block
<1>4. /\ SchedInv'
      /\ \A t \in All : status'[t] = st[t] \/ status'[t] \in {"READY", "RUNNING"}
      /\ \A t \in Threads : status'[t] = st[t] \/ st[t] \in {"READY", "RUNNING"}
      /\ st[Idle] = "BLOCKED" /\ status'[Idle] # "BLOCKED"
           => \A t \in Threads : status'[t] # "READY"
  <2> HIDE DEF st
  <2> QED BY <1>2, <1>3, ScheduleKeepsInv DEF SchedInv
<1> QED BY <1>1, <1>4 DEF SchedInv, SchedTypeOK, All

\* thread_unblock of a waiting thread: it becomes READY, all else stays.
LEMMA UnblockKeepsInv ==
  ASSUME SchedInv, NEW t \in Threads, status[t] \in Blocked,
         NEW ok \in BOOLEAN, ok, thread_unblock(t, ok)
  PROVE  /\ SchedInv'
         /\ status' = [status EXCEPT ![t] = "READY"]
         /\ cur' = cur
<1> USE SchedAssumption
<1>1. t \in All /\ t # Idle /\ status[t] \notin {"READY", "RUNNING"} /\ t # cur
  BY DEF SchedInv, SchedTypeOK, ReadyListExact, All, Blocked
<1>2. ~elem_find(ready, t)
  BY <1>1 DEF SchedInv, ReadyListExact
<1>3. /\ status' = [status EXCEPT ![t] = "READY"]
      /\ ready' = list_push(ready, t)
      /\ cur' = cur /\ ticks' = ticks
      /\ panic' = FALSE
  BY <1>2 DEF thread_unblock
<1>4. /\ list_push(ready, t) \in Seq(All)
      /\ \A x : elem_find(list_push(ready, t), x) <=> elem_find(ready, x) \/ x = t
      /\ NoDup(list_push(ready, t))
  BY <1>1, <1>2, PushMembers DEF SchedInv, SchedTypeOK, ReadyListExact
<1>5. SchedTypeOK'
  BY <1>3, <1>4 DEF SchedInv, SchedTypeOK, Status
<1>6. ReadyListExact'
  BY <1>1, <1>3, <1>4 DEF SchedInv, SchedTypeOK, ReadyListExact
<1>7. IdleParked' /\ NoPanic'
  BY <1>1, <1>3 DEF SchedInv, SchedTypeOK, IdleParked, NoPanic
<1> QED BY <1>3, <1>5, <1>6, <1>7 DEF SchedInv

\* thread_yield only exchanges READY and RUNNING.
LEMMA YieldKeepsInv ==
  ASSUME SchedInv, thread_yield
  PROVE  /\ SchedInv'
         /\ \A t \in Threads : \/ status'[t] = status[t]
                                \/ {status[t], status'[t]} \subseteq {"READY", "RUNNING"}
         /\ status[Idle] = "BLOCKED" /\ status'[Idle] # "BLOCKED"
              => \A t \in Threads : status'[t] # "READY"
<1> USE SchedAssumption
<1> DEFINE st == [status EXCEPT ![cur] = "READY"]
           rd == list_append(ready, cur)
<1>1. cur \in All /\ Idle \in All /\ status[cur] = "RUNNING" /\ ~elem_find(ready, cur)
  BY DEF SchedInv, SchedTypeOK, ReadyListExact, All
<1>2. /\ rd \in Seq(All)
      /\ \A x : elem_find(rd, x) <=> elem_find(ready, x) \/ x = cur
      /\ NoDup(rd)
  BY <1>1, AppendMembers DEF SchedInv, SchedTypeOK, ReadyListExact
<1> HIDE DEF rd
<1>3. CanSchedule(st, rd)
  <2>1. st \in [All -> Status]
    BY <1>1 DEF SchedInv, SchedTypeOK, Status
  <2>2. \A t \in All : elem_find(rd, t) <=> st[t] = "READY"
    BY <1>1, <1>2 DEF SchedInv, SchedTypeOK, ReadyListExact
  <2>3. \A t \in All : st[t] = "RUNNING" => t = cur
    BY <1>1 DEF SchedInv, SchedTypeOK, ReadyListExact
  <2>4. st[Idle] \in {"RUNNING", "READY", "BLOCKED"}
    BY <1>1 DEF SchedInv, SchedTypeOK, IdleParked
  <2> QED BY <2>1, <2>2, <2>3, <2>4, <1>2 DEF CanSchedule
<1>4. schedule(st, rd, ~elem_find(ready, cur))
  BY DEF thread_yield, rd
<1>5. /\ SchedInv'
      /\ \A t \in All : status'[t] = st[t] \/ status'[t] \in {"READY", "RUNNING"}
      /\ \A t \in Threads : status'[t] = st[t] \/ st[t] \in {"READY", "RUNNING"}
      /\ st[Idle] = "BLOCKED" /\ status'[Idle] # "BLOCKED"
           => \A t \in Threads : status'[t] # "READY"
  <2> HIDE DEF st
  <2> QED BY <1>1, <1>3, <1>4, ScheduleKeepsInv DEF SchedInv
<1> QED BY <1>1, <1>5 DEF SchedInv, SchedTypeOK, All

\* intr_timer_handler: a tick, or an expiry that only exchanges READY and
\* RUNNING.
LEMMA TimerKeepsInv ==
  ASSUME SchedInv, intr_timer_handler
  PROVE  /\ SchedInv'
         /\ \A t \in Threads : \/ status'[t] = status[t]
                                \/ {status[t], status'[t]} \subseteq {"READY", "RUNNING"}
         /\ status[Idle] = "BLOCKED" /\ status'[Idle] # "BLOCKED"
              => \A t \in Threads : status'[t] # "READY"
<1> USE SchedAssumption
<1>1. CASE ticks[cur] = 0
  <2>1. CanSchedule(status, ready)
    BY DEF SchedInv, SchedTypeOK, ReadyListExact, IdleParked, CanSchedule
  <2>2. schedule(status, ready, TRUE)
    BY <1>1 DEF intr_timer_handler
  <2>3. /\ SchedInv'
        /\ \A t \in All : status'[t] = status[t] \/ status'[t] \in {"READY", "RUNNING"}
        /\ \A t \in Threads : status'[t] = status[t] \/ status[t] \in {"READY", "RUNNING"}
        /\ status[Idle] = "BLOCKED" /\ status'[Idle] # "BLOCKED"
             => \A t \in Threads : status'[t] # "READY"
    BY <2>1, <2>2, ScheduleKeepsInv DEF SchedInv
  <2> QED BY <2>3 DEF All
<1>2. CASE ticks[cur] # 0
  <2>1. /\ ticks' = [ticks EXCEPT ![cur] = @ - 1]
        /\ UNCHANGED <<status, ready, cur, panic>>
    BY <1>2 DEF intr_timer_handler
  <2>2. ticks' \in [All -> Nat]
    BY <2>1, <1>2 DEF SchedInv, SchedTypeOK
  <2> QED BY <2>1, <2>2 DEF SchedInv, SchedTypeOK, ReadyListExact, IdleParked, NoPanic
<1> QED BY <1>1, <1>2

=============================================================================
