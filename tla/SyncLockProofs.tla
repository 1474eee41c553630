--------------------------- MODULE SyncLockProofs ---------------------------
(***************************************************************************)
(* The safety of thread/sync.c's lock for any number of threads, any time  *)
(* slices and any nesting, and the proof that it implements LockAbs.       *)
(***************************************************************************)
EXTENDS SyncLock, SchedProofs

\* Where a thread that has the unit and holder = t can be.
Inside == {"count", "cs", "release", "acquire"}

\* The unit of the semaphore is given to at most one thread, and value says
\* whether it is.
UnitInv ==
  /\ value \in {0, 1}
  /\ value = 0 <=> \E t \in Threads : Owns(t)
  /\ MutualExclusion

\* holder and holder_repeat_nr at each place of lock_acquire and lock_release.
HolderInv ==
  /\ \A t \in Threads : holder = t => pc[t] \in Inside
  /\ \A t \in Threads : pc[t] \in {"count", "cs", "release"} => holder = t
  /\ \A t \in Threads : pc[t] \in {"take", "count", "up"} => repeat = 0
  /\ \A t \in Threads : pc[t] \in {"cs", "release"} => repeat >= 1
  /\ \A t \in Threads : pc[t] = "acquire" /\ holder = t => repeat >= 1
  /\ \A t \in Threads : pc[t] = "clear" => repeat = 1
  /\ value = 1 => repeat = 0

\* What the client has called and what holder_repeat_nr counts agree.
NestInv ==
  \A t \in Threads :
    /\ pc[t] \in {"out", "clear", "up"} => nest[t] = 0
    /\ pc[t] \in {"down", "blocked", "take", "count"} => nest[t] = 1
    /\ pc[t] = "acquire" => nest[t] = IF holder = t THEN repeat + 1 ELSE 1
    /\ pc[t] = "cs" => nest[t] = repeat
    /\ pc[t] = "release" => nest[t] = repeat - 1

\* NoLostWakeup in terms of value.
WakeupInv ==
  waiters # <<>> =>
    \/ value = 0
    \/ \E t \in Threads : pc[t] = "blocked" /\ status[t] \in {"READY", "RUNNING"}

\* The inductive invariant.
IInv ==
  /\ SchedInv
  /\ TypeOK
  /\ UnitInv
  /\ HolderInv
  /\ NestInv
  /\ WaitersExact
  /\ WakeupInv

\* The initial state satisfies the inductive invariant.
LEMMA InitIInv == Init => IInv
<1> SUFFICES ASSUME Init PROVE IInv
  OBVIOUS
<1> USE SchedAssumption, SyncAssumption
<1>1. cur \in All /\ cur # Idle /\ Idle \in All /\ Threads \subseteq All
  BY DEF Init, All
<1>2. IsFiniteSet(All \ {cur})
  BY FS_AddElement, FS_RemoveElement DEF All
<1>3. /\ ready \in Seq(All)
      /\ NoDup(ready)
      /\ \A t \in All : elem_find(ready, t) <=> t # cur
  <2>1. /\ ready \in Seq(All \ {cur})
        /\ NoDup(ready)
        /\ \A x : elem_find(ready, x) <=> x \in All \ {cur}
    BY <1>2, OrdersMembers DEF Init
  <2> QED BY <2>1
<1>4. status \in [All -> Status] /\ \A t \in All : status[t] = IF t = cur THEN "RUNNING" ELSE "READY"
  BY <1>1 DEF Init, Status
<1>5. SchedTypeOK
  BY <1>1, <1>3, <1>4 DEF Init, SchedTypeOK
<1>6. SchedInv
  BY <1>1, <1>3, <1>4, <1>5 DEF Init, SchedInv, ReadyListExact, IdleParked, NoPanic
<1>7. pc \in [Threads -> PC] /\ \A t \in Threads : pc[t] = "out"
  BY DEF Init, PC
<1>8. TypeOK
  BY <1>5, <1>7 DEF Init, TypeOK
<1>9. \A t \in Threads : ~Owns(t)
  BY <1>7 DEF Owns
<1>10. UnitInv
  BY <1>9 DEF Init, UnitInv, MutualExclusion
<1>11. HolderInv /\ NestInv
  BY <1>7, <1>1 DEF Init, HolderInv, NestInv
<1>12. waiters = <<>> /\ \A t : ~elem_find(waiters, t)
  BY DEF Init, elem_find
<1>13. WaitersExact
  BY <1>12, <1>4, <1>1 DEF WaitersExact, NoDup, Blocked
<1>14. WakeupInv
  BY <1>12 DEF WakeupInv
<1> QED BY <1>6, <1>8, <1>10, <1>11, <1>13, <1>14 DEF IInv

----------------------------------------------------------------------------
\* A step of the running thread outside sema_down's wait that leaves the
\* scheduler and the queue alone, and does not give the unit back.
LEMMA QuietStep ==
  ASSUME IInv, NEW t \in Threads, cur = t, pc[t] # "blocked",
         NEW l \in PC \ {"blocked"}, goto(t, l),
         UNCHANGED <<status, ready, cur, ticks, waiters>>, panic' = FALSE,
         value' = value \/ value' = 0
  PROVE  SchedInv' /\ WaitersExact' /\ WakeupInv' /\ pc' \in [Threads -> PC]
<1> USE SchedAssumption, SyncAssumption
<1>1. SchedInv'
  BY DEF IInv, SchedInv, SchedTypeOK, ReadyListExact, IdleParked, NoPanic
<1>2. pc' = [pc EXCEPT ![t] = l] /\ pc \in [Threads -> PC]
  BY DEF goto, IInv, TypeOK
<1>3. t \in All /\ status[t] = "RUNNING"
  BY DEF IInv, SchedInv, ReadyListExact, All
<1>4. WaitersExact'
  BY <1>2, <1>3 DEF IInv, WaitersExact, Blocked
<1>5. WakeupInv'
  BY <1>2 DEF IInv, WakeupInv
<1> QED BY <1>1, <1>2, <1>4, <1>5

\* Every step preserves the inductive invariant.
LEMMA NextIInv == IInv /\ [Next]_vars => IInv'
<1> SUFFICES ASSUME IInv, [Next]_vars PROVE IInv'
  OBVIOUS
<1> USE SchedAssumption, SyncAssumption
<1>0. /\ SchedInv /\ Threads \subseteq All /\ NULL \notin Threads /\ panic = FALSE
      /\ status[cur] = "RUNNING" /\ pc \in [Threads -> PC]
  BY DEF IInv, SchedInv, SchedTypeOK, ReadyListExact, NoPanic, TypeOK, All
<1>1. ASSUME NEW t \in Threads, CallAcquire(t) PROVE IInv'
  <2>1. /\ cur = t /\ pc[t] \in {"out", "cs"}
        /\ pc' = [pc EXCEPT ![t] = "acquire"]
        /\ nest' = [nest EXCEPT ![t] = @ + 1]
        /\ UNCHANGED <<schedVars, lockVars>>
    BY <1>1 DEF CallAcquire, at, goto
  <2>2. SchedInv' /\ WaitersExact' /\ WakeupInv' /\ pc' \in [Threads -> PC]
    BY <2>1, <1>0, <1>1, QuietStep DEF CallAcquire, schedVars, lockVars, PC
  <2>3. TypeOK'
    BY <2>1, <2>2, <1>0 DEF IInv, SchedInv, TypeOK, NestInv, HolderInv, lockVars
  <2>4. \A u \in Threads : Owns(u)' <=> Owns(u)
    BY <2>1, <1>0 DEF Owns, IInv, HolderInv, Inside, lockVars
  <2>5. UnitInv'
    BY <2>1, <2>4 DEF IInv, UnitInv, MutualExclusion, lockVars
  <2>6. HolderInv'
    BY <2>1, <1>0 DEF IInv, HolderInv, Inside, lockVars
  <2>7. NestInv'
    BY <2>1, <1>0 DEF IInv, TypeOK, HolderInv, NestInv, Inside, lockVars
  <2> QED BY <2>2, <2>3, <2>5, <2>6, <2>7 DEF IInv
<1>2. ASSUME NEW t \in Threads, CallRelease(t) PROVE IInv'
  <2>1. /\ cur = t /\ pc[t] = "cs"
        /\ pc' = [pc EXCEPT ![t] = "release"]
        /\ nest' = [nest EXCEPT ![t] = @ - 1]
        /\ UNCHANGED <<schedVars, lockVars>>
    BY <1>2 DEF CallRelease, at, goto
  <2>2. SchedInv' /\ WaitersExact' /\ WakeupInv' /\ pc' \in [Threads -> PC]
    BY <2>1, <1>0, <1>2, QuietStep DEF CallRelease, schedVars, lockVars, PC
  <2>3. TypeOK'
    BY <2>1, <2>2, <1>0 DEF IInv, SchedInv, TypeOK, NestInv, HolderInv, lockVars
  <2>4. \A u \in Threads : Owns(u)' <=> Owns(u)
    BY <2>1, <1>0 DEF Owns, lockVars
  <2>5. UnitInv'
    BY <2>1, <2>4 DEF IInv, UnitInv, MutualExclusion, lockVars
  <2>6. HolderInv'
    BY <2>1, <1>0 DEF IInv, HolderInv, Inside, lockVars
  <2>7. NestInv'
    BY <2>1, <1>0 DEF IInv, TypeOK, HolderInv, NestInv, Inside, lockVars
  <2> QED BY <2>2, <2>3, <2>5, <2>6, <2>7 DEF IInv
<1>3. ASSUME NEW t \in Threads, lock_acquire(t) PROVE IInv'
  <2>1. /\ cur = t /\ pc[t] = "acquire"
        /\ UNCHANGED <<schedVars, value, waiters, holder, nest>>
    BY <1>3 DEF lock_acquire, at, lockVars
  <2>2. CASE holder # t
    <3>1. pc' = [pc EXCEPT ![t] = "down"] /\ repeat' = repeat
      BY <2>2, <1>3 DEF lock_acquire, goto, lockVars
    <3>2. SchedInv' /\ WaitersExact' /\ WakeupInv' /\ pc' \in [Threads -> PC]
      BY <2>1, <3>1, <1>0, QuietStep DEF goto, schedVars, PC
    <3>3. TypeOK'
      BY <2>1, <3>1, <3>2 DEF IInv, SchedInv, TypeOK
    <3>4. \A u \in Threads : Owns(u)' <=> Owns(u)
      BY <2>1, <2>2, <3>1, <1>0 DEF Owns
    <3>5. UnitInv'
      BY <2>1, <3>4 DEF IInv, UnitInv, MutualExclusion
    <3>6. HolderInv'
      BY <2>1, <2>2, <3>1, <1>0 DEF IInv, HolderInv, Inside
    <3>7. NestInv'
      BY <2>1, <2>2, <3>1, <1>0 DEF IInv, NestInv
    <3> QED BY <3>2, <3>3, <3>5, <3>6, <3>7 DEF IInv
  <2>3. CASE holder = t
    <3>1. pc' = [pc EXCEPT ![t] = "cs"] /\ repeat' = repeat + 1
      BY <2>3, <1>3 DEF lock_acquire, goto
    <3>2. SchedInv' /\ WaitersExact' /\ WakeupInv' /\ pc' \in [Threads -> PC]
      BY <2>1, <3>1, <1>0, QuietStep DEF goto, schedVars, PC
    <3>3. TypeOK'
      BY <2>1, <3>1, <3>2 DEF IInv, SchedInv, TypeOK
    <3>4. \A u \in Threads : Owns(u)' <=> Owns(u)
      BY <2>1, <2>3, <3>1, <1>0 DEF Owns
    <3>5. UnitInv'
      BY <2>1, <3>4 DEF IInv, UnitInv, MutualExclusion
    <3>6. \A u \in Threads \ {t} : ~Owns(u)
      BY <2>1, <2>3 DEF IInv, UnitInv, MutualExclusion, Owns
    <3>7. value = 0
      BY <2>1, <2>3 DEF IInv, UnitInv, Owns
    <3>8. HolderInv'
      BY <2>1, <2>3, <3>1, <3>6, <3>7, <1>0 DEF IInv, TypeOK, HolderInv, Inside, Owns
    <3>9. NestInv'
      BY <2>1, <2>3, <3>1, <3>6, <1>0 DEF IInv, NestInv, Owns
    <3> QED BY <3>2, <3>3, <3>5, <3>8, <3>9 DEF IInv
  <2> QED BY <2>2, <2>3
<1>4. ASSUME NEW t \in Threads, sema_down(t) PROVE IInv'
  <2>1. cur = t /\ pc[t] \in {"down", "blocked"} /\ UNCHANGED <<holder, repeat, nest>>
    BY <1>4 DEF sema_down, at
  <2>2. ~elem_find(waiters, t) /\ ~Owns(t) /\ holder # t
    BY <2>1, <1>0 DEF IInv, WaitersExact, Blocked, Owns, HolderInv, Inside
  <2>3. CASE value = 0
    <3>1. /\ waiters' = list_append(waiters, t)
          /\ thread_block("BLOCKED", ~elem_find(waiters, t))
          /\ pc' = [pc EXCEPT ![t] = "blocked"]
          /\ value' = value
      BY <2>3, <1>4 DEF sema_down, goto
    <3>2. /\ SchedInv'
          /\ status'[t] = "BLOCKED"
          /\ \A u \in Threads \ {t} :
               \/ status'[u] = status[u]
               \/ {status[u], status'[u]} \subseteq {"READY", "RUNNING"}
      BY <2>1, <2>2, <3>1, <1>0, BlockKeepsInv DEF Blocked
    <3>3. /\ list_append(waiters, t) \in Seq(Threads)
          /\ \A x : elem_find(list_append(waiters, t), x) <=> elem_find(waiters, x) \/ x = t
          /\ NoDup(list_append(waiters, t))
      BY <2>2, AppendMembers DEF IInv, TypeOK, WaitersExact
    <3>4. TypeOK'
      BY <2>1, <3>1, <3>2, <3>3, <1>0 DEF IInv, SchedInv, TypeOK, PC
    <3>5. \A u \in Threads : Owns(u)' <=> Owns(u)
      BY <2>1, <3>1, <1>0 DEF Owns
    <3>6. UnitInv'
      BY <2>1, <3>1, <3>5 DEF IInv, UnitInv, MutualExclusion
    <3>7. HolderInv'
      BY <2>1, <2>2, <3>1, <1>0 DEF IInv, HolderInv, Inside
    <3>8. WaitersExact'
      BY <3>1, <3>2, <3>3, <1>0 DEF IInv, WaitersExact, Blocked
    <3>9. WakeupInv'
      BY <2>3, <3>1 DEF WakeupInv
    <3>10. NestInv'
      BY <2>1, <3>1, <1>0 DEF IInv, NestInv
    <3> QED BY <3>2, <3>4, <3>6, <3>7, <3>8, <3>9, <3>10 DEF IInv
  <2>4. CASE value # 0
    <3>1. value = 1 /\ \A u \in Threads : ~Owns(u)
      BY <2>4 DEF IInv, UnitInv
    <3>2. /\ value' = 0 /\ panic' = FALSE
          /\ pc' = [pc EXCEPT ![t] = "take"]
          /\ UNCHANGED <<waiters, status, ready, cur, ticks>>
      <4>1. /\ value' = value - 1 /\ panic' = (value' # 0)
            /\ pc' = [pc EXCEPT ![t] = "take"]
            /\ UNCHANGED <<waiters, status, ready, cur, ticks>>
        BY <2>4, <1>4 DEF sema_down, goto
      <4>2. value' = 0
        BY <3>1, <4>1
      <4> QED BY <4>1, <4>2
    <3>3. SchedInv'
      BY <1>0, <3>2 DEF SchedInv, SchedTypeOK, ReadyListExact, IdleParked, NoPanic
    <3>4. TypeOK'
      BY <2>1, <3>2, <3>3, <1>0 DEF IInv, SchedInv, TypeOK, PC
    <3>5. \A u \in Threads : Owns(u)' <=> u = t
      BY <2>1, <3>1, <3>2, <1>0 DEF Owns
    <3>6. UnitInv'
      BY <3>2, <3>5 DEF UnitInv, MutualExclusion
    <3>7. HolderInv'
      BY <2>1, <2>2, <3>1, <3>2, <1>0 DEF IInv, HolderInv, Inside
    <3>8. WaitersExact'
      BY <2>2, <3>2, <1>0 DEF IInv, WaitersExact, Blocked
    <3>9. WakeupInv'
      BY <3>2 DEF WakeupInv
    <3>10. NestInv'
      BY <2>1, <3>2, <1>0 DEF IInv, NestInv
    <3> QED BY <3>3, <3>4, <3>6, <3>7, <3>8, <3>9, <3>10 DEF IInv
  <2> QED BY <2>3, <2>4
<1>5. ASSUME NEW t \in Threads, lock_acquire_holder(t) PROVE IInv'
  <2>1. /\ cur = t /\ pc[t] = "take" /\ holder' = t
        /\ pc' = [pc EXCEPT ![t] = "count"]
        /\ UNCHANGED <<schedVars, value, waiters, repeat, nest>>
    BY <1>5 DEF lock_acquire_holder, at, goto
  <2>2. SchedInv' /\ WaitersExact' /\ WakeupInv' /\ pc' \in [Threads -> PC]
    BY <2>1, <1>0, QuietStep DEF goto, schedVars, PC
  <2>3. TypeOK'
    BY <2>1, <2>2 DEF IInv, SchedInv, TypeOK
  <2>4. Owns(t) /\ \A u \in Threads \ {t} : ~Owns(u)
    BY <2>1 DEF IInv, UnitInv, MutualExclusion, Owns
  <2>5. \A u \in Threads : Owns(u)' <=> Owns(u)
    BY <2>1, <2>4, <1>0 DEF Owns
  <2>6. UnitInv'
    BY <2>1, <2>5 DEF IInv, UnitInv, MutualExclusion
  <2>7. HolderInv'
    BY <2>1, <2>4, <1>0 DEF IInv, HolderInv, Inside, Owns
  <2>8. NestInv'
    BY <2>1, <2>4, <1>0 DEF IInv, NestInv, HolderInv, Inside, Owns
  <2> QED BY <2>2, <2>3, <2>6, <2>7, <2>8 DEF IInv
<1>6. ASSUME NEW t \in Threads, lock_acquire_repeat(t) PROVE IInv'
  <2>1. /\ cur = t /\ pc[t] = "count" /\ holder = t /\ repeat' = 1
        /\ pc' = [pc EXCEPT ![t] = "cs"]
        /\ panic' = FALSE
        /\ UNCHANGED <<status, ready, cur, ticks, value, waiters, holder, nest>>
    BY <1>6 DEF lock_acquire_repeat, at, goto, IInv, HolderInv
  <2>2. SchedInv' /\ WaitersExact' /\ WakeupInv' /\ pc' \in [Threads -> PC]
    BY <2>1, <1>0, QuietStep DEF goto, PC
  <2>3. TypeOK'
    BY <2>1, <2>2 DEF IInv, SchedInv, TypeOK
  <2>4. Owns(t) /\ \A u \in Threads \ {t} : ~Owns(u)
    BY <2>1 DEF IInv, UnitInv, MutualExclusion, Owns
  <2>5. \A u \in Threads : Owns(u)' <=> Owns(u)
    BY <2>1, <2>4, <1>0 DEF Owns
  <2>6. UnitInv'
    BY <2>1, <2>5 DEF IInv, UnitInv, MutualExclusion
  <2>7. value = 0
    BY <2>4 DEF IInv, UnitInv
  <2>8. HolderInv'
    BY <2>1, <2>4, <2>7, <1>0 DEF IInv, HolderInv, Inside, Owns
  <2>9. NestInv'
    BY <2>1, <2>4, <1>0 DEF IInv, NestInv, Owns
  <2> QED BY <2>2, <2>3, <2>6, <2>8, <2>9 DEF IInv
<1>7. ASSUME NEW t \in Threads, lock_release(t) PROVE IInv'
  <2>1. /\ cur = t /\ pc[t] = "release" /\ holder = t /\ repeat \in Nat /\ repeat >= 1
        /\ panic' = FALSE /\ nest[t] = repeat - 1
        /\ UNCHANGED <<status, ready, cur, ticks, value, waiters, nest>>
    BY <1>7 DEF lock_release, at, IInv, HolderInv, NestInv, TypeOK
  <2>2. Owns(t) /\ \A u \in Threads \ {t} : ~Owns(u)
    BY <2>1 DEF IInv, UnitInv, MutualExclusion, Owns
  <2>3. value = 0
    BY <2>2 DEF IInv, UnitInv
  <2>4. CASE repeat > 1
    <3>1. pc' = [pc EXCEPT ![t] = "cs"] /\ repeat' = repeat - 1 /\ holder' = holder
      BY <2>1, <2>4, <1>7 DEF lock_release, Return, goto
    <3>2. SchedInv' /\ WaitersExact' /\ WakeupInv' /\ pc' \in [Threads -> PC]
      BY <2>1, <3>1, <1>0, QuietStep DEF goto, PC
    <3>3. TypeOK'
      BY <2>1, <3>1, <3>2 DEF IInv, SchedInv, TypeOK
    <3>4. \A u \in Threads : Owns(u)' <=> Owns(u)
      BY <2>1, <3>1, <1>0 DEF Owns
    <3>5. UnitInv'
      BY <2>1, <3>4 DEF IInv, UnitInv, MutualExclusion
    <3>6. repeat' >= 1
      BY <2>1, <2>4, <3>1
    <3>7. HolderInv'
      BY <2>1, <2>2, <2>3, <3>1, <3>6, <1>0 DEF IInv, HolderInv, Inside, Owns
    <3>8. NestInv'
      BY <2>1, <2>2, <3>1, <1>0 DEF IInv, NestInv, Owns
    <3> QED BY <3>2, <3>3, <3>5, <3>7, <3>8 DEF IInv
  <2>5. CASE ~(repeat > 1)
    <3>1. pc' = [pc EXCEPT ![t] = "clear"] /\ repeat' = 1 /\ holder' = NULL
      BY <2>1, <2>5, <1>7 DEF lock_release, goto
    <3>2. SchedInv' /\ WaitersExact' /\ WakeupInv' /\ pc' \in [Threads -> PC]
      BY <2>1, <3>1, <1>0, QuietStep DEF goto, PC
    <3>3. TypeOK'
      BY <2>1, <3>1, <3>2 DEF IInv, SchedInv, TypeOK
    <3>4. \A u \in Threads : Owns(u)' <=> Owns(u)
      BY <2>1, <2>2, <3>1, <1>0 DEF Owns
    <3>5. UnitInv'
      BY <2>1, <3>4 DEF IInv, UnitInv, MutualExclusion
    <3>6. HolderInv'
      BY <2>1, <2>2, <2>3, <3>1, <1>0 DEF IInv, HolderInv, Inside, Owns
    <3>7. NestInv'
      BY <2>1, <2>2, <2>5, <3>1, <1>0 DEF IInv, NestInv, HolderInv, Owns
    <3> QED BY <3>2, <3>3, <3>5, <3>6, <3>7 DEF IInv
  <2> QED BY <2>4, <2>5
<1>8. ASSUME NEW t \in Threads, lock_release_repeat(t) PROVE IInv'
  <2>1. /\ cur = t /\ pc[t] = "clear" /\ repeat' = 0
        /\ pc' = [pc EXCEPT ![t] = "up"]
        /\ UNCHANGED <<schedVars, value, waiters, holder, nest>>
    BY <1>8 DEF lock_release_repeat, at, goto
  <2>2. SchedInv' /\ WaitersExact' /\ WakeupInv' /\ pc' \in [Threads -> PC]
    BY <2>1, <1>0, QuietStep DEF goto, schedVars, PC
  <2>3. TypeOK'
    BY <2>1, <2>2 DEF IInv, SchedInv, TypeOK
  <2>4. Owns(t) /\ \A u \in Threads \ {t} : ~Owns(u)
    BY <2>1 DEF IInv, UnitInv, MutualExclusion, Owns
  <2>5. \A u \in Threads : Owns(u)' <=> Owns(u)
    BY <2>1, <2>4, <1>0 DEF Owns
  <2>6. UnitInv'
    BY <2>1, <2>5 DEF IInv, UnitInv, MutualExclusion
  <2>7. HolderInv'
    BY <2>1, <2>4, <1>0 DEF IInv, HolderInv, Inside, Owns
  <2>8. NestInv'
    BY <2>1, <2>4, <1>0 DEF IInv, NestInv, HolderInv, Inside, Owns
  <2> QED BY <2>2, <2>3, <2>6, <2>7, <2>8 DEF IInv
<1>9. ASSUME NEW t \in Threads, sema_up(t) PROVE IInv'
  <2>1. /\ cur = t /\ pc[t] = "up"
        /\ pc' = [pc EXCEPT ![t] = "out"]
        /\ UNCHANGED <<holder, repeat, nest>>
    BY <1>9 DEF sema_up, at, Return, goto, IInv, NestInv
  <2>2. /\ Owns(t) /\ \A u \in Threads \ {t} : ~Owns(u)
        /\ repeat = 0 /\ holder # t
    BY <2>1 DEF IInv, UnitInv, MutualExclusion, Owns, HolderInv, Inside
  <2>3. value = 0 /\ value' = 1
    BY <2>2, <1>9 DEF IInv, UnitInv, sema_up
  <2>4. \A u \in Threads : ~Owns(u)'
    BY <2>1, <2>2, <1>0 DEF Owns
  <2>5. UnitInv'
    BY <2>3, <2>4 DEF UnitInv, MutualExclusion
  <2>6. HolderInv'
    BY <2>1, <2>2, <1>0 DEF IInv, HolderInv, Inside
  <2>7. pc' \in [Threads -> PC] /\ NestInv'
    BY <2>1, <1>0 DEF PC, IInv, NestInv
  <2>8. CASE waiters # <<>>
    <3> DEFINE w == Head(waiters)
    <3>1. /\ thread_unblock(w, value = 0 /\ value' = 1)
          /\ waiters' = Tail(waiters)
      BY <2>8, <1>9 DEF sema_up
    <3>2. /\ w \in Threads
          /\ elem_find(waiters, w)
          /\ Tail(waiters) \in Seq(Threads)
          /\ NoDup(Tail(waiters))
          /\ \A x : elem_find(Tail(waiters), x) <=> elem_find(waiters, x) /\ x # w
      BY <2>8, PopMembers DEF IInv, TypeOK, WaitersExact
    <3>3. status[w] \in Blocked /\ pc[w] = "blocked" /\ w # t
      BY <2>1, <3>2 DEF IInv, WaitersExact
    <3> HIDE DEF w
    <3>4. SchedInv' /\ status' = [status EXCEPT ![w] = "READY"]
      BY <2>3, <3>1, <3>2, <3>3, <1>0, UnblockKeepsInv
    <3>5. TypeOK'
      BY <2>1, <2>3, <2>7, <3>1, <3>2, <3>4 DEF IInv, SchedInv, TypeOK
    <3>6. status \in [All -> Status] /\ w \in All
      BY <3>2, <1>0 DEF SchedInv, SchedTypeOK
    <3>7. \A u \in Threads : status'[u] = IF u = w THEN "READY" ELSE status[u]
      BY <3>4, <3>6, <1>0
    <3>8. \A u \in Threads : pc[u] = "blocked" => pc'[u] = "blocked"
      BY <2>1, <1>0
    <3>9. WaitersExact'
      BY <3>1, <3>2, <3>7, <3>8 DEF IInv, WaitersExact, Blocked
    <3>10. WakeupInv'
      BY <3>2, <3>3, <3>7, <3>8 DEF WakeupInv
    <3> QED BY <3>4, <3>5, <3>9, <3>10, <2>5, <2>6, <2>7 DEF IInv
  <2>9. CASE waiters = <<>>
    <3>1. panic' = FALSE /\ UNCHANGED <<waiters, status, ready, cur, ticks>>
      BY <2>3, <2>9, <1>9 DEF sema_up
    <3>2. SchedInv'
      BY <1>0, <3>1 DEF SchedInv, SchedTypeOK, ReadyListExact, IdleParked, NoPanic
    <3>3. TypeOK'
      BY <2>1, <2>3, <2>7, <3>1, <3>2 DEF IInv, SchedInv, TypeOK
    <3>4. WaitersExact'
      BY <2>1, <3>1, <1>0 DEF IInv, WaitersExact
    <3>5. WakeupInv'
      BY <2>9, <3>1 DEF WakeupInv
    <3> QED BY <3>2, <3>3, <3>4, <3>5, <2>5, <2>6, <2>7 DEF IInv
  <2> QED BY <2>8, <2>9
<1>10. ASSUME idle \/ Timer PROVE IInv'
  <2>1. UNCHANGED <<value, waiters, holder, repeat, nest, pc>>
    BY <1>10 DEF idle, Timer, lockVars
  <2>2. /\ SchedInv'
        /\ \A u \in Threads : \/ status'[u] = status[u]
                              \/ {status[u], status'[u]} \subseteq {"READY", "RUNNING"}
    <3>1. CASE idle
      BY <3>1, <1>0, BlockKeepsInv DEF idle, Blocked
    <3>2. CASE Timer
      BY <3>2, <1>0, TimerKeepsInv DEF Timer
    <3> QED BY <1>10, <3>1, <3>2
  <2>3. TypeOK'
    BY <2>1, <2>2 DEF IInv, SchedInv, TypeOK
  <2>4. UnitInv' /\ HolderInv' /\ NestInv'
    BY <2>1 DEF IInv, UnitInv, MutualExclusion, Owns, HolderInv, NestInv
  <2>5. WaitersExact'
    BY <2>1, <2>2 DEF IInv, WaitersExact, Blocked
  <2>6. WakeupInv'
    BY <2>1, <2>2 DEF IInv, WakeupInv
  <2> QED BY <2>2, <2>3, <2>4, <2>5, <2>6 DEF IInv
<1>11. CASE UNCHANGED vars
  BY <1>11 DEF vars, IInv, SchedInv, SchedTypeOK, ReadyListExact, IdleParked, NoPanic,
     TypeOK, UnitInv, MutualExclusion, Owns, HolderInv, NestInv, WaitersExact, WakeupInv
<1> QED
  BY <1>1, <1>2, <1>3, <1>4, <1>5, <1>6, <1>7, <1>8, <1>9, <1>10, <1>11 DEF Next, Run

\* The inductive invariant holds in every reachable state.
LEMMA SpecIInv == Spec => []IInv
BY InitIInv, NextIInv, PTL DEF Spec

\* Every variable of the lock and the scheduler keeps its type.
THEOREM LockTypeCorrect == Spec => []TypeOK
<1>1. IInv => TypeOK
  BY DEF IInv
<1> QED BY SpecIInv, <1>1, PTL

\* At most one thread has the lock, wherever in lock_acquire and lock_release
\* the timer preempts the others.
THEOREM LockMutualExclusion == Spec => []MutualExclusion
<1>1. IInv => MutualExclusion
  BY DEF IInv, UnitInv
<1> QED BY SpecIInv, <1>1, PTL

\* The semaphore's queue holds exactly the blocked threads, each once.
THEOREM LockWaitersExact == Spec => []WaitersExact
<1>1. IInv => WaitersExact
  BY DEF IInv
<1> QED BY SpecIInv, <1>1, PTL

\* sema_up never leaves a waiter asleep that nobody is going to wake.
THEOREM LockNoLostWakeup == Spec => []NoLostWakeup
<1>1. IInv => NoLostWakeup
  BY DEF IInv, UnitInv, WakeupInv, NoLostWakeup
<1> QED BY SpecIInv, <1>1, PTL

\* The ready list stays exact and no ASSERT of sync.c or thread.c fails.
THEOREM LockNeverPanics == Spec => [](ReadyListExact /\ IdleParked /\ NoPanic)
<1>1. IInv => ReadyListExact /\ IdleParked /\ NoPanic
  BY DEF IInv, SchedInv
<1> QED BY SpecIInv, <1>1, PTL

----------------------------------------------------------------------------
(***************************************************************************)
(* The refinement: the unit's owner is the abstract owner.                 *)
(***************************************************************************)

\* The abstract owner and depth, when t has the unit and when nobody has.
AbsFacts ==
  /\ \A t \in Threads : Owns(t) <=> AbsOwner = t
  /\ (\A t \in Threads : ~Owns(t)) <=> AbsOwner = NULL
  /\ \A t \in Threads :
       Owns(t) => AbsDepth = IF pc[t] \in {"take", "count", "clear", "up"}
                             THEN 1 ELSE repeat
  /\ AbsOwner = NULL => AbsDepth = 0

\* What the inductive invariant says about the abstract lock.
LEMMA AbsOf == IInv => AbsFacts
<1> SUFFICES ASSUME IInv PROVE AbsFacts
  OBVIOUS
<1> USE SyncAssumption
<1>1. NULL \notin Threads /\ MutualExclusion
  BY DEF IInv, UnitInv, All
<1>2. ASSUME NEW t \in Threads, Owns(t) PROVE AbsOwner = t
  BY <1>1, <1>2 DEF AbsOwner, MutualExclusion
<1>3. ASSUME \A t \in Threads : ~Owns(t) PROVE AbsOwner = NULL
  BY <1>3 DEF AbsOwner
<1>4. ASSUME NEW t \in Threads, Owns(t)
      PROVE  AbsDepth = IF pc[t] \in {"take", "count", "clear", "up"} THEN 1 ELSE repeat
  <2>1. \A u \in Threads : pc[u] \in {"take", "count", "clear", "up"} => u = t
    BY <1>1, <1>4 DEF MutualExclusion, Owns
  <2> QED BY <2>1 DEF AbsDepth
<1>5. ASSUME \A t \in Threads : ~Owns(t) PROVE AbsDepth = 0
  <2>1. value = 1 /\ repeat = 0
    BY <1>5 DEF IInv, UnitInv, HolderInv
  <2> QED BY <1>5, <2>1 DEF AbsDepth, Owns
<1> QED BY <1>1, <1>2, <1>3, <1>4, <1>5 DEF AbsFacts

\* The same in the next state.
LEMMA AbsOfNext == IInv' => AbsFacts'
BY AbsOf, PTL

\* A step that moves no unit, of a thread without it: nothing to see but want.
LEMMA SameOwner ==
  ASSUME IInv, IInv', \A u \in Threads : Owns(u)' <=> Owns(u)
  PROVE  /\ AbsOwner' = AbsOwner
         /\ (\A u \in Threads : Owns(u) => pc'[u] = pc[u]) /\ repeat' = repeat
              => AbsDepth' = AbsDepth
<1>1. AbsFacts /\ AbsFacts'
  BY AbsOf, AbsOfNext
<1>2. CASE \E u \in Threads : Owns(u)
  <2>1. PICK u \in Threads : Owns(u)
    BY <1>2
  <2> QED BY <1>1, <2>1 DEF AbsFacts
<1>3. CASE \A u \in Threads : ~Owns(u)
  BY <1>1, <1>3 DEF AbsFacts
<1> QED BY <1>2, <1>3

\* Every step of sync.c is a step of the abstract lock, or invisible to it.
LEMMA StepRefines ==
  ASSUME IInv, IInv', [Next]_vars
  PROVE  [Abs!Next]_(Abs!vars)
<1> USE SchedAssumption, SyncAssumption
<1>0. /\ AbsFacts /\ AbsFacts' /\ NULL \notin Threads /\ pc \in [Threads -> PC]
      /\ repeat \in Nat /\ HolderInv /\ UnitInv
  BY AbsOf, AbsOfNext DEF IInv, TypeOK, All
<1> DEFINE Stutter == AbsOwner' = AbsOwner /\ AbsDepth' = AbsDepth /\ AbsWant' = AbsWant
<1>a. Stutter => [Abs!Next]_(Abs!vars)
  BY DEF Abs!vars
<1> HIDE DEF Stutter
<1>1. ASSUME NEW t \in Threads, CallAcquire(t) \/ CallRelease(t) PROVE Stutter
  <2>1. /\ pc[t] \in {"out", "cs"}
        /\ pc[t] = "out" => pc' = [pc EXCEPT ![t] = "acquire"]
        /\ pc' \in {[pc EXCEPT ![t] = "acquire"], [pc EXCEPT ![t] = "release"]}
        /\ UNCHANGED <<value, waiters, holder, repeat>>
    BY <1>1 DEF CallAcquire, CallRelease, at, goto, lockVars
  <2>2. \A u \in Threads : Owns(u)' <=> Owns(u)
    BY <2>1, <1>0 DEF Owns, HolderInv, Inside
  <2>3. AbsOwner' = AbsOwner /\ AbsWant' = AbsWant
    BY <2>1, <2>2, <1>0, SameOwner DEF AbsWant
  <2>4. AbsDepth' = AbsDepth
    BY <2>1, <1>0 DEF AbsDepth
  <2> QED BY <2>3, <2>4 DEF Stutter
<1>2. ASSUME NEW t \in Threads, lock_acquire(t), holder # t PROVE Abs!Request(t)
  <2>1. /\ pc[t] = "acquire" /\ pc' = [pc EXCEPT ![t] = "down"]
        /\ UNCHANGED <<value, waiters, holder, repeat>>
    BY <1>2 DEF lock_acquire, at, goto, lockVars
  <2>2. ~Owns(t) /\ \A u \in Threads : Owns(u)' <=> Owns(u)
    BY <2>1, <1>2, <1>0 DEF Owns
  <2>3. AbsOwner' = AbsOwner /\ AbsDepth' = AbsDepth
    <3>1. \A u \in Threads : Owns(u) => pc'[u] = pc[u]
      BY <2>1, <2>2, <1>0
    <3> QED BY <2>1, <2>2, <3>1, SameOwner
  <2>4. t \notin AbsWant /\ AbsWant' = AbsWant \cup {t}
    BY <2>1, <1>0 DEF AbsWant
  <2> QED BY <2>2, <2>3, <2>4, <1>0 DEF AbsFacts, Abs!Request
<1>3. ASSUME NEW t \in Threads, lock_acquire(t), holder = t PROVE Abs!Nest(t)
  <2>1. /\ pc[t] = "acquire" /\ pc' = [pc EXCEPT ![t] = "cs"]
        /\ repeat' = repeat + 1 /\ holder' = holder
    BY <1>3 DEF lock_acquire, at, goto
  <2>2. Owns(t) /\ Owns(t)' /\ pc'[t] = "cs"
    BY <2>1, <1>3, <1>0 DEF Owns
  <2>3. AbsOwner = t /\ AbsOwner' = t /\ AbsDepth = repeat /\ AbsDepth' = repeat'
    BY <2>1, <2>2, <1>0 DEF AbsFacts
  <2>4. AbsWant' = AbsWant
    BY <2>1, <1>0 DEF AbsWant
  <2> QED BY <2>1, <2>3, <2>4 DEF Abs!Nest
<1>4. ASSUME NEW t \in Threads, sema_down(t), value = 0 PROVE Stutter
  <2>1. /\ pc[t] \in {"down", "blocked"} /\ pc' = [pc EXCEPT ![t] = "blocked"]
        /\ UNCHANGED <<holder, repeat>>
    BY <1>4 DEF sema_down, at, goto
  <2>2. ~Owns(t) /\ \A u \in Threads : Owns(u)' <=> Owns(u)
    BY <2>1, <1>0 DEF Owns
  <2>3. AbsOwner' = AbsOwner /\ AbsDepth' = AbsDepth
    <3>1. \A u \in Threads : Owns(u) => pc'[u] = pc[u]
      BY <2>1, <2>2, <1>0
    <3> QED BY <2>1, <2>2, <3>1, SameOwner
  <2>4. AbsWant' = AbsWant
    BY <2>1, <1>0 DEF AbsWant
  <2> QED BY <2>3, <2>4 DEF Stutter
<1>5. ASSUME NEW t \in Threads, sema_down(t), value # 0 PROVE Abs!Grant(t)
  <2>1. pc[t] \in {"down", "blocked"} /\ pc' = [pc EXCEPT ![t] = "take"]
    BY <1>5 DEF sema_down, at, goto
  <2>2. (\A u \in Threads : ~Owns(u)) /\ Owns(t)' /\ pc'[t] = "take"
    BY <2>1, <1>5, <1>0 DEF Owns, UnitInv
  <2>3. AbsOwner = NULL /\ AbsOwner' = t /\ AbsDepth' = 1
    BY <2>2, <1>0 DEF AbsFacts
  <2>4. t \in AbsWant /\ AbsWant' = AbsWant \ {t}
    BY <2>1, <1>0 DEF AbsWant
  <2> QED BY <2>3, <2>4 DEF Abs!Grant
<1>6. ASSUME NEW t \in Threads, lock_acquire_holder(t) \/ lock_acquire_repeat(t)
                                 \/ lock_release_repeat(t)
      PROVE  Stutter
  <2>1. /\ pc[t] \in {"take", "count", "clear"} /\ Owns(t)
        /\ pc' \in {[pc EXCEPT ![t] = "count"], [pc EXCEPT ![t] = "cs"], [pc EXCEPT ![t] = "up"]}
        /\ pc'[t] = "cs" => repeat' = 1
    BY <1>6, <1>0 DEF lock_acquire_holder, lock_acquire_repeat, lock_release_repeat,
                      at, goto, Owns
  <2>2. pc'[t] \in {"count", "cs", "up"} /\ Owns(t)'
    BY <2>1, <1>0 DEF Owns
  <2>3. AbsOwner = t /\ AbsOwner' = t /\ AbsDepth = 1 /\ AbsDepth' = 1
    BY <2>1, <2>2, <1>0 DEF AbsFacts
  <2>4. AbsWant' = AbsWant
    BY <2>1, <1>0 DEF AbsWant
  <2> QED BY <2>3, <2>4 DEF Stutter
<1>7. ASSUME NEW t \in Threads, lock_release(t) PROVE Stutter \/ Abs!Unnest(t)
  <2>1. /\ pc[t] = "release" /\ Owns(t) /\ repeat >= 1
        /\ \/ repeat > 1 /\ repeat' = repeat - 1 /\ pc' = [pc EXCEPT ![t] = "cs"]
           \/ repeat = 1 /\ repeat' = repeat /\ pc' = [pc EXCEPT ![t] = "clear"]
    BY <1>7, <1>0 DEF lock_release, at, Return, goto, Owns, HolderInv, IInv, NestInv
  <2>2. /\ Owns(t)'
        /\ AbsOwner = t /\ AbsOwner' = t /\ AbsDepth = repeat
        /\ AbsDepth' = IF pc'[t] = "clear" THEN 1 ELSE repeat'
    BY <2>1, <1>0 DEF Owns, AbsFacts
  <2>3. AbsWant' = AbsWant
    BY <2>1, <1>0 DEF AbsWant
  <2> QED BY <2>1, <2>2, <2>3, <1>0 DEF Stutter, Abs!Unnest
<1>8. ASSUME NEW t \in Threads, sema_up(t) PROVE Abs!Release(t)
  <2>1. /\ pc[t] = "up" /\ pc' = [pc EXCEPT ![t] = "out"]
        /\ UNCHANGED <<holder, repeat>>
    BY <1>8 DEF sema_up, at, Return, goto, IInv, NestInv
  <2>2. Owns(t) /\ \A u \in Threads : ~Owns(u)'
    BY <2>1, <1>0 DEF Owns, UnitInv, MutualExclusion, HolderInv, Inside
  <2>3. AbsOwner = t /\ AbsOwner' = NULL /\ AbsDepth = 1 /\ AbsDepth' = 0
    BY <2>1, <2>2, <1>0 DEF AbsFacts
  <2>4. AbsWant' = AbsWant
    BY <2>1, <1>0 DEF AbsWant
  <2> QED BY <2>3, <2>4 DEF Abs!Release
<1>9. ASSUME idle \/ Timer \/ UNCHANGED vars PROVE Stutter
  <2>1. UNCHANGED <<value, waiters, holder, repeat, pc>>
    BY <1>9 DEF idle, Timer, lockVars, vars
  <2> QED BY <2>1 DEF Stutter, AbsOwner, AbsDepth, AbsWant, Owns
<1> QED
  BY <1>a, <1>1, <1>2, <1>3, <1>4, <1>5, <1>6, <1>7, <1>8, <1>9 DEF Next, Run, Abs!Next

\* lock_acquire and lock_release implement the abstract recursive lock: the
\* preemptible statements around the semaphore are invisible to its users.
THEOREM LockRefinement == Spec => ImplementsLock
<1>1. Init => Abs!Init
  <2> SUFFICES ASSUME Init PROVE Abs!Init
    OBVIOUS
  <2>1. \A t \in Threads : pc[t] = "out" /\ ~Owns(t)
    BY DEF Init, Owns
  <2> QED BY <2>1 DEF Init, Abs!Init, AbsOwner, AbsDepth, AbsWant
<1>2. IInv /\ IInv' /\ [Next]_vars => [Abs!Next]_(Abs!vars)
  BY StepRefines
<1> QED BY <1>1, <1>2, SpecIInv, PTL DEF Spec, ImplementsLock, Abs!Spec

=============================================================================
