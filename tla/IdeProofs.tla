----------------------------- MODULE IdeProofs -----------------------------
(***************************************************************************)
(* One channel of the disk driver for any threads, any time slices and     *)
(* commands of any number of sectors: each thread moves the data of its    *)
(* own command, and the interrupt it sleeps for is not lost.               *)
(***************************************************************************)
EXTENDS Ide, SchedProofs

----------------------------------------------------------------------------
(***************************************************************************)
(* The inductive invariant.                                                *)
(***************************************************************************)
TypeOK ==
  /\ expecting \in BOOLEAN
  /\ value \in {0, 1}
  /\ sleepers \in Seq(Threads)
  /\ dev \in {"idle", "seek", "accept", "drq", "media"}
  /\ owner \in Threads \cup {NULL}
  /\ more \in Nat
  /\ irq \in BOOLEAN
  /\ op \in [Threads -> {"none", "identify", "read", "write"}]
  /\ left \in [Threads -> Nat]
  /\ tick \in [Threads -> BOOLEAN]
  /\ pc \in [Threads -> PC]
  /\ holder \in Threads \cup {NULL}
  /\ waiters \in Seq(Threads)

\* The thread uses the channel.
Active == {"expect", "outb", "down", "redown", "poll", "sleep", "data", "unlock"}

\* Who uses the channel: the holder of its lock or, while nobody else runs,
\* identify_disk.
ChannelInv ==
  /\ \A t \in Threads : holder = t <=> pc[t] \in Active /\ op[t] # "identify"
  /\ \A t \in Threads : pc[t] = "boot" => op[t] = "identify"
  /\ \A t \in Threads : pc[t] \in {"user", "lock", "relock"} => op[t] # "identify"
  /\ \A t \in Threads : op[t] = "identify" =>
       t = Main /\ \A u \in Threads : u # Main => pc[u] = "user"

\* Who waits for the lock and who for the interrupt.
SleepInv ==
  /\ NoDup(waiters) /\ NoDup(sleepers)
  /\ \A t \in Threads : elem_find(waiters, t) => pc[t] = "relock"
  /\ \A t \in Threads : elem_find(sleepers, t) => pc[t] = "redown" /\ value = 0
  /\ \A t \in Threads : status[t] \in Blocked <=> elem_find(waiters, t) \/ elem_find(sleepers, t)

\* From cmd_out to the end of sema_down, which a write calls after it has sent
\* the data, exactly one of two holds: an interrupt is expected, or it has been
\* counted (one of an earlier command, perhaps).  Neither holds otherwise.
Armed(t) == \/ pc[t] \in {"outb", "down", "redown"}
            \/ pc[t] \in {"poll", "sleep", "data"} /\ op[t] = "write"
SemaInv ==
  /\ (\E t \in Threads : Armed(t)) => value = IF expecting THEN 0 ELSE 1
  /\ (\A t \in Threads : ~Armed(t)) => ~expecting /\ value = 0

\* Where the disk is with the command of the thread that uses the channel.  The
\* interrupt that it waits for is still to come.
DiskInv ==
  \A t \in Threads :
    /\ pc[t] \in {"down", "redown", "poll", "sleep", "data"} => owner = t
    /\ pc[t] \in {"down", "redown"} =>
         /\ dev \in IF op[t] = "write" THEN {"media", "idle"} ELSE {"seek", "drq"}
         /\ expecting => Busy \/ irq
    /\ pc[t] \in {"poll", "sleep"} =>
         dev \in IF op[t] = "write" THEN {"accept", "drq"} ELSE {"seek", "drq"}
    /\ pc[t] = "data" => dev = "drq"

IInv == SchedInv /\ TypeOK /\ ChannelInv /\ SleepInv /\ SemaInv /\ DiskInv
----------------------------------------------------------------------------
(***************************************************************************)
(* What the steps have in common.                                          *)
(***************************************************************************)

\* What every step may use of the invariant.
LEMMA IdeFacts ==
  ASSUME IInv
  PROVE  /\ SchedInv /\ Threads \subseteq All /\ NULL \notin Threads /\ panic = FALSE
         /\ status[cur] = "RUNNING" /\ cur \in All
         /\ pc \in [Threads -> PC]
         /\ op \in [Threads -> {"none", "identify", "read", "write"}]
         /\ waiters \in Seq(Threads) /\ sleepers \in Seq(Threads)
         /\ cur \in Threads => ~elem_find(waiters, cur) /\ ~elem_find(sleepers, cur)
<1> USE SchedAssumption, NullAssumption
<1>1. /\ SchedInv /\ Threads \subseteq All /\ NULL \notin Threads /\ panic = FALSE
      /\ status[cur] = "RUNNING" /\ cur \in All
  BY DEF IInv, SchedInv, SchedTypeOK, ReadyListExact, NoPanic, All
<1>2. /\ pc \in [Threads -> PC] /\ waiters \in Seq(Threads) /\ sleepers \in Seq(Threads)
      /\ op \in [Threads -> {"none", "identify", "read", "write"}]
  BY DEF IInv, TypeOK
<1>3. cur \in Threads => ~elem_find(waiters, cur) /\ ~elem_find(sleepers, cur)
  BY <1>1 DEF IInv, SleepInv, Blocked
<1> QED BY <1>1, <1>2, <1>3

\* At most one thread uses the channel.
LEMMA Alone ==
  ASSUME ChannelInv, NEW t \in Threads, NEW u \in Threads,
         pc[t] \in Active, pc[u] \in Active
  PROVE  t = u
<1>1. CASE op[t] = "identify" \/ op[u] = "identify"
  BY <1>1 DEF ChannelInv, Active
<1>2. CASE op[t] # "identify" /\ op[u] # "identify"
  BY <1>2 DEF ChannelInv
<1> QED BY <1>1, <1>2

\* A step that leaves the scheduler alone.
LEMMA SameSched ==
  ASSUME SchedInv, UNCHANGED schedVars
  PROVE  SchedInv'
BY DEF SchedInv, SchedTypeOK, ReadyListExact, IdleParked, NoPanic, schedVars

\* A step of the running thread that leaves the queues alone.
LEMMA QuietThread ==
  ASSUME IInv, NEW t \in Threads, cur = t, NEW l, pc' = [pc EXCEPT ![t] = l],
         UNCHANGED <<status, waiters, sleepers>>,
         value' = value \/ pc[t] \in Active
  PROVE  SleepInv'
<1>1. /\ ~elem_find(waiters, t) /\ ~elem_find(sleepers, t)
      /\ \A u \in Threads : u # t => pc'[u] = pc[u]
  BY IdeFacts
<1>2. pc[t] \in Active => \A u \in Threads : ~elem_find(sleepers, u)
  BY <1>1, Alone DEF IInv, SleepInv, Active
<1> QED BY <1>1, <1>2 DEF IInv, SleepInv

\* A step of the thread that uses the channel, and goes on using it: the others
\* are elsewhere, and only its own place matters.
LEMMA ActiveStep ==
  ASSUME IInv, NEW t \in Threads, pc[t] \in Active, NEW l \in Active,
         pc' = [pc EXCEPT ![t] = l], UNCHANGED <<holder, op>>
  PROVE  /\ ChannelInv' /\ pc' \in [Threads -> PC] /\ pc'[t] = l
         /\ \A u \in Threads : u # t => ~Armed(u) /\ ~Armed(u)' /\ pc'[u] \notin Active
<1>1. /\ pc' \in [Threads -> PC] /\ pc'[t] = l
      /\ \A u \in Threads : u # t => pc'[u] = pc[u]
  BY IdeFacts DEF Active, PC
<1>2. \A u \in Threads : u # t => pc[u] \notin Active
  BY Alone DEF IInv
<1>3. ChannelInv'
  BY <1>1 DEF IInv, ChannelInv, Active
<1>4. \A u \in Threads : u # t => ~Armed(u) /\ ~Armed(u)'
  BY <1>1, <1>2 DEF Armed, Active
<1> QED BY <1>1, <1>2, <1>3, <1>4

\* DiskInv of a thread that does not use the channel says nothing.
LEMMA DiskOfActive ==
  ASSUME NEW t \in Threads, \A u \in Threads : u # t => pc'[u] \notin Active,
         /\ pc'[t] \in {"down", "redown", "poll", "sleep", "data"} => owner' = t
         /\ pc'[t] \in {"down", "redown"} =>
              /\ dev' \in IF op'[t] = "write" THEN {"media", "idle"} ELSE {"seek", "drq"}
              /\ expecting' => Busy' \/ irq'
         /\ pc'[t] \in {"poll", "sleep"} =>
              dev' \in IF op'[t] = "write" THEN {"accept", "drq"} ELSE {"seek", "drq"}
         /\ pc'[t] = "data" => dev' = "drq"
  PROVE  DiskInv'
BY DEF DiskInv, Active

----------------------------------------------------------------------------
(***************************************************************************)
(* The driver, step by step.                                               *)
(***************************************************************************)

\* identify_disk and the call of ide_read or ide_write.
LEMMA BeginKeepsInv ==
  ASSUME IInv, NEW t \in Threads,
         identify_disk(t) \/ \E o \in Ops, n \in 1..MaxCmds : Call(t, o, n)
  PROVE  IInv'
<1> USE IdeFacts
<1>1. CASE identify_disk(t)
  <2>1. /\ cur = t /\ pc[t] = "boot" /\ pc' = [pc EXCEPT ![t] = "expect"]
        /\ UNCHANGED <<schedVars, mutexVars, devVars, ideVars>>
    BY <1>1 DEF identify_disk, at, goto
  <2>2. SchedInv' /\ SleepInv'
    BY <2>1, SameSched, QuietThread DEF schedVars, mutexVars, ideVars
  <2>3. TypeOK'
    BY <2>1 DEF IInv, TypeOK, PC, mutexVars, devVars, ideVars
  <2>4. pc'[t] = "expect" /\ \A u \in Threads : u # t => pc'[u] = pc[u]
    BY <2>1
  <2>5. ChannelInv'
    BY <2>1, <2>4 DEF IInv, ChannelInv, Active, mutexVars, ideVars
  <2>6. \A u \in Threads : Armed(u)' <=> Armed(u)
    BY <2>1, <2>4 DEF Armed, ideVars
  <2>7. SemaInv' /\ DiskInv'
    BY <2>1, <2>4, <2>6 DEF IInv, SemaInv, DiskInv, Busy, devVars, ideVars
  <2> QED BY <2>2, <2>3, <2>5, <2>7 DEF IInv
<1>2. CASE \E o \in Ops, n \in 1..MaxCmds : Call(t, o, n)
  <2>1. PICK o \in Ops, n \in 1..MaxCmds : Call(t, o, n)
    BY <1>2
  <2>2. /\ cur = t /\ pc[t] = "user" /\ t # Main /\ op[Main] # "identify"
        /\ op' = [op EXCEPT ![t] = o] /\ left' = [left EXCEPT ![t] = n]
        /\ pc' = [pc EXCEPT ![t] = "lock"]
        /\ UNCHANGED <<schedVars, mutexVars, devVars, expecting, value, sleepers, tick>>
    BY <2>1 DEF Call, at, goto
  <2>3. SchedInv' /\ SleepInv'
    BY <2>2, SameSched, QuietThread DEF schedVars, mutexVars
  <2>4. o \in {"read", "write"} /\ n \in Nat
    BY IdeAssumption
  <2>5. TypeOK'
    BY <2>2, <2>4 DEF IInv, TypeOK, PC, mutexVars, devVars
  <2>6. pc'[t] = "lock" /\ op'[t] = o
        /\ \A u \in Threads : u # t => pc'[u] = pc[u] /\ op'[u] = op[u]
    BY <2>2
  <2>7. ChannelInv'
    BY <2>2, <2>4, <2>6 DEF IInv, ChannelInv, Active, mutexVars
  <2>8. \A u \in Threads : Armed(u)' <=> Armed(u)
    BY <2>2, <2>6 DEF Armed
  <2>9. SemaInv' /\ DiskInv'
    BY <2>2, <2>6, <2>8 DEF IInv, SemaInv, DiskInv, Busy, devVars
  <2> QED BY <2>3, <2>5, <2>7, <2>9 DEF IInv
<1> QED BY <1>1, <1>2

\* A step that changes nothing of the channel but who waits for it.
LEMMA SameChannel ==
  ASSUME IInv, NEW t \in Threads, NEW l \in {"lock", "relock"}, pc[t] \in {"lock", "relock"},
         pc' = [pc EXCEPT ![t] = l],
         UNCHANGED <<holder, devVars, expecting, value, op>>
  PROVE  ChannelInv' /\ SemaInv' /\ DiskInv'
<1>1. pc'[t] = l /\ \A u \in Threads : u # t => pc'[u] = pc[u]
  BY IdeFacts
<1>2. ChannelInv'
  BY <1>1 DEF IInv, ChannelInv, Active
<1>3. \A u \in Threads : Armed(u)' <=> Armed(u)
  BY <1>1 DEF Armed
<1>4. SemaInv' /\ DiskInv'
  BY <1>1, <1>3 DEF IInv, SemaInv, DiskInv, Busy, devVars
<1> QED BY <1>2, <1>4

\* lock_acquire's wait.
LEMMA WaitForLockKeepsInv ==
  ASSUME IInv, NEW t \in Threads, WaitForLock(t)
  PROVE  IInv'
<1>1. /\ cur = t /\ pc[t] \in {"lock", "relock"} /\ pc' = [pc EXCEPT ![t] = "relock"]
      /\ waiters' = list_append(waiters, t)
      /\ thread_block("BLOCKED", ~elem_find(waiters, t))
      /\ UNCHANGED <<holder, devVars, ideVars>>
  BY DEF WaitForLock, lock_wait, atAny, goto
<1>2. ~elem_find(waiters, t) /\ ~elem_find(sleepers, t)
  BY <1>1, IdeFacts
<1>3. /\ SchedInv'
      /\ status'[t] = "BLOCKED"
      /\ \A u \in Threads \ {t} :
           \/ status'[u] = status[u]
           \/ {status[u], status'[u]} \subseteq {"READY", "RUNNING"}
  BY <1>1, <1>2, IdeFacts, BlockKeepsInv, SchedAssumption DEF Blocked
<1>4. /\ waiters' \in Seq(Threads)
      /\ \A x : elem_find(waiters', x) <=> elem_find(waiters, x) \/ x = t
      /\ NoDup(waiters')
  BY <1>1, <1>2, IdeFacts, AppendMembers DEF IInv, SleepInv
<1>5. pc'[t] = "relock" /\ \A u \in Threads : u # t => pc'[u] = pc[u]
  BY <1>1, IdeFacts
<1>6. SleepInv'
  BY <1>1, <1>2, <1>3, <1>4, <1>5 DEF IInv, SleepInv, Blocked, ideVars
<1>7. TypeOK'
  BY <1>1, <1>4 DEF IInv, TypeOK, PC, devVars, ideVars
<1>8. ChannelInv' /\ SemaInv' /\ DiskInv'
  BY <1>1, SameChannel DEF ideVars
<1> QED BY <1>3, <1>6, <1>7, <1>8 DEF IInv

\* lock_acquire of a free lock: nobody uses the channel.
LEMMA TakeLockKeepsInv ==
  ASSUME IInv, NEW t \in Threads, TakeLock(t)
  PROVE  IInv'
<1>1. /\ cur = t /\ pc[t] \in {"lock", "relock"} /\ pc' = [pc EXCEPT ![t] = "expect"]
      /\ holder = NULL /\ holder' = t
      /\ UNCHANGED <<schedVars, waiters, devVars, ideVars>>
  BY DEF TakeLock, lock_take, atAny, goto
<1>2. SchedInv' /\ SleepInv'
  BY <1>1, IdeFacts, SameSched, QuietThread DEF schedVars, ideVars
<1>3. TypeOK'
  BY <1>1 DEF IInv, TypeOK, PC, devVars, ideVars
<1>4. pc'[t] = "expect" /\ \A u \in Threads : u # t => pc'[u] = pc[u]
  BY <1>1, IdeFacts
<1>5. \A u \in Threads : pc[u] \notin Active
  BY <1>1, IdeFacts DEF IInv, ChannelInv
<1>6. ChannelInv'
  BY <1>1, <1>4, <1>5, IdeFacts DEF IInv, ChannelInv, Active, ideVars
<1>7. \A u \in Threads : ~Armed(u)' /\ ~Armed(u)
  BY <1>4, <1>5 DEF Armed, Active
<1>8. SemaInv'
  BY <1>1, <1>7 DEF IInv, SemaInv, ideVars
<1>9. DiskInv'
  BY <1>4, <1>5 DEF DiskInv, Active
<1> QED BY <1>2, <1>3, <1>6, <1>8, <1>9 DEF IInv

\* cmd_out announces the interrupt.
LEMMA ExpectKeepsInv ==
  ASSUME IInv, NEW t \in Threads, cmd_out_expect(t)
  PROVE  IInv'
<1>1. /\ cur = t /\ pc[t] = "expect" /\ pc' = [pc EXCEPT ![t] = "outb"]
      /\ expecting' = TRUE
      /\ UNCHANGED <<schedVars, mutexVars, devVars, value, sleepers, op, left, tick>>
  BY DEF cmd_out_expect, at, goto
<1>2. SchedInv' /\ SleepInv'
  BY <1>1, IdeFacts, SameSched, QuietThread DEF schedVars, mutexVars
<1>3. /\ ChannelInv' /\ pc' \in [Threads -> PC] /\ pc'[t] = "outb"
      /\ \A u \in Threads : u # t => ~Armed(u) /\ ~Armed(u)' /\ pc'[u] \notin Active
  BY <1>1, ActiveStep DEF Active, mutexVars
<1>4. TypeOK'
  BY <1>1, <1>3 DEF IInv, TypeOK, mutexVars, devVars
<1>5. ~Armed(t)
  BY <1>1 DEF Armed
<1>6. SemaInv'
  BY <1>1, <1>3, <1>5 DEF IInv, SemaInv, Armed
<1>7. DiskInv'
  BY <1>3, DiskOfActive
<1> QED BY <1>2, <1>3, <1>4, <1>6, <1>7 DEF IInv

\* cmd_out writes the command, over what the disk was still doing.
LEMMA CommandKeepsInv ==
  ASSUME IInv, NEW t \in Threads, cmd_out(t)
  PROVE  IInv'
<1> DEFINE l == IF op[t] = "write" THEN "poll" ELSE "down"
<1>1. /\ cur = t /\ pc[t] = "outb" /\ pc' = [pc EXCEPT ![t] = l]
      /\ dev' = IF op[t] = "write" THEN "accept" ELSE "seek"
      /\ owner' = t /\ more' = (IF op[t] = "identify" THEN 0 ELSE Extra) /\ irq' = FALSE
      /\ UNCHANGED <<schedVars, mutexVars, ideVars>>
  BY DEF cmd_out, at, goto
<1>2. SchedInv' /\ SleepInv'
  BY <1>1, IdeFacts, SameSched, QuietThread DEF schedVars, mutexVars, ideVars
<1>3. /\ ChannelInv' /\ pc' \in [Threads -> PC] /\ pc'[t] = l
      /\ \A u \in Threads : u # t => ~Armed(u) /\ ~Armed(u)' /\ pc'[u] \notin Active
  BY <1>1, ActiveStep DEF Active, mutexVars, ideVars
<1>4. TypeOK'
  BY <1>1, <1>3, IdeAssumption DEF IInv, TypeOK, mutexVars, ideVars
<1>5. Armed(t) /\ Armed(t)'
  BY <1>1, <1>3 DEF Armed, ideVars
<1>6. SemaInv'
  BY <1>1, <1>3, <1>5 DEF IInv, SemaInv, ideVars
<1>7. DiskInv'
  BY <1>1, <1>3, DiskOfActive DEF ideVars, Busy
<1> QED BY <1>2, <1>3, <1>4, <1>6, <1>7 DEF IInv

\* sema_down without a count: the thread sleeps, and the interrupt it sleeps for
\* is still expected.
LEMMA SleepKeepsInv ==
  ASSUME IInv, NEW t \in Threads, sema_down(t), value = 0
  PROVE  IInv'
<1>1. /\ cur = t /\ pc[t] \in {"down", "redown"} /\ pc' = [pc EXCEPT ![t] = "redown"]
      /\ sleepers' = list_append(sleepers, t)
      /\ thread_block("BLOCKED", ~elem_find(sleepers, t))
      /\ UNCHANGED <<mutexVars, devVars, expecting, value, op, left, tick>>
  BY DEF sema_down, atAny, goto
<1>2. ~elem_find(waiters, t) /\ ~elem_find(sleepers, t)
  BY <1>1, IdeFacts
<1>3. /\ SchedInv'
      /\ status'[t] = "BLOCKED"
      /\ \A u \in Threads \ {t} :
           \/ status'[u] = status[u]
           \/ {status[u], status'[u]} \subseteq {"READY", "RUNNING"}
  BY <1>1, <1>2, IdeFacts, BlockKeepsInv, SchedAssumption DEF Blocked
<1>4. /\ sleepers' \in Seq(Threads)
      /\ \A x : elem_find(sleepers', x) <=> elem_find(sleepers, x) \/ x = t
      /\ NoDup(sleepers')
  BY <1>1, <1>2, IdeFacts, AppendMembers DEF IInv, SleepInv
<1>5. /\ ChannelInv' /\ pc' \in [Threads -> PC] /\ pc'[t] = "redown"
      /\ \A u \in Threads : u # t => ~Armed(u) /\ ~Armed(u)' /\ pc'[u] \notin Active
  BY <1>1, ActiveStep DEF Active, mutexVars
<1>6. \A u \in Threads : u # t => pc'[u] = pc[u]
  BY <1>1, IdeFacts
<1>7. SleepInv'
  BY <1>1, <1>2, <1>3, <1>4, <1>5, <1>6 DEF IInv, SleepInv, Blocked, mutexVars
<1>8. TypeOK'
  BY <1>1, <1>4, <1>5 DEF IInv, TypeOK, mutexVars, devVars
<1>9. Armed(t) /\ Armed(t)'
  BY <1>1, <1>5 DEF Armed
<1>10. SemaInv'
  BY <1>1, <1>5, <1>9 DEF IInv, SemaInv
<1>11. DiskInv'
  <2>1. /\ owner = t /\ (expecting => Busy \/ irq)
        /\ dev \in IF op[t] = "write" THEN {"media", "idle"} ELSE {"seek", "drq"}
    BY <1>1 DEF IInv, DiskInv
  <2> QED BY <1>1, <1>5, <2>1, DiskOfActive DEF devVars, Busy
<1> QED BY <1>3, <1>5, <1>7, <1>8, <1>10, <1>11 DEF IInv

\* NextCommand goes back to cmd_out or to the end.
LEMMA NextCommandFacts ==
  ASSUME IInv, NEW t \in Threads, NextCommand(t)
  PROVE  /\ left' \in [Threads -> Nat]
         /\ \E l \in {"expect", "unlock"} : pc' = [pc EXCEPT ![t] = l]
<1>1. left \in [Threads -> Nat]
  BY DEF IInv, TypeOK
<1>2. left' \in [Threads -> Nat]
  BY <1>1 DEF NextCommand
<1>3. \E l \in {"expect", "unlock"} : pc' = [pc EXCEPT ![t] = l]
  BY DEF NextCommand, goto
<1> QED BY <1>2, <1>3

\* sema_down when the interrupt has been counted.
LEMMA PassKeepsInv ==
  ASSUME IInv, NEW t \in Threads, sema_down(t), value # 0
  PROVE  IInv'
<1>1. /\ cur = t /\ pc[t] \in {"down", "redown"}
      /\ value = 1 /\ value' = 0 /\ panic' = FALSE
      /\ UNCHANGED <<mutexVars, devVars, expecting, op, tick>>
      /\ UNCHANGED <<sleepers, status, ready, cur, ticks>>
  <2>1. value = 1
    BY DEF IInv, TypeOK
  <2>2. /\ cur = t /\ pc[t] \in {"down", "redown"}
        /\ value' = value - 1 /\ panic' = (value' # 0)
        /\ UNCHANGED <<mutexVars, devVars, expecting, op, tick>>
        /\ UNCHANGED <<sleepers, status, ready, cur, ticks>>
    BY Zenon DEF sema_down, atAny
  <2>3. value' = 0
    BY <2>1, <2>2
  <2>4. panic' = FALSE
    BY <2>2, <2>3
  <2> QED BY <2>1, <2>2, <2>3, <2>4
<1>2. PICK l \in Active :
        /\ pc' = [pc EXCEPT ![t] = l] /\ left' \in [Threads -> Nat]
        /\ IF op[t] = "write" THEN l \in {"expect", "unlock"} ELSE l = "poll"
  <2>1. CASE op[t] = "write"
    BY <1>1, <2>1, NextCommandFacts DEF sema_down, Active
  <2>2. CASE op[t] # "write"
    BY <1>1, <2>2 DEF sema_down, goto, Active, IInv, TypeOK
  <2> QED BY <2>1, <2>2
<1>3. SchedInv'
  BY <1>1, IdeFacts, SameSched DEF schedVars
<1>4. SleepInv'
  BY <1>1, <1>2, QuietThread DEF mutexVars, Active
<1>5. /\ ChannelInv' /\ pc' \in [Threads -> PC] /\ pc'[t] = l
      /\ \A u \in Threads : u # t => ~Armed(u) /\ ~Armed(u)' /\ pc'[u] \notin Active
  BY <1>1, <1>2, ActiveStep DEF Active, mutexVars
<1>6. TypeOK'
  BY <1>1, <1>2, <1>5 DEF IInv, TypeOK, mutexVars, devVars
<1>7. Armed(t) /\ ~Armed(t)'
  BY <1>1, <1>2, <1>5 DEF Armed
<1>8. expecting = FALSE
  BY <1>1, <1>7 DEF IInv, SemaInv, TypeOK
<1>9. SemaInv'
  BY <1>1, <1>5, <1>7, <1>8 DEF SemaInv
<1>10. DiskInv'
  <2>1. /\ owner = t
        /\ dev \in IF op[t] = "write" THEN {"media", "idle"} ELSE {"seek", "drq"}
    BY <1>1 DEF IInv, DiskInv
  <2> QED BY <1>1, <1>2, <1>5, <2>1, DiskOfActive DEF devVars
<1> QED BY <1>3, <1>4, <1>5, <1>6, <1>9, <1>10 DEF IInv

\* One round of busy_wait: the disk is at this thread's command, so it is busy or
\* asks for data.
LEMMA PollKeepsInv ==
  ASSUME IInv, NEW t \in Threads, busy_wait(t)
  PROVE  IInv'
<1>1. /\ cur = t /\ pc[t] = "poll" /\ irq' = FALSE
      /\ UNCHANGED <<status, ready, cur, ticks, mutexVars, dev, owner, more,
                     expecting, value, sleepers, op, left>>
  BY DEF busy_wait, at
<1>2. owner = t /\ dev \in IF op[t] = "write" THEN {"accept", "drq"} ELSE {"seek", "drq"}
  BY <1>1 DEF IInv, DiskInv
<1>3. PICK l \in {"sleep", "data"} :
        /\ pc' = [pc EXCEPT ![t] = l] /\ tick' \in [Threads -> BOOLEAN]
        /\ panic' = FALSE /\ (l = "data" => dev = "drq")
  <2>1. CASE Busy
    BY <2>1, IdeFacts DEF busy_wait, goto, IInv, TypeOK
  <2>2. CASE ~Busy
    <3>1. dev = "drq"
      BY <1>2, <2>2 DEF Busy
    <3>2. panic' = (dev # "drq") /\ pc' = [pc EXCEPT ![t] = "data"] /\ tick' = tick
      BY <2>2 DEF busy_wait, goto
    <3> QED BY <3>1, <3>2 DEF IInv, TypeOK
  <2> QED BY <2>1, <2>2
<1>4. SchedInv'
  BY <1>1, <1>3, IdeFacts, SameSched DEF schedVars
<1>5. SleepInv'
  BY <1>1, <1>3, QuietThread DEF mutexVars
<1>6. /\ ChannelInv' /\ pc' \in [Threads -> PC] /\ pc'[t] = l
      /\ \A u \in Threads : u # t => ~Armed(u) /\ ~Armed(u)' /\ pc'[u] \notin Active
  BY <1>1, <1>3, ActiveStep DEF Active, mutexVars
<1>7. TypeOK'
  BY <1>1, <1>3, <1>6 DEF IInv, TypeOK, mutexVars
<1>8. Armed(t)' <=> Armed(t)
  BY <1>1, <1>6 DEF Armed
<1>9. SemaInv'
  BY <1>1, <1>6, <1>8 DEF IInv, SemaInv
<1>10. DiskInv'
  BY <1>1, <1>2, <1>3, <1>6, DiskOfActive
<1> QED BY <1>4, <1>5, <1>6, <1>7, <1>9, <1>10 DEF IInv

\* Threads that go on waiting, or on not waiting, keep the queues' invariant.
LEMMA OnlySwitched ==
  ASSUME IInv, UNCHANGED <<mutexVars, sleepers, value, pc>>,
         \A t \in Threads : \/ status'[t] = status[t]
                            \/ {status[t], status'[t]} \subseteq {"READY", "RUNNING"}
  PROVE  SleepInv'
BY DEF IInv, SleepInv, Blocked, mutexVars

\* A step that touches neither the driver nor the disk.
LEMMA SameDriver ==
  ASSUME IInv, UNCHANGED <<holder, devVars, expecting, value, op, pc>>
  PROVE  ChannelInv' /\ SemaInv' /\ DiskInv'
<1>1. ChannelInv'
  BY DEF IInv, ChannelInv
<1>2. \A u \in Threads : Armed(u)' <=> Armed(u)
  BY DEF Armed
<1>3. SemaInv' /\ DiskInv'
  BY <1>2 DEF IInv, SemaInv, DiskInv, Busy, devVars
<1> QED BY <1>1, <1>3

\* mtime_sleep's yields, and its end.
LEMMA MtimeKeepsInv ==
  ASSUME IInv, NEW t \in Threads, mtime_sleep(t)
  PROVE  IInv'
<1>1. cur = t /\ pc[t] = "sleep" /\ UNCHANGED <<mutexVars, devVars, ideVars>>
  BY DEF mtime_sleep, at
<1>2. CASE tick[t]
  <2>1. pc' = [pc EXCEPT ![t] = "poll"] /\ UNCHANGED schedVars
    BY <1>2 DEF mtime_sleep, goto
  <2>2. SchedInv' /\ SleepInv'
    BY <1>1, <2>1, IdeFacts, SameSched, QuietThread DEF schedVars, mutexVars, ideVars
  <2>3. /\ ChannelInv' /\ pc' \in [Threads -> PC] /\ pc'[t] = "poll"
        /\ \A u \in Threads : u # t => ~Armed(u) /\ ~Armed(u)' /\ pc'[u] \notin Active
    BY <1>1, <2>1, ActiveStep DEF Active, mutexVars, ideVars
  <2>4. TypeOK'
    BY <1>1, <2>3 DEF IInv, TypeOK, mutexVars, devVars, ideVars
  <2>5. Armed(t)' <=> Armed(t)
    BY <1>1, <2>3 DEF Armed, ideVars
  <2>6. SemaInv'
    BY <1>1, <2>3, <2>5 DEF IInv, SemaInv, ideVars
  <2>7. owner = t /\ dev \in IF op[t] = "write" THEN {"accept", "drq"} ELSE {"seek", "drq"}
    BY <1>1 DEF IInv, DiskInv
  <2>8. DiskInv'
    BY <1>1, <2>3, <2>7, DiskOfActive DEF devVars, ideVars
  <2> QED BY <2>2, <2>3, <2>4, <2>6, <2>8 DEF IInv
<1>3. CASE ~tick[t]
  <2>1. thread_yield /\ UNCHANGED pc
    BY <1>3 DEF mtime_sleep
  <2>2. SchedInv' /\ SleepInv'
    BY <1>1, <2>1, IdeFacts, YieldKeepsInv, OnlySwitched DEF ideVars
  <2>3. TypeOK'
    BY <1>1, <2>1 DEF IInv, TypeOK, mutexVars, devVars, ideVars
  <2>4. ChannelInv' /\ SemaInv' /\ DiskInv'
    BY <1>1, <2>1, SameDriver DEF mutexVars, ideVars
  <2> QED BY <2>2, <2>3, <2>4 DEF IInv
<1> QED BY <1>2, <1>3

\* The data is moved.
LEMMA TransferKeepsInv ==
  ASSUME IInv, NEW t \in Threads, Transfer(t)
  PROVE  IInv'
<1>1. /\ cur = t /\ pc[t] = "data"
      /\ dev' = IF op[t] = "write" THEN "media" ELSE "idle"
      /\ irq' \in BOOLEAN
      /\ UNCHANGED <<schedVars, mutexVars, owner, more, expecting, value, sleepers, op, tick>>
  BY DEF Transfer, at
<1>2. PICK l \in Active :
        /\ pc' = [pc EXCEPT ![t] = l] /\ left' \in [Threads -> Nat]
        /\ IF op[t] = "write" THEN l = "down" ELSE l \in {"expect", "unlock"}
  <2>1. CASE op[t] = "write"
    BY <1>1, <2>1 DEF Transfer, goto, Active, IInv, TypeOK
  <2>2. CASE op[t] # "write"
    BY <1>1, <2>2, NextCommandFacts DEF Transfer, Active
  <2> QED BY <2>1, <2>2
<1>3. SchedInv' /\ SleepInv'
  BY <1>1, <1>2, IdeFacts, SameSched, QuietThread DEF schedVars, mutexVars
<1>4. /\ ChannelInv' /\ pc' \in [Threads -> PC] /\ pc'[t] = l
      /\ \A u \in Threads : u # t => ~Armed(u) /\ ~Armed(u)' /\ pc'[u] \notin Active
  BY <1>1, <1>2, ActiveStep DEF Active, mutexVars
<1>5. TypeOK'
  BY <1>1, <1>2, <1>4 DEF IInv, TypeOK, mutexVars
<1>6. Armed(t)' <=> Armed(t)
  BY <1>1, <1>2, <1>4 DEF Armed
<1>7. SemaInv'
  BY <1>1, <1>4, <1>6 DEF IInv, SemaInv
<1>8. owner = t
  BY <1>1 DEF IInv, DiskInv
<1>9. DiskInv'
  BY <1>1, <1>2, <1>4, <1>8, DiskOfActive DEF Busy
<1> QED BY <1>3, <1>4, <1>5, <1>7, <1>9 DEF IInv

\* The end of the operation: the first waiter is woken, and takes the lock later.
LEMMA FinishKeepsInv ==
  ASSUME IInv, NEW t \in Threads, Finish(t)
  PROVE  IInv'
<1>1. /\ cur = t /\ pc[t] = "unlock" /\ pc' = [pc EXCEPT ![t] = "user"]
      /\ op' = [op EXCEPT ![t] = "none"]
      /\ UNCHANGED <<devVars, expecting, value, sleepers, left, tick>>
  BY DEF Finish, at, goto
<1>2. /\ pc'[t] = "user" /\ op'[t] = "none"
      /\ \A u \in Threads : u # t => pc'[u] = pc[u] /\ op'[u] = op[u]
  BY <1>1, IdeFacts
<1>3. \A u \in Threads : u # t => pc[u] \notin Active
  BY <1>1, Alone DEF IInv, Active
<1>4. \A u \in Threads : ~Armed(u) /\ ~Armed(u)'
  BY <1>1, <1>2, <1>3 DEF Armed, Active
<1>5. SemaInv'
  BY <1>1, <1>4 DEF IInv, SemaInv
<1>6. DiskInv'
  BY <1>2, <1>3 DEF DiskInv, Active
<1>7. pc' \in [Threads -> PC] /\ op' \in [Threads -> {"none", "identify", "read", "write"}]
  BY <1>1, IdeFacts DEF PC
<1>8. CASE op[t] = "identify" \/ waiters = <<>>
  <2>1. /\ UNCHANGED <<schedVars, waiters>>
        /\ holder' = IF op[t] = "identify" THEN holder ELSE NULL
    <3>1. CASE op[t] = "identify"
      BY <3>1 DEF Finish, mutexVars
    <3>2. CASE op[t] # "identify"
      <4>1. lock_release /\ holder = t
        BY <1>1, <3>2 DEF Finish, IInv, ChannelInv, Active
      <4> QED BY <1>1, <1>8, <3>2, <4>1, IdeFacts DEF lock_release, schedVars
    <3> QED BY <3>1, <3>2
  <2>2. SchedInv' /\ SleepInv'
    BY <1>1, <2>1, IdeFacts, SameSched, QuietThread DEF schedVars
  <2>3. TypeOK'
    BY <1>1, <1>7, <2>1 DEF IInv, TypeOK, devVars
  <2>4. ChannelInv'
    BY <1>1, <1>2, <1>3, <2>1, IdeFacts DEF IInv, ChannelInv, Active
  <2> QED BY <1>5, <1>6, <2>2, <2>3, <2>4 DEF IInv
<1>9. CASE op[t] # "identify" /\ waiters # <<>>
  <2> DEFINE w == Head(waiters)
  <2>1. /\ thread_unblock(w, holder = cur) /\ waiters' = Tail(waiters)
        /\ holder = t /\ holder' = NULL
    BY <1>1, <1>9 DEF Finish, lock_release, IInv, ChannelInv, Active
  <2>2. /\ w \in Threads /\ elem_find(waiters, w)
        /\ waiters' \in Seq(Threads) /\ NoDup(waiters')
        /\ \A x : elem_find(waiters', x) <=> elem_find(waiters, x) /\ x # w
    BY <1>9, <2>1, IdeFacts, PopMembers DEF IInv, SleepInv
  <2> HIDE DEF w
  <2>3. status[w] \in Blocked /\ pc[w] = "relock" /\ ~elem_find(sleepers, w)
    BY <2>2 DEF IInv, SleepInv
  <2>4. SchedInv' /\ status' = [status EXCEPT ![w] = "READY"]
    BY <1>1, <2>1, <2>2, <2>3, IdeFacts, UnblockKeepsInv
  <2>5. TypeOK'
    BY <1>1, <1>7, <2>1, <2>2 DEF IInv, TypeOK, devVars
  <2>6. \A u \in Threads : status'[u] \in Blocked <=> status[u] \in Blocked /\ u # w
    BY <2>2, <2>4, IdeFacts DEF SchedInv, SchedTypeOK, Blocked
  <2>7. ~elem_find(waiters, t) /\ ~elem_find(sleepers, t)
    BY <1>1, IdeFacts
  <2>8. SleepInv'
    BY <1>1, <1>2, <2>2, <2>3, <2>6, <2>7 DEF IInv, SleepInv
  <2>9. ChannelInv'
    BY <1>1, <1>2, <1>3, <2>1, IdeFacts DEF IInv, ChannelInv, Active
  <2> QED BY <1>5, <1>6, <2>4, <2>5, <2>8, <2>9 DEF IInv
<1> QED BY <1>8, <1>9

----------------------------------------------------------------------------
(***************************************************************************)
(* The interrupt, the disk, and the rest of the machine.                   *)
(***************************************************************************)

\* intr_hd_handler counts the interrupt that is expected, once, and wakes the
\* thread that sleeps for it.
LEMMA HandlerKeepsInv ==
  ASSUME IInv, intr_hd_handler
  PROVE  IInv'
<1>1. irq' = FALSE /\ UNCHANGED <<mutexVars, dev, owner, more, op, left, tick, pc>>
  BY DEF intr_hd_handler
<1>2. \A u \in Threads : Armed(u)' <=> Armed(u)
  BY <1>1 DEF Armed
<1>3. ChannelInv'
  BY <1>1 DEF IInv, ChannelInv, mutexVars
<1>4. CASE ~expecting
  <2>1. UNCHANGED <<schedVars, expecting, value, sleepers>>
    BY <1>4 DEF intr_hd_handler
  <2>2. SchedInv'
    BY <2>1, IdeFacts, SameSched
  <2>3. SleepInv'
    BY <1>1, <2>1, OnlySwitched DEF schedVars
  <2>4. TypeOK'
    BY <1>1, <2>1 DEF IInv, TypeOK, mutexVars
  <2>5. SemaInv'
    BY <1>2, <2>1 DEF IInv, SemaInv
  <2>6. DiskInv'
    BY <1>1, <1>4, <2>1 DEF IInv, DiskInv
  <2> QED BY <1>3, <2>2, <2>3, <2>4, <2>5, <2>6 DEF IInv
<1>5. CASE expecting
  <2>1. value = 0 /\ \E u \in Threads : Armed(u)
    BY <1>5 DEF IInv, SemaInv
  <2>2. expecting' = FALSE /\ value' = 1
    BY <1>5, <2>1 DEF intr_hd_handler
  <2>3. SemaInv'
    BY <1>2, <2>1, <2>2 DEF SemaInv
  <2>4. DiskInv'
    BY <1>1, <2>2 DEF IInv, DiskInv
  <2>5. CASE sleepers = <<>>
    <3>1. UNCHANGED <<schedVars, sleepers>>
      <4>1. panic' = (value # 0) /\ UNCHANGED <<sleepers, status, ready, cur, ticks>>
        BY <1>5, <2>5 DEF intr_hd_handler
      <4> QED BY <2>1, <4>1, IdeFacts DEF schedVars
    <3>2. SchedInv'
      BY <3>1, IdeFacts, SameSched
    <3>3. \A u : ~elem_find(sleepers, u)
      BY <2>5 DEF elem_find
    <3>4. SleepInv'
      BY <1>1, <3>1, <3>3 DEF IInv, SleepInv, schedVars, mutexVars
    <3>5. TypeOK'
      BY <1>1, <2>2, <3>1 DEF IInv, TypeOK, mutexVars
    <3> QED BY <1>3, <2>3, <2>4, <3>2, <3>4, <3>5 DEF IInv
  <2>6. CASE sleepers # <<>>
    <3> DEFINE w == Head(sleepers)
    <3>1. thread_unblock(w, value = 0) /\ sleepers' = Tail(sleepers)
      BY <1>5, <2>6 DEF intr_hd_handler
    <3>2. /\ w \in Threads /\ elem_find(sleepers, w)
          /\ sleepers' \in Seq(Threads) /\ NoDup(sleepers')
          /\ \A x : elem_find(sleepers', x) <=> elem_find(sleepers, x) /\ x # w
      BY <2>6, <3>1, IdeFacts, PopMembers DEF IInv, SleepInv
    <3> HIDE DEF w
    <3>3. status[w] \in Blocked /\ pc[w] = "redown" /\ ~elem_find(waiters, w)
      BY <3>2 DEF IInv, SleepInv
    <3>4. SchedInv' /\ status' = [status EXCEPT ![w] = "READY"]
      BY <2>1, <3>1, <3>2, <3>3, IdeFacts, UnblockKeepsInv
    <3>5. \A u \in Threads : ~elem_find(sleepers', u)
      BY <3>2, <3>3, Alone DEF IInv, SleepInv, Active
    <3>6. \A u \in Threads : status'[u] \in Blocked <=> status[u] \in Blocked /\ u # w
      BY <3>2, <3>4, IdeFacts DEF SchedInv, SchedTypeOK, Blocked
    <3>7. SleepInv'
      BY <1>1, <3>2, <3>3, <3>5, <3>6 DEF IInv, SleepInv, mutexVars
    <3>8. TypeOK'
      BY <1>1, <2>2, <3>2 DEF IInv, TypeOK, mutexVars
    <3> QED BY <1>3, <2>3, <2>4, <3>4, <3>7, <3>8 DEF IInv
  <2> QED BY <2>5, <2>6
<1> QED BY <1>4, <1>5 DEF IInv, TypeOK

\* The disk works on the command it was given last.
LEMMA DiskKeepsInv ==
  ASSUME IInv, Disk
  PROVE  IInv'
<1>1. UNCHANGED <<schedVars, mutexVars, ideVars, owner, pc>>
  BY DEF Disk, DiskReady, DiskAccept, DiskWritten
<1>2. SchedInv'
  BY <1>1, IdeFacts, SameSched
<1>3. SleepInv'
  BY <1>1, OnlySwitched DEF schedVars, ideVars
<1>4. ChannelInv'
  BY <1>1 DEF IInv, ChannelInv, mutexVars, ideVars
<1>5. \A u \in Threads : Armed(u)' <=> Armed(u)
  BY <1>1 DEF Armed, ideVars
<1>6. SemaInv'
  BY <1>1, <1>5 DEF IInv, SemaInv, ideVars
<1>7. TypeOK'
  <2>1. more \in Nat /\ irq \in BOOLEAN
    BY DEF IInv, TypeOK
  <2>2. more' \in Nat /\ dev' \in {"idle", "seek", "accept", "drq", "media"}
    BY <2>1 DEF Disk, DiskReady, DiskAccept, DiskWritten
  <2>3. irq' \in BOOLEAN
    BY <2>1, Zenon DEF Disk, DiskReady, DiskAccept, DiskWritten
  <2> QED BY <1>1, <2>2, <2>3 DEF IInv, TypeOK, mutexVars, ideVars
<1>8. DiskInv'
  <2>1. CASE DiskReady
    BY <1>1, <2>1 DEF IInv, DiskInv, DiskReady, ideVars
  <2>2. CASE DiskAccept
    BY <1>1, <2>2 DEF IInv, DiskInv, DiskAccept, ideVars
  <2>3. CASE DiskWritten
    BY <1>1, <2>3 DEF IInv, DiskInv, DiskWritten, ideVars
  <2> QED BY <2>1, <2>2, <2>3 DEF Disk
<1> QED BY <1>2, <1>3, <1>4, <1>6, <1>7, <1>8 DEF IInv

\* idle_thread's wait.
LEMMA IdleKeepsInv ==
  ASSUME IInv, idle
  PROVE  IInv'
<1>1. cur = Idle /\ thread_block("BLOCKED", TRUE) /\ UNCHANGED <<mutexVars, devVars, ideVars, pc>>
  BY DEF idle
<1>2. /\ SchedInv'
      /\ \A t \in Threads : \/ status'[t] = status[t]
                            \/ {status[t], status'[t]} \subseteq {"READY", "RUNNING"}
  BY <1>1, IdeFacts, BlockKeepsInv, SchedAssumption DEF Blocked
<1>3. SleepInv'
  BY <1>1, <1>2, OnlySwitched DEF ideVars
<1>4. TypeOK'
  BY <1>1 DEF IInv, TypeOK, mutexVars, devVars, ideVars
<1>5. ChannelInv' /\ SemaInv' /\ DiskInv'
  BY <1>1, SameDriver DEF mutexVars, ideVars
<1> QED BY <1>2, <1>3, <1>4, <1>5 DEF IInv

\* A tick of the timer.
LEMMA TimerKeepsDriver ==
  ASSUME IInv, Timer
  PROVE  IInv'
<1>1. /\ intr_timer_handler
      /\ tick' = [t \in Threads |-> pc[t] = "sleep" \/ tick[t]]
      /\ UNCHANGED <<mutexVars, devVars, expecting, value, sleepers, op, left, pc>>
  BY DEF Timer
<1>2. SchedInv' /\ SleepInv'
  BY <1>1, IdeFacts, TimerKeepsInv, OnlySwitched
<1>3. tick' \in [Threads -> BOOLEAN]
  BY <1>1 DEF IInv, TypeOK
<1>4. TypeOK'
  BY <1>1, <1>3 DEF IInv, TypeOK, mutexVars, devVars
<1>5. ChannelInv' /\ SemaInv' /\ DiskInv'
  BY <1>1, SameDriver DEF mutexVars
<1> QED BY <1>2, <1>4, <1>5 DEF IInv

----------------------------------------------------------------------------
(***************************************************************************)
(* The theorems.                                                           *)
(***************************************************************************)
LEMMA InitIde == Init => IInv
<1> SUFFICES ASSUME Init PROVE IInv
  OBVIOUS
<1> USE SchedAssumption, NullAssumption, IdeAssumption
<1>1. cur = Main /\ cur \in Threads /\ cur \in All /\ cur # Idle /\ Idle \in All
      /\ Threads \subseteq All
  BY DEF Init, All
<1>2. IsFiniteSet(All \ {cur})
  BY FS_AddElement, FS_RemoveElement DEF All
<1>3. /\ ready \in Seq(All)
      /\ NoDup(ready)
      /\ \A t \in All : elem_find(ready, t) <=> t # cur
  <2>1. /\ ready \in Seq(All \ {cur})
        /\ NoDup(ready)
        /\ \A x : elem_find(ready, x) <=> x \in All \ {cur}
    BY <1>2, OrdersMembers DEF Init
  <2> QED BY <2>1
<1>4. status \in [All -> Status] /\ \A t \in All : status[t] = IF t = cur THEN "RUNNING" ELSE "READY"
  BY <1>1 DEF Init, Status
<1>5. SchedInv
  BY <1>1, <1>3, <1>4 DEF Init, SchedInv, SchedTypeOK, ReadyListExact, IdleParked, NoPanic
<1>6. /\ pc \in [Threads -> PC]
      /\ \A t \in Threads : pc[t] = IF t = Main THEN "boot" ELSE "user"
      /\ \A t \in Threads : op[t] = IF t = Main THEN "identify" ELSE "none"
  BY DEF Init, PC
<1>7. TypeOK
  <2>1. /\ op \in [Threads -> {"none", "identify", "read", "write"}]
        /\ left \in [Threads -> Nat]
    BY DEF Init
  <2>2. tick \in [Threads -> BOOLEAN]
    BY Zenon DEF Init
  <2>3. /\ waiters = <<>> /\ sleepers = <<>> /\ more = 0 /\ value = 0
        /\ expecting = FALSE /\ irq = FALSE /\ dev = "idle" /\ owner = NULL /\ holder = NULL
    BY Zenon DEF Init
  <2>4. waiters \in Seq(Threads) /\ sleepers \in Seq(Threads)
    <3>1. <<>> \in Seq(Threads)
      OBVIOUS
    <3> QED BY <2>3, <3>1, Zenon
  <2>5. expecting \in BOOLEAN /\ irq \in BOOLEAN
    BY <2>3, Zenon
  <2>6. /\ value \in {0, 1} /\ more \in Nat /\ owner \in Threads \cup {NULL}
        /\ dev \in {"idle", "seek", "accept", "drq", "media"} /\ holder \in Threads \cup {NULL}
    BY <2>3
  <2> QED BY <1>6, <2>1, <2>2, <2>4, <2>5, <2>6, Zenon DEF TypeOK
<1>8. /\ NoDup(waiters) /\ NoDup(sleepers)
      /\ \A t : ~elem_find(waiters, t) /\ ~elem_find(sleepers, t)
  BY DEF Init, elem_find, NoDup
<1>9. SleepInv
  BY <1>1, <1>4, <1>8 DEF SleepInv, Blocked
<1>10. ChannelInv
  <2>1. \A t \in Threads : holder # t
    BY DEF Init, All
  <2> QED BY <1>6, <2>1 DEF ChannelInv, Active
<1>11. SemaInv /\ DiskInv
  BY <1>6 DEF Init, SemaInv, DiskInv, Armed
<1> QED BY <1>5, <1>7, <1>9, <1>10, <1>11 DEF IInv

\* The inductive invariant of the driver.
THEOREM SpecIInv == Spec => []IInv
<1>1. IInv /\ [Next]_vars => IInv'
  <2> SUFFICES ASSUME IInv, [Next]_vars PROVE IInv'
    OBVIOUS
  <2>1. ASSUME NEW t \in Threads, Run(t) PROVE IInv'
    <3>1. CASE identify_disk(t)
      BY <3>1, BeginKeepsInv
    <3>2. CASE WaitForLock(t)
      BY <3>2, WaitForLockKeepsInv
    <3>3. CASE TakeLock(t)
      BY <3>3, TakeLockKeepsInv
    <3>4. CASE cmd_out_expect(t)
      BY <3>4, ExpectKeepsInv
    <3>5. CASE cmd_out(t)
      BY <3>5, CommandKeepsInv
    <3>6. CASE sema_down(t)
      BY <3>6, SleepKeepsInv, PassKeepsInv
    <3>7. CASE busy_wait(t)
      BY <3>7, PollKeepsInv
    <3>8. CASE mtime_sleep(t)
      BY <3>8, MtimeKeepsInv
    <3>9. CASE Transfer(t)
      BY <3>9, TransferKeepsInv
    <3>10. CASE Finish(t)
      BY <3>10, FinishKeepsInv
    <3> QED
      BY <2>1, <3>1, <3>2, <3>3, <3>4, <3>5, <3>6, <3>7, <3>8, <3>9, <3>10 DEF Run
  <2>2. ASSUME NEW t \in Threads, \E o \in Ops, n \in 1..MaxCmds : Call(t, o, n)
        PROVE  IInv'
    BY <2>2, BeginKeepsInv
  <2>3. CASE intr_hd_handler
    BY <2>3, HandlerKeepsInv
  <2>4. CASE Disk
    BY <2>4, DiskKeepsInv
  <2>5. CASE idle
    BY <2>5, IdleKeepsInv
  <2>6. CASE Timer
    BY <2>6, TimerKeepsDriver
  <2>7. CASE UNCHANGED vars
    <3>1. SchedInv'
      BY <2>7, IdeFacts, SameSched DEF vars
    <3>2. SleepInv'
      BY <2>7, OnlySwitched DEF vars, schedVars, ideVars
    <3>3. TypeOK'
      BY <2>7 DEF vars, IInv, TypeOK, mutexVars, devVars, ideVars
    <3>4. ChannelInv' /\ SemaInv' /\ DiskInv'
      BY <2>7, SameDriver DEF vars, mutexVars, ideVars
    <3> QED BY <3>1, <3>2, <3>3, <3>4 DEF IInv
  <2> QED
    BY <2>1, <2>2, <2>3, <2>4, <2>5, <2>6, <2>7 DEF Next
<1> QED
  BY InitIde, <1>1, PTL DEF Spec

\* The data that read_from_sector and write2sector move is that of the thread's
\* own command: for all threads and commands of any length, however the old
\* command's interrupts fall.
THEOREM OwnData == Spec => []DataOfOwnCommand
<1>1. IInv => DataOfOwnCommand
  BY DEF IInv, DiskInv, DataOfOwnCommand
<1> QED
  BY <1>1, SpecIInv, PTL

\* A thread that sleeps on disk_done has its interrupt still to come, and no
\* ASSERT or PANIC of the driver, the semaphore or the scheduler stops the machine.
THEOREM InterruptNotLost == Spec => []NoLostInterrupt
<1>1. ASSUME IInv PROVE NoLostInterrupt
  <2>1. ~panic
    BY <1>1, IdeFacts
  <2>2. ASSUME NEW t \in Threads, elem_find(sleepers, t)
        PROVE  expecting /\ owner = t /\ value = 0 /\ (Busy \/ irq)
    <3>1. pc[t] = "redown" /\ value = 0
      BY <1>1, <2>2 DEF IInv, SleepInv
    <3>2. Armed(t)
      BY <3>1 DEF Armed
    <3>3. expecting
      BY <1>1, <3>1, <3>2 DEF IInv, SemaInv
    <3> QED BY <1>1, <3>1, <3>3 DEF IInv, DiskInv
  <2> QED BY <2>1, <2>2 DEF NoLostInterrupt
<1> QED
  BY <1>1, SpecIInv, PTL

=============================================================================
