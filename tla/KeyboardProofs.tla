--------------------------- MODULE KeyboardProofs ---------------------------
(***************************************************************************)
(* The keyboard and its queue for any number of readers, any keys, any     *)
(* size of the buffer and any time slices: the readers sleep and wake as   *)
(* io_queue.c asserts, the ring is a first-in first-out queue, and the     *)
(* flags of intr_keyboard_handler follow the keys.                         *)
(***************************************************************************)
EXTENDS Keyboard, SchedProofs

----------------------------------------------------------------------------
(***************************************************************************)
(* The inductive invariant.                                                *)
(***************************************************************************)
Positions == 0..BufSize - 1

TypeOK ==
  /\ buf \in [Positions -> Chars]
  /\ head \in Positions /\ tail \in Positions
  /\ got \in Chars
  /\ pc \in [Threads -> PC]
  /\ consumer \in Threads \cup {NULL}
  /\ holder \in Threads \cup {NULL}
  /\ waiters \in Seq(Threads)

\* Where the holder of the queue's lock, the recorded sleeper and the threads
\* in the lock's queue are: the lock is held exactly by the thread in
\* ioq_wait, so the next sleeper never finds one recorded.
SleepInv ==
  /\ NoDup(waiters)
  /\ \A t \in Threads : holder = t <=> pc[t] = "asleep"
  /\ \A t \in Threads : t = consumer => pc[t] = "asleep"
  /\ \A t \in Threads : elem_find(waiters, t) => pc[t] = "lock"
  /\ \A t \in Threads : status[t] \in Blocked <=> t = consumer \/ elem_find(waiters, t)

IoqInv == SchedInv /\ TypeOK /\ SleepInv

\* A prefix has been handled exactly while the second byte of its scan code
\* is to come.
WireInv ==
  /\ held \subseteq Keys
  /\ wire = <<>> \/ \E k \in Keys, up \in BOOLEAN : wire = <<[code |-> k.code, up |-> up]>>
  /\ ext_scan_code \in BOOLEAN
  /\ ext_scan_code <=> wire # <<>>

\* A modifier's flag is set only while a key of its kind is down, or the end
\* of that key's break code is still to come; the end of a make code finds
\* its key down.
ModInv(flag, code) ==
  /\ flag \in BOOLEAN
  /\ flag => \/ Down({code})
             \/ wire # <<>> /\ Head(wire) = [code |-> code, up |-> TRUE]
  /\ wire # <<>> /\ Head(wire) = [code |-> code, up |-> FALSE] => Down({code})

\* A shift key that counts has no prefix: no byte of it is ever to come.
ShiftInv ==
  /\ shift_status \in BOOLEAN
  /\ shift_status => \E k \in held : ~k.ext /\ k.code \in ShiftCodes

KeyInv ==
  /\ WireInv
  /\ ModInv(ctrl_status, "ctrl")
  /\ ModInv(alt_status, "alt")
  /\ ShiftInv
  /\ caps_lock_status \in BOOLEAN

----------------------------------------------------------------------------
(***************************************************************************)
(* The queue's readers.                                                    *)
(***************************************************************************)

\* The initial state satisfies the invariant of the queue.
LEMMA InitIoq == io_queue_init => IoqInv
<1> SUFFICES ASSUME io_queue_init PROVE IoqInv
  OBVIOUS
<1> USE SchedAssumption, NullAssumption, IoqAssumption
<1>1. cur \in All /\ cur # Idle /\ Idle \in All /\ Threads \subseteq All
  BY DEF io_queue_init, All
<1>2. IsFiniteSet(All \ {cur})
  BY FS_AddElement, FS_RemoveElement DEF All
<1>3. /\ ready \in Seq(All)
      /\ NoDup(ready)
      /\ \A t \in All : elem_find(ready, t) <=> t # cur
  <2>1. /\ ready \in Seq(All \ {cur})
        /\ NoDup(ready)
        /\ \A x : elem_find(ready, x) <=> x \in All \ {cur}
    BY <1>2, OrdersMembers DEF io_queue_init
  <2> QED BY <2>1
<1>4. status \in [All -> Status] /\ \A t \in All : status[t] = IF t = cur THEN "RUNNING" ELSE "READY"
  BY <1>1 DEF io_queue_init, Status
<1>5. SchedInv
  BY <1>1, <1>3, <1>4 DEF io_queue_init, SchedInv, SchedTypeOK, ReadyListExact, IdleParked, NoPanic
<1>6. pc \in [Threads -> PC] /\ \A t \in Threads : pc[t] = "user"
  BY DEF io_queue_init, PC
<1>7. TypeOK
  BY <1>6 DEF io_queue_init, TypeOK, Positions
<1>8. waiters = <<>> /\ NoDup(waiters) /\ \A t : ~elem_find(waiters, t)
  BY DEF io_queue_init, elem_find, NoDup
<1>9. SleepInv
  BY <1>1, <1>4, <1>6, <1>8 DEF io_queue_init, SleepInv, Blocked, All
<1> QED BY <1>5, <1>7, <1>9 DEF IoqInv

\* What every step may use of the invariant.
LEMMA IoqFacts ==
  ASSUME IoqInv
  PROVE  /\ SchedInv /\ Threads \subseteq All /\ NULL \notin Threads /\ panic = FALSE
         /\ status[cur] = "RUNNING" /\ cur \in All
         /\ pc \in [Threads -> PC]
         /\ waiters \in Seq(Threads)
         /\ cur \in Threads => cur # consumer /\ ~elem_find(waiters, cur)
<1> USE SchedAssumption, NullAssumption
<1>1. /\ SchedInv /\ Threads \subseteq All /\ NULL \notin Threads /\ panic = FALSE
      /\ status[cur] = "RUNNING" /\ cur \in All
  BY DEF IoqInv, SchedInv, SchedTypeOK, ReadyListExact, NoPanic, All
<1>2. pc \in [Threads -> PC] /\ waiters \in Seq(Threads)
  BY DEF IoqInv, TypeOK
<1>3. cur \in Threads => cur # consumer /\ ~elem_find(waiters, cur)
  BY <1>1 DEF IoqInv, SleepInv, Blocked
<1> QED BY <1>1, <1>2, <1>3

\* A step of a reader that leaves the scheduler, the lock and the recorded
\* sleeper alone, outside lock_acquire and ioq_wait.
LEMMA QuietReader ==
  ASSUME IoqInv, NEW t \in Threads, pc[t] \notin {"lock", "asleep"},
         NEW l \in PC \ {"asleep"}, goto(t, l),
         UNCHANGED <<schedVars, mutexVars, consumer>>
  PROVE  SchedInv' /\ SleepInv' /\ pc' \in [Threads -> PC]
<1>1. pc' = [pc EXCEPT ![t] = l] /\ pc \in [Threads -> PC]
  BY IoqFacts DEF goto
<1>2. SchedInv'
  BY DEF IoqInv, SchedInv, SchedTypeOK, ReadyListExact, IdleParked, NoPanic, schedVars
<1>3. SleepInv'
  BY <1>1 DEF IoqInv, SleepInv, schedVars, mutexVars
<1> QED BY <1>1, <1>2, <1>3

\* Threads that go on waiting, or on not waiting, keep the readers' invariant.
LEMMA OnlySwitched ==
  ASSUME IoqInv, UNCHANGED <<mutexVars, consumer, pc>>,
         \A t \in Threads : \/ status'[t] = status[t]
                            \/ {status[t], status'[t]} \subseteq {"READY", "RUNNING"}
  PROVE  SleepInv'
BY DEF IoqInv, SleepInv, Blocked, mutexVars

\* lock_acquire's wait.
LEMMA WaitForLockKeepsInv ==
  ASSUME IoqInv, NEW t \in Threads, WaitForLock(t)
  PROVE  IoqInv'
<1>1. /\ cur = t /\ pc[t] = "lock"
      /\ waiters' = list_append(waiters, t)
      /\ thread_block("BLOCKED", ~elem_find(waiters, t))
      /\ UNCHANGED <<holder, ring, consumer, pc>>
  BY DEF WaitForLock, lock_wait, at
<1>2. ~elem_find(waiters, t) /\ t # consumer
  BY <1>1, IoqFacts
<1>3. /\ SchedInv'
      /\ status'[t] = "BLOCKED"
      /\ \A u \in Threads \ {t} :
           \/ status'[u] = status[u]
           \/ {status[u], status'[u]} \subseteq {"READY", "RUNNING"}
  BY <1>1, <1>2, IoqFacts, BlockKeepsInv, SchedAssumption DEF Blocked
<1>4. /\ waiters' \in Seq(Threads)
      /\ \A x : elem_find(waiters', x) <=> elem_find(waiters, x) \/ x = t
      /\ NoDup(waiters')
  BY <1>1, <1>2, IoqFacts, AppendMembers DEF IoqInv, SleepInv
<1>5. SleepInv'
  BY <1>1, <1>3, <1>4 DEF IoqInv, SleepInv, Blocked
<1>6. TypeOK'
  BY <1>1, <1>4 DEF IoqInv, TypeOK, ring
<1> QED BY <1>3, <1>5, <1>6 DEF IoqInv

\* ioq_wait: nobody else is recorded, as nobody else has the lock.
LEMMA WaitKeepsInv ==
  ASSUME IoqInv, NEW t \in Threads, ioq_wait(t)
  PROVE  IoqInv'
<1>1. /\ cur = t /\ pc[t] = "lock" /\ holder = NULL
      /\ holder' = t /\ consumer' = t /\ pc' = [pc EXCEPT ![t] = "asleep"]
      /\ thread_block("BLOCKED", consumer = NULL)
      /\ UNCHANGED <<waiters, ring>>
  BY DEF ioq_wait, lock_take, at, goto
<1>2. consumer = NULL /\ ~elem_find(waiters, t) /\ \A u \in Threads : pc[u] # "asleep"
  BY <1>1, IoqFacts DEF IoqInv, SleepInv, TypeOK
<1>3. /\ SchedInv'
      /\ status'[t] = "BLOCKED"
      /\ \A u \in Threads \ {t} :
           \/ status'[u] = status[u]
           \/ {status[u], status'[u]} \subseteq {"READY", "RUNNING"}
  BY <1>1, <1>2, IoqFacts, BlockKeepsInv, SchedAssumption DEF Blocked
<1>4. TypeOK'
  BY <1>1, IoqFacts DEF IoqInv, TypeOK, ring, PC
<1>5. SleepInv'
  BY <1>1, <1>2, <1>3, IoqFacts DEF IoqInv, SleepInv, Blocked
<1> QED BY <1>3, <1>4, <1>5 DEF IoqInv

\* The woken reader gives the lock to the first thread in its queue.
LEMMA WokenKeepsInv ==
  ASSUME IoqInv, NEW t \in Threads, Woken(t)
  PROVE  IoqInv'
<1>1. /\ cur = t /\ pc[t] = "asleep" /\ pc' = [pc EXCEPT ![t] = "test"]
      /\ holder' = NULL /\ lock_release
      /\ UNCHANGED <<ring, consumer>>
  BY DEF Woken, lock_release, at, goto
<1>2. holder = t /\ consumer = NULL /\ \A u \in Threads : pc[u] = "asleep" => u = t
  BY <1>1, IoqFacts DEF IoqInv, SleepInv, TypeOK
<1>3. CASE waiters = <<>>
  <2>1. UNCHANGED <<schedVars, waiters>>
    BY <1>1, <1>2, <1>3, IoqFacts DEF lock_release, schedVars
  <2>2. SchedInv'
    BY <2>1 DEF IoqInv, SchedInv, SchedTypeOK, ReadyListExact, IdleParked, NoPanic, schedVars
  <2>3. TypeOK'
    BY <1>1, <2>1, IoqFacts DEF IoqInv, TypeOK, ring, PC
  <2>4. SleepInv'
    BY <1>1, <1>2, <2>1, IoqFacts DEF IoqInv, SleepInv, schedVars
  <2> QED BY <2>2, <2>3, <2>4 DEF IoqInv
<1>4. CASE waiters # <<>>
  <2> DEFINE w == Head(waiters)
  <2>1. thread_unblock(w, holder = cur) /\ waiters' = Tail(waiters)
    BY <1>1, <1>4 DEF lock_release
  <2>2. /\ w \in Threads /\ elem_find(waiters, w)
        /\ waiters' \in Seq(Threads) /\ NoDup(waiters')
        /\ \A x : elem_find(waiters', x) <=> elem_find(waiters, x) /\ x # w
    BY <1>4, <2>1, IoqFacts, PopMembers DEF IoqInv, SleepInv
  <2>3. status[w] \in Blocked
    BY <2>2 DEF IoqInv, SleepInv
  <2>4. SchedInv' /\ status' = [status EXCEPT ![w] = "READY"]
    <3> HIDE DEF w
    <3> QED BY <1>1, <1>2, <2>1, <2>2, <2>3, IoqFacts, UnblockKeepsInv
  <2>5. TypeOK'
    BY <1>1, <2>2, IoqFacts DEF IoqInv, TypeOK, ring, PC
  <2>6. SleepInv'
    <3> HIDE DEF w
    <3>1. \A u \in Threads : status'[u] \in Blocked <=> status[u] \in Blocked /\ u # w
      BY <2>2, <2>4, IoqFacts DEF SchedInv, SchedTypeOK, Blocked
    <3> QED BY <1>1, <1>2, <2>2, <3>1, IoqFacts DEF IoqInv, SleepInv
  <2> QED BY <2>4, <2>5, <2>6 DEF IoqInv
<1> QED BY <1>3, <1>4

\* Every step of a reader keeps the invariant of the queue.
LEMMA ReaderKeepsInv ==
  ASSUME IoqInv, NEW t \in Threads, Call(t) \/ Run(t)
  PROVE  IoqInv'
<1>1. CASE Call(t) \/ MustWait(t)
  <2>1. PICK l \in {"test", "lock"} :
          /\ pc[t] \in {"user", "test"} /\ goto(t, l)
          /\ UNCHANGED <<schedVars, mutexVars, ring, consumer>>
    BY <1>1 DEF Call, MustWait, at
  <2>2. SchedInv' /\ SleepInv' /\ pc' \in [Threads -> PC]
    BY <2>1, QuietReader DEF PC
  <2> QED BY <2>1, <2>2 DEF IoqInv, TypeOK, ring, mutexVars
<1>2. CASE WaitForLock(t)
  BY <1>2, WaitForLockKeepsInv
<1>3. CASE ioq_wait(t)
  BY <1>3, WaitKeepsInv
<1>4. CASE Woken(t)
  BY <1>4, WokenKeepsInv
<1>5. CASE ioq_getchar(t)
  <2>1. /\ pc[t] = "test" /\ goto(t, "user")
        /\ got' = buf[tail] /\ tail' = next_pos(tail)
        /\ UNCHANGED <<schedVars, buf, head, consumer, mutexVars>>
    BY <1>5 DEF ioq_getchar, at
  <2>2. SchedInv' /\ SleepInv' /\ pc' \in [Threads -> PC]
    BY <2>1, QuietReader DEF PC
  <2>3. next_pos(tail) \in Positions /\ buf[tail] \in Chars
    BY IoqAssumption DEF IoqInv, TypeOK, Positions, next_pos
  <2> QED BY <2>1, <2>2, <2>3 DEF IoqInv, TypeOK, mutexVars
<1> QED BY <1>1, <1>2, <1>3, <1>4, <1>5 DEF Run

\* ioq_putchar wakes the recorded sleeper, who has the lock.
LEMMA PutKeepsInv ==
  ASSUME IoqInv, NEW c \in Chars, ioq_putchar(c), UNCHANGED pc
  PROVE  IoqInv'
<1>1. /\ buf' = [buf EXCEPT ![head] = c] /\ head' = next_pos(head)
      /\ consumer' = NULL /\ ioq_wakeup(consumer, TRUE)
      /\ UNCHANGED <<tail, got, mutexVars, pc>>
  BY DEF ioq_putchar
<1>2. TypeOK'
  BY <1>1, IoqAssumption DEF IoqInv, TypeOK, Positions, next_pos, mutexVars
<1>3. CASE consumer = NULL
  <2>1. UNCHANGED schedVars
    BY <1>1, <1>3, IoqFacts DEF ioq_wakeup, schedVars
  <2>2. SchedInv'
    BY <2>1 DEF IoqInv, SchedInv, SchedTypeOK, ReadyListExact, IdleParked, NoPanic, schedVars
  <2>3. SleepInv'
    BY <1>1, <1>3, <2>1, IoqFacts DEF IoqInv, SleepInv, schedVars, mutexVars
  <2> QED BY <1>2, <2>2, <2>3 DEF IoqInv
<1>4. CASE consumer # NULL
  <2>1. /\ consumer \in Threads /\ status[consumer] \in Blocked
        /\ ~elem_find(waiters, consumer)
    BY <1>4 DEF IoqInv, TypeOK, SleepInv
  <2>2. thread_unblock(consumer, TRUE)
    BY <1>1, <1>4 DEF ioq_wakeup
  <2>3. SchedInv' /\ status' = [status EXCEPT ![consumer] = "READY"]
    BY <2>1, <2>2, IoqFacts, UnblockKeepsInv
  <2>4. \A u \in Threads : status'[u] \in Blocked <=> status[u] \in Blocked /\ u # consumer
    BY <2>1, <2>3, IoqFacts DEF SchedInv, SchedTypeOK, Blocked
  <2>5. SleepInv'
    BY <1>1, <2>1, <2>4, IoqFacts DEF IoqInv, SleepInv, mutexVars
  <2> QED BY <1>2, <2>3, <2>5 DEF IoqInv
<1> QED BY <1>3, <1>4

----------------------------------------------------------------------------
(***************************************************************************)
(* The keys.                                                               *)
(***************************************************************************)

\* A prefix is remembered, and nothing else.
LEMMA PrefixFlags ==
  ASSUME intr_keyboard_handler(E0)
  PROVE  /\ ext_scan_code' = TRUE
         /\ UNCHANGED <<ctrl_status, shift_status, alt_status, caps_lock_status>>
<1>1. E0.code = "e0" /\ E0.up = FALSE
  BY DEF E0
<1>2. Prefix(E0) \/ Break(E0) \/ MakeChar(E0) \/ MakeOther(E0)
  BY DEF intr_keyboard_handler
<1>3. ~Break(E0) /\ ~MakeChar(E0) /\ ~MakeOther(E0)
  BY <1>1, KeyAssumption DEF Break, MakeChar, MakeOther
<1> QED BY <1>2, <1>3 DEF Prefix

\* The last byte of a scan code clears the prefix, and only the code of a
\* modifier changes a flag.
LEMMA LastByteFlags ==
  ASSUME NEW c, c # "e0", NEW up \in BOOLEAN,
         ctrl_status \in BOOLEAN, shift_status \in BOOLEAN, alt_status \in BOOLEAN,
         caps_lock_status \in BOOLEAN,
         intr_keyboard_handler([code |-> c, up |-> up])
  PROVE  /\ ext_scan_code' = FALSE
         /\ ctrl_status' = IF up THEN ctrl_status /\ c # "ctrl" ELSE ctrl_status \/ c = "ctrl"
         /\ alt_status' = IF up THEN alt_status /\ c # "alt" ELSE alt_status \/ c = "alt"
         /\ shift_status' = IF up THEN shift_status /\ ~IsShift(c)
                                  ELSE shift_status \/ IsShift(c)
         /\ caps_lock_status' \in BOOLEAN
<1> DEFINE b == [code |-> c, up |-> up]
<1>1. b.code = c /\ b.up = up /\ b # E0
  BY DEF E0
<1>2. Prefix(b) \/ Break(b) \/ MakeChar(b) \/ MakeOther(b)
  BY DEF intr_keyboard_handler
<1> HIDE DEF b
<1>3. CASE Prefix(b)
  BY <1>1, <1>3 DEF Prefix
<1>4. CASE Break(b)
  BY <1>1, <1>4 DEF Break, ext_cleared
<1>5. CASE MakeChar(b)
  <2>1. c \notin ModCodes /\ ~up /\ ext_scan_code' = FALSE
    BY <1>1, <1>5, KeyAssumption DEF MakeChar, ext_cleared
  <2>2. UNCHANGED <<ctrl_status, shift_status, alt_status, caps_lock_status>>
    BY <1>5 DEF MakeChar
  <2> QED BY <2>1, <2>2 DEF IsShift, ModCodes, ShiftCodes
<1>6. CASE MakeOther(b)
  BY <1>1, <1>6 DEF MakeOther, ext_cleared
<1> QED BY <1>2, <1>3, <1>4, <1>5, <1>6

\* A key goes down.
LEMMA PressKeepsKeys ==
  ASSUME KeyInv, NEW k \in Keys, Press(k)
  PROVE  KeyInv'
<1> USE KeyAssumption
<1> DEFINE last == [code |-> k.code, up |-> FALSE]
<1>1. /\ wire = <<>> /\ wire' = IF k.ext THEN <<last>> ELSE <<>>
      /\ intr_keyboard_handler(IF k.ext THEN E0 ELSE last)
      /\ held' = IF k.code \in ModCodes THEN held \cup {k} ELSE held
  BY DEF Press, Send
<1>2. k.code # "e0"
  OBVIOUS
<1>3. /\ ctrl_status \in BOOLEAN /\ shift_status \in BOOLEAN /\ alt_status \in BOOLEAN
      /\ caps_lock_status \in BOOLEAN /\ ~ext_scan_code /\ k.ext \in BOOLEAN
      /\ held \subseteq Keys
  BY <1>1 DEF KeyInv, ModInv, ShiftInv, WireInv
<1>4. CASE k.ext
  <2>1. /\ ext_scan_code'
        /\ UNCHANGED <<ctrl_status, shift_status, alt_status, caps_lock_status>>
    <3>1. intr_keyboard_handler(E0)
      BY <1>1, <1>4
    <3> QED BY <3>1, PrefixFlags
  <2>2. wire' = <<last>> /\ wire' # <<>> /\ Head(wire') = last
    <3> HIDE DEF last
    <3> QED BY <1>1, <1>4
  <2>3. WireInv'
    <3>1. \E j \in Keys, up \in BOOLEAN : wire' = <<[code |-> j.code, up |-> up]>>
      BY <2>2
    <3>2. ext_scan_code' \in BOOLEAN
      BY <1>1, <1>4 DEF intr_keyboard_handler, Prefix, Break, MakeChar, MakeOther, ext_cleared
    <3> QED BY <1>1, <1>3, <2>1, <2>2, <3>1, <3>2 DEF WireInv
  <2>4. ShiftInv'
    BY <1>1, <2>1 DEF KeyInv, ShiftInv
  <2>5. ASSUME NEW c \in {"ctrl", "alt"}, NEW flag \in BOOLEAN, flag => Down({c})
        PROVE  /\ flag => Down({c})'
               /\ Head(wire') = [code |-> c, up |-> FALSE] => Down({c})'
    <3>1. Down({c}) => Down({c})'
      BY <1>1 DEF Down
    <3>2. Head(wire') = [code |-> c, up |-> FALSE] => k.code = c
      BY <2>2
    <3>3. k.code = c => Down({c})'
      BY <1>1 DEF Down, ModCodes
    <3> QED BY <2>5, <3>1, <3>2, <3>3
  <2>6. (ctrl_status => Down({"ctrl"})) /\ (alt_status => Down({"alt"}))
    BY <1>1 DEF KeyInv, ModInv
  <2>7. ModInv(ctrl_status, "ctrl")' /\ ModInv(alt_status, "alt")'
    BY <1>3, <2>1, <2>5, <2>6 DEF ModInv
  <2> QED BY <1>3, <2>1, <2>3, <2>4, <2>7 DEF KeyInv
<1>5. CASE ~k.ext
  <2>1. /\ ext_scan_code' = FALSE
        /\ ctrl_status' = (ctrl_status \/ k.code = "ctrl")
        /\ alt_status' = (alt_status \/ k.code = "alt")
        /\ shift_status' = (shift_status \/ k.code \in ShiftCodes)
        /\ caps_lock_status' \in BOOLEAN
    <3>1. intr_keyboard_handler(last)
      BY <1>1, <1>5
    <3> QED BY <1>2, <1>3, <3>1, LastByteFlags DEF IsShift
  <2>2. wire' = <<>>
    BY <1>1, <1>5
  <2>3. WireInv'
    BY <1>1, <1>3, <2>1, <2>2 DEF WireInv
  <2>4. ShiftInv'
    BY <1>1, <1>5, <2>1 DEF KeyInv, ShiftInv, ModCodes
  <2>5. (ctrl_status => Down({"ctrl"})) /\ (alt_status => Down({"alt"}))
    BY <1>1 DEF KeyInv, ModInv
  <2>6. ModInv(ctrl_status, "ctrl")' /\ ModInv(alt_status, "alt")'
    BY <1>1, <2>1, <2>2, <2>5 DEF ModInv, Down, ModCodes
  <2> QED BY <2>1, <2>3, <2>4, <2>6 DEF KeyInv
<1> QED BY <1>3, <1>4, <1>5

\* A key goes up.
LEMMA ReleaseKeepsKeys ==
  ASSUME KeyInv, NEW k \in Keys, Release(k)
  PROVE  KeyInv'
<1> USE KeyAssumption
<1> DEFINE last == [code |-> k.code, up |-> TRUE]
<1>1. /\ wire = <<>> /\ wire' = IF k.ext THEN <<last>> ELSE <<>>
      /\ intr_keyboard_handler(IF k.ext THEN E0 ELSE last)
      /\ held' = held \ {k}
  BY DEF Release, Send
<1>2. k.code # "e0"
  OBVIOUS
<1>3. /\ ctrl_status \in BOOLEAN /\ shift_status \in BOOLEAN /\ alt_status \in BOOLEAN
      /\ caps_lock_status \in BOOLEAN /\ ~ext_scan_code /\ k.ext \in BOOLEAN
      /\ held \subseteq Keys
  BY <1>1 DEF KeyInv, ModInv, ShiftInv, WireInv
<1>4. CASE k.ext
  <2>1. /\ ext_scan_code'
        /\ UNCHANGED <<ctrl_status, shift_status, alt_status, caps_lock_status>>
    <3>1. intr_keyboard_handler(E0)
      BY <1>1, <1>4
    <3> QED BY <3>1, PrefixFlags
  <2>2. wire' = <<last>> /\ wire' # <<>> /\ Head(wire') = last
    <3> HIDE DEF last
    <3> QED BY <1>1, <1>4
  <2>3. WireInv'
    <3>1. \E j \in Keys, up \in BOOLEAN : wire' = <<[code |-> j.code, up |-> up]>>
      BY <2>2
    <3>2. ext_scan_code' \in BOOLEAN
      BY <1>1, <1>4 DEF intr_keyboard_handler, Prefix, Break, MakeChar, MakeOther, ext_cleared
    <3> QED BY <1>1, <1>3, <2>1, <2>2, <3>1, <3>2 DEF WireInv
  <2>4. ShiftInv'
    BY <1>1, <1>4, <2>1 DEF KeyInv, ShiftInv
  <2>5. ASSUME NEW c, NEW flag \in BOOLEAN, flag => Down({c})
        PROVE  /\ flag => Down({c})' \/ Head(wire') = [code |-> c, up |-> TRUE]
               /\ Head(wire') # [code |-> c, up |-> FALSE]
    <3>1. Down({c}) => Down({c})' \/ k.code = c
      BY <1>1 DEF Down
    <3>2. k.code = c => Head(wire') = [code |-> c, up |-> TRUE]
      BY <2>2
    <3>3. Head(wire').up = TRUE /\ [code |-> c, up |-> FALSE].up = FALSE
      BY <2>2
    <3> QED BY <2>5, <3>1, <3>2, <3>3
  <2>6. (ctrl_status => Down({"ctrl"})) /\ (alt_status => Down({"alt"}))
    BY <1>1 DEF KeyInv, ModInv
  <2>7. ModInv(ctrl_status, "ctrl")' /\ ModInv(alt_status, "alt")'
    BY <1>3, <2>1, <2>2, <2>5, <2>6 DEF ModInv
  <2> QED BY <1>3, <2>1, <2>3, <2>4, <2>7 DEF KeyInv
<1>5. CASE ~k.ext
  <2>1. /\ ext_scan_code' = FALSE
        /\ ctrl_status' = (ctrl_status /\ k.code # "ctrl")
        /\ alt_status' = (alt_status /\ k.code # "alt")
        /\ shift_status' = (shift_status /\ k.code \notin ShiftCodes)
        /\ caps_lock_status' \in BOOLEAN
    <3>1. intr_keyboard_handler(last)
      BY <1>1, <1>5
    <3> QED BY <1>2, <1>3, <3>1, LastByteFlags DEF IsShift
  <2>2. wire' = <<>>
    BY <1>1, <1>5
  <2>3. WireInv'
    BY <1>1, <1>3, <2>1, <2>2 DEF WireInv
  <2>4. ShiftInv'
    BY <1>1, <1>5, <2>1 DEF KeyInv, ShiftInv
  <2>5. (ctrl_status => Down({"ctrl"})) /\ (alt_status => Down({"alt"}))
    BY <1>1 DEF KeyInv, ModInv
  <2>6. ModInv(ctrl_status, "ctrl")' /\ ModInv(alt_status, "alt")'
    BY <1>1, <2>1, <2>2, <2>5 DEF ModInv, Down
  <2> QED BY <2>1, <2>3, <2>4, <2>6 DEF KeyInv
<1> QED BY <1>3, <1>4, <1>5

\* The second byte of a scan code ends it.
LEMMA SecondByteKeepsKeys ==
  ASSUME KeyInv, SecondByte
  PROVE  KeyInv'
<1> USE KeyAssumption
<1>1. /\ wire # <<>> /\ intr_keyboard_handler(Head(wire))
      /\ wire' = Tail(wire) /\ held' = held
  BY DEF SecondByte
<1>2. PICK k \in Keys, up \in BOOLEAN : wire = <<[code |-> k.code, up |-> up]>>
  BY <1>1 DEF KeyInv, WireInv
<1> DEFINE b == [code |-> k.code, up |-> up]
<1>3. Head(wire) = b /\ wire' = <<>>
  BY <1>1, <1>2
<1>4. b.code = k.code /\ b.up = up /\ k.code # "e0"
  OBVIOUS
<1>5. /\ ctrl_status \in BOOLEAN /\ shift_status \in BOOLEAN /\ alt_status \in BOOLEAN
      /\ caps_lock_status \in BOOLEAN /\ ext_scan_code /\ held \subseteq Keys
  BY <1>1 DEF KeyInv, ModInv, ShiftInv, WireInv
<1>6. /\ ext_scan_code' = FALSE
      /\ ctrl_status' = IF up THEN ctrl_status /\ k.code # "ctrl"
                              ELSE ctrl_status \/ k.code = "ctrl"
      /\ alt_status' = IF up THEN alt_status /\ k.code # "alt"
                             ELSE alt_status \/ k.code = "alt"
      /\ shift_status' = shift_status
      /\ caps_lock_status' \in BOOLEAN
  <2>1. intr_keyboard_handler(b)
    BY <1>1, <1>3
  <2> QED BY <1>4, <1>5, <2>1, LastByteFlags DEF IsShift
<1>7. WireInv'
  BY <1>1, <1>3, <1>5, <1>6 DEF WireInv
<1>8. ShiftInv'
  BY <1>1, <1>6 DEF KeyInv, ShiftInv
<1>9. ASSUME NEW c, NEW flag \in BOOLEAN, NEW new,
             flag => Down({c}) \/ b = [code |-> c, up |-> TRUE],
             b = [code |-> c, up |-> FALSE] => Down({c}),
             new = IF up THEN flag /\ k.code # c ELSE flag \/ k.code = c
      PROVE  new \in BOOLEAN /\ (new => Down({c})')
  <2>1. Down({c})' <=> Down({c})
    BY <1>1 DEF Down
  <2>2. CASE up
    BY <1>4, <1>9, <2>1, <2>2
  <2>3. CASE ~up
    <3>1. k.code = c => b = [code |-> c, up |-> FALSE]
      BY <2>3
    <3>2. b # [code |-> c, up |-> TRUE]
      BY <1>4, <2>3
    <3> QED BY <1>9, <2>1, <2>3, <3>1, <3>2
  <2> QED BY <2>2, <2>3
<1>10. /\ ctrl_status => Down({"ctrl"}) \/ b = [code |-> "ctrl", up |-> TRUE]
       /\ b = [code |-> "ctrl", up |-> FALSE] => Down({"ctrl"})
       /\ alt_status => Down({"alt"}) \/ b = [code |-> "alt", up |-> TRUE]
       /\ b = [code |-> "alt", up |-> FALSE] => Down({"alt"})
  BY <1>1, <1>3 DEF KeyInv, ModInv
<1>11. ctrl_status' \in BOOLEAN /\ (ctrl_status' => Down({"ctrl"})')
  <2> HIDE DEF b
  <2> QED BY <1>5, <1>6, <1>9, <1>10
<1>12. alt_status' \in BOOLEAN /\ (alt_status' => Down({"alt"})')
  <2> HIDE DEF b
  <2> QED BY <1>5, <1>6, <1>9, <1>10
<1>13. ModInv(ctrl_status, "ctrl")' /\ ModInv(alt_status, "alt")'
  BY <1>3, <1>11, <1>12 DEF ModInv
<1> QED BY <1>6, <1>7, <1>8, <1>13 DEF KeyInv

----------------------------------------------------------------------------
(***************************************************************************)
(* The keyboard and the queue together.                                    *)
(***************************************************************************)
IInv == IoqInv /\ KeyInv

\* The handler puts at most one character into the queue.
LEMMA HandlerPuts ==
  ASSUME IInv, NEW b, intr_keyboard_handler(b)
  PROVE  \/ UNCHANGED ioqVars
         \/ UNCHANGED pc /\ ~ioq_full /\ \E c \in Chars : ioq_putchar(c)
<1>1. CASE Prefix(b) \/ Break(b) \/ MakeOther(b)
  BY <1>1 DEF intr_keyboard_handler, Prefix, Break, MakeOther, ioqVars
<1>2. CASE MakeChar(b) /\ ioq_full
  BY <1>2 DEF intr_keyboard_handler, MakeChar, ioqVars
<1>3. CASE MakeChar(b) /\ ~ioq_full
  <2>1. shift_status \in BOOLEAN /\ caps_lock_status \in BOOLEAN
    BY DEF IInv, KeyInv, ShiftInv
  <2>2. b.code \in Letters \cup Pairs /\ ioq_putchar(Keymap[b.code][shift(b.code)]) /\ UNCHANGED pc
    BY <1>3 DEF MakeChar, intr_keyboard_handler
  <2>3. shift(b.code) \in BOOLEAN
    BY <2>1 DEF shift
  <2>4. Keymap[b.code][shift(b.code)] \in Chars
    BY <2>2, <2>3, KeyAssumption
  <2> QED BY <1>3, <2>2, <2>4
<1> QED BY <1>1, <1>2, <1>3 DEF intr_keyboard_handler

\* A step that does not touch the queue and the scheduler.
LEMMA SameQueue == IoqInv /\ UNCHANGED ioqVars => IoqInv'
BY DEF IoqInv, SchedInv, SchedTypeOK, ReadyListExact, IdleParked, NoPanic, TypeOK,
       SleepInv, ioqVars, schedVars, mutexVars, ring

\* A step that does not touch the keys and the flags.
LEMMA SameKeys == KeyInv /\ UNCHANGED <<user, flags>> => KeyInv'
BY DEF KeyInv, WireInv, ModInv, ShiftInv, Down, user, flags

\* The initial state satisfies the inductive invariant.
LEMMA InitIInv == Init => IInv
<1> SUFFICES ASSUME Init PROVE IInv
  OBVIOUS
<1>1. IoqInv
  BY InitIoq DEF Init
<1>2. KeyInv
  BY DEF Init, KeyInv, WireInv, ModInv, ShiftInv
<1> QED BY <1>1, <1>2 DEF IInv

\* Every step preserves the inductive invariant.
LEMMA NextIInv == IInv /\ [Next]_vars => IInv'
<1> SUFFICES ASSUME IInv, [Next]_vars PROVE IInv'
  OBVIOUS
<1>1. ASSUME NEW t \in Threads, Call(t) \/ Run(t), UNCHANGED <<user, flags>> PROVE IInv'
  BY <1>1, ReaderKeepsInv, SameKeys DEF IInv
<1>2. ASSUME NEW b, intr_keyboard_handler(b) PROVE IoqInv'
  BY <1>2, HandlerPuts, PutKeepsInv, SameQueue DEF IInv
<1>3. ASSUME NEW k \in Keys, Press(k) \/ Release(k) PROVE IInv'
  <2>1. \E b : intr_keyboard_handler(b)
    BY <1>3 DEF Press, Release, Send
  <2> QED BY <1>2, <1>3, <2>1, PressKeepsKeys, ReleaseKeepsKeys DEF IInv
<1>4. ASSUME SecondByte PROVE IInv'
  <2>1. \E b : intr_keyboard_handler(b)
    BY <1>4 DEF SecondByte
  <2> QED BY <1>2, <1>4, <2>1, SecondByteKeepsKeys DEF IInv
<1>5. ASSUME idle \/ Timer, UNCHANGED <<user, flags>> PROVE IInv'
  <2>1. /\ (cur = Idle /\ thread_block("BLOCKED", TRUE)) \/ intr_timer_handler
        /\ UNCHANGED <<ring, consumer, mutexVars, pc>>
    BY <1>5 DEF idle, Timer
  <2>2. /\ SchedInv'
        /\ \A t \in Threads : \/ status'[t] = status[t]
                               \/ {status[t], status'[t]} \subseteq {"READY", "RUNNING"}
    <3>1. CASE cur = Idle /\ thread_block("BLOCKED", TRUE)
      BY <3>1, IoqFacts, BlockKeepsInv, SchedAssumption DEF IInv, Blocked
    <3>2. CASE intr_timer_handler
      BY <3>2, IoqFacts, TimerKeepsInv DEF IInv
    <3> QED BY <2>1, <3>1, <3>2
  <2>3. SleepInv'
    BY <2>1, <2>2, OnlySwitched DEF IInv
  <2>4. TypeOK'
    BY <2>1 DEF IInv, IoqInv, TypeOK, ring, mutexVars
  <2> QED BY <1>5, <2>2, <2>3, <2>4, SameKeys DEF IInv, IoqInv
<1>6. ASSUME UNCHANGED vars PROVE IInv'
  BY <1>6, SameQueue, SameKeys DEF IInv, vars
<1> QED BY <1>1, <1>3, <1>4, <1>5, <1>6 DEF Next

\* The inductive invariant holds in every reachable state.
THEOREM SpecIInv == Spec => []IInv
BY InitIInv, NextIInv, PTL DEF Spec

\* Types of the keyboard's and the queue's variables: the indices of the ring
\* never leave it, and only readers are recorded or queued.
THEOREM KeyboardTypeCorrect == Spec => [](SchedTypeOK /\ TypeOK)
<1>1. IInv => SchedTypeOK /\ TypeOK
  BY DEF IInv, IoqInv, SchedInv
<1> QED BY <1>1, SpecIInv, PTL

\* Of any number of readers exactly the recorded one and those in the lock's
\* queue sleep, and no assertion of ioq_wait, ioq_wakeup, thread_unblock or
\* the lists fails.
THEOREM ReadersSleepExactly == Spec => []SleepersExact
<1>1. IInv => SleepersExact
  BY DEF IInv, IoqInv, SleepInv, SchedInv, NoPanic, SleepersExact
<1> QED BY <1>1, SpecIInv, PTL

\* For any set of keys and any order of presses, repeats and releases the
\* handler's flags agree with the keys between two scan codes.
THEOREM KeysStayInStep == Spec => []KeysInStep
<1>1. IInv => KeysInStep
  <2> SUFFICES ASSUME IInv, wire = <<>> PROVE KeysInStep
    BY DEF KeysInStep
  <2>1. ~ext_scan_code /\ (ctrl_status => Down({"ctrl"})) /\ (alt_status => Down({"alt"}))
    BY DEF IInv, KeyInv, WireInv, ModInv
  <2>2. shift_status => Down(ShiftCodes)
    BY DEF IInv, KeyInv, ShiftInv, Down
  <2> QED BY <2>1, <2>2 DEF KeysInStep
<1> QED BY <1>1, SpecIInv, PTL

----------------------------------------------------------------------------
(***************************************************************************)
(* The ring implements the first-in first-out queue.                       *)
(***************************************************************************)

\* Remainders of the sums and differences of two positions.
LEMMA ModWrap ==
  ASSUME NEW n \in Nat \ {0}, NEW x \in Int
  PROVE  /\ x \in 0..n - 1 => x % n = x
         /\ x \in n..2 * n - 1 => x % n = x - n
         /\ x \in -n..-1 => x % n = x + n
OBVIOUS

\* How many positions of a ring with head h and tail t are in use, and the
\* i-th of them.
InUse(h, t) == (h - t) % BufSize
Place(t, i) == (t + i - 1) % BufSize

\* The three remainders the ring takes, without remainders.
LEMMA Remainders ==
  /\ \A h, t \in Positions : InUse(h, t) = IF h >= t THEN h - t ELSE h - t + BufSize
  /\ \A x \in Positions : next_pos(x) = IF x = BufSize - 1 THEN 0 ELSE x + 1
  /\ \A t \in Positions, i \in 1..BufSize :
       Place(t, i) = IF t + i - 1 < BufSize THEN t + i - 1 ELSE t + i - 1 - BufSize
<1> USE IoqAssumption DEF Positions
<1>1. ASSUME NEW h \in Positions, NEW t \in Positions
      PROVE  InUse(h, t) = IF h >= t THEN h - t ELSE h - t + BufSize
  BY ModWrap DEF InUse
<1>2. ASSUME NEW x \in Positions PROVE next_pos(x) = IF x = BufSize - 1 THEN 0 ELSE x + 1
  BY ModWrap DEF next_pos
<1>3. ASSUME NEW t \in Positions, NEW i \in 1..BufSize
      PROVE  Place(t, i) = IF t + i - 1 < BufSize THEN t + i - 1 ELSE t + i - 1 - BufSize
  <2>1. PICK x \in 0..2 * BufSize - 1 : x = t + i - 1
    OBVIOUS
  <2>2. x % BufSize = IF x < BufSize THEN x ELSE x - BufSize
    <3>1. BufSize \in Nat \ {0} /\ x \in Int /\ (x \in 0..BufSize - 1 \/ x \in BufSize..2 * BufSize - 1)
      OBVIOUS
    <3>2. /\ x \in 0..BufSize - 1 => x % BufSize = x
          /\ x \in BufSize..2 * BufSize - 1 => x % BufSize = x - BufSize
      BY <3>1, ModWrap
    <3> QED BY <3>1, <3>2
  <2> QED BY <2>1, <2>2 DEF Place
<1> QED BY <1>1, <1>2, <1>3

\* The positions in use do not include the head.
LEMMA RingUse ==
  ASSUME NEW h \in Positions, NEW t \in Positions
  PROVE  /\ InUse(h, t) \in Positions /\ InUse(h, t) \in Nat
         /\ InUse(h, t) = 0 <=> h = t
         /\ next_pos(h) \in Positions
         /\ \A i \in 1..InUse(h, t) : Place(t, i) \in Positions \ {h}
<1> USE IoqAssumption DEF Positions
<1>1. InUse(h, t) = IF h >= t THEN h - t ELSE h - t + BufSize
  BY Remainders
<1>2. next_pos(h) \in Positions
  BY Remainders
<1>3. \A i \in 1..InUse(h, t) : Place(t, i) \in Positions \ {h}
  BY <1>1, Remainders
<1> QED BY <1>1, <1>2, <1>3

\* When the tail moves along, the positions in use are the ones after the
\* first.
LEMMA RingGet ==
  ASSUME NEW h \in Positions, NEW t \in Positions, h # t,
         NEW u, u = next_pos(t), NEW n \in Nat, n = InUse(h, t)
  PROVE  /\ n >= 1 /\ InUse(h, u) = n - 1 /\ Place(t, 1) = t
         /\ \A i \in 1..n - 1 : Place(u, i) = Place(t, i + 1)
<1> USE IoqAssumption DEF Positions
<1>1. n = IF h >= t THEN h - t ELSE h - t + BufSize
  BY Remainders
<1>2. u \in Positions /\ u = IF t = BufSize - 1 THEN 0 ELSE t + 1
  BY Remainders
<1>3. InUse(h, u) = IF h >= u THEN h - u ELSE h - u + BufSize
  BY <1>2, Remainders
<1>4. n >= 1 /\ n < BufSize /\ InUse(h, u) = n - 1
  BY <1>1, <1>2, <1>3
<1>5. ASSUME NEW i \in 1..n - 1 PROVE Place(u, i) = Place(t, i + 1)
  <2>1. i \in 1..BufSize /\ i + 1 \in 1..BufSize
    BY <1>4
  <2>2. Place(u, i) = IF u + i - 1 < BufSize THEN u + i - 1 ELSE u + i - 1 - BufSize
    BY <1>2, <2>1, Remainders
  <2>3. Place(t, i + 1) = IF t + (i + 1) - 1 < BufSize THEN t + (i + 1) - 1
                          ELSE t + (i + 1) - 1 - BufSize
    BY <2>1, Remainders
  <2> QED BY <1>2, <2>1, <2>2, <2>3
<1>6. Place(t, 1) = t
  BY Remainders
<1> QED BY <1>4, <1>5, <1>6

\* When the head moves along, the position it was at is the new one in use.
LEMMA RingPut ==
  ASSUME NEW h \in Positions, NEW t \in Positions,
         NEW g, g = next_pos(h), g # t, NEW n \in Nat, n = InUse(h, t)
  PROVE  n < BufSize - 1 /\ InUse(g, t) = n + 1 /\ Place(t, n + 1) = h
<1> USE IoqAssumption DEF Positions
<1>1. n = IF h >= t THEN h - t ELSE h - t + BufSize
  BY Remainders
<1>2. g \in Positions /\ g = IF h = BufSize - 1 THEN 0 ELSE h + 1
  BY Remainders
<1>3. InUse(g, t) = IF g >= t THEN g - t ELSE g - t + BufSize
  BY <1>2, Remainders
<1>4. n < BufSize - 1 /\ InUse(g, t) = n + 1
  BY <1>1, <1>2, <1>3
<1>5. Place(t, n + 1) = h
  BY <1>1, <1>4, Remainders
<1> QED BY <1>4, <1>5

\* A function on 1..n is a sequence of length n.
LEMMA FunctionIsSeq ==
  ASSUME NEW S, NEW n \in Nat, NEW s \in [1..n -> S]
  PROVE  s \in Seq(S) /\ Len(s) = n
<1>1. s \in Seq(S)
  <2>1. Seq(S) = UNION {[1..m -> S] : m \in Nat}
    BY SeqDef, Zenon
  <2>2. [1..n -> S] \in {[1..m -> S] : m \in Nat}
    OBVIOUS
  <2> QED BY <2>1, <2>2, Zenon
<1>2. DOMAIN s = 1..n
  OBVIOUS
<1>3. PICK k \in Nat : k = Len(s) /\ DOMAIN s = 1..k
  BY <1>1, LenProperties
<1>4. \A i : i \in 1..k <=> i \in 1..n
  BY <1>2, <1>3, Zenon
<1>5. k = n
  <2>1. (k \in 1..k \/ k = 0) /\ (n \in 1..n \/ n = 0)
    OBVIOUS
  <2>2. (k \in 1..n \/ k = 0) /\ (n \in 1..k \/ n = 0)
    BY <1>4, <2>1
  <2> QED BY <2>2
<1> QED BY <1>1, <1>3, <1>5

\* The contents are a sequence of characters.
LEMMA ContentsSeq ==
  ASSUME NEW h \in Positions, NEW t \in Positions, NEW b \in [Positions -> Chars],
         NEW s, s = [i \in 1..InUse(h, t) |-> b[Place(t, i)]]
  PROVE  /\ s \in Seq(Chars)
         /\ Len(s) = InUse(h, t)
         /\ \A i \in 1..InUse(h, t) : s[i] = b[Place(t, i)]
<1>1. PICK n \in Nat : n = InUse(h, t)
  BY RingUse
<1>2. \A i \in 1..n : b[Place(t, i)] \in Chars
  BY <1>1, RingUse
<1>3. s = [i \in 1..n |-> b[Place(t, i)]]
  BY <1>1
<1>4. s \in [1..n -> Chars]
  BY <1>2, <1>3
<1>5. s \in Seq(Chars) /\ Len(s) = n
  BY <1>4, FunctionIsSeq
<1> QED BY <1>1, <1>3, <1>5

\* The characters in the ring.
LEMMA ContentsOf ==
  ASSUME TypeOK
  PROVE  /\ Contents \in Seq(Chars)
         /\ Len(Contents) = InUse(head, tail)
         /\ \A i \in 1..InUse(head, tail) : Contents[i] = buf[Place(tail, i)]
<1>1. Contents = [i \in 1..InUse(head, tail) |-> buf[Place(tail, i)]]
  BY DEF Contents, InUse, Place
<1> QED BY <1>1, ContentsSeq DEF TypeOK

\* The same after a step.
LEMMA ContentsOfNext ==
  ASSUME TypeOK'
  PROVE  /\ Contents' \in Seq(Chars)
         /\ Len(Contents') = InUse(head', tail')
         /\ \A i \in 1..InUse(head', tail') : Contents'[i] = buf'[Place(tail', i)]
<1>1. PICK s : s = Contents'
  OBVIOUS
<1>2. s = [i \in 1..InUse(head', tail') |-> buf'[Place(tail', i)]]
  BY <1>1 DEF Contents, InUse, Place
<1>3. head' \in Positions /\ tail' \in Positions /\ buf' \in [Positions -> Chars]
  BY DEF TypeOK
<1>4. /\ s \in Seq(Chars)
      /\ Len(s) = InUse(head', tail')
      /\ \A i \in 1..InUse(head', tail') : s[i] = buf'[Place(tail', i)]
  BY <1>2, <1>3, ContentsSeq
<1> QED BY <1>1, <1>4

\* ioq_getchar takes the oldest character.
LEMMA GetRefines ==
  ASSUME TypeOK, TypeOK', ~ioq_empty, got' = buf[tail], tail' = next_pos(tail), UNCHANGED <<buf, head>>
  PROVE  F!Get
<1>1. /\ head \in Positions /\ tail \in Positions /\ head # tail
      /\ buf \in [Positions -> Chars] /\ tail' \in Positions
  BY RingUse DEF TypeOK, ioq_empty
<1>2. PICK n \in Nat : n = InUse(head, tail) /\ n >= 1
  BY <1>1, RingUse, RingGet
<1>3. /\ Contents \in Seq(Chars) /\ Len(Contents) = n
      /\ \A i \in 1..n : Contents[i] = buf[Place(tail, i)]
  BY <1>2, ContentsOf
<1>4. /\ InUse(head, tail') = n - 1 /\ Place(tail, 1) = tail
      /\ \A i \in 1..n - 1 : Place(tail', i) = Place(tail, i + 1)
  BY <1>1, <1>2, RingGet
<1>5. /\ Contents' \in Seq(Chars) /\ Len(Contents') = n - 1
      /\ \A i \in 1..n - 1 : Contents'[i] = buf[Place(tail', i)]
  BY <1>4, ContentsOfNext
<1>6. \A i \in 1..n - 1 : Contents'[i] = Contents[i + 1]
  <2>1. \A i \in 1..n - 1 : i + 1 \in 1..n
    OBVIOUS
  <2> QED BY <1>3, <1>4, <1>5, <2>1
<1>7. Contents # <<>> /\ Head(Contents) = buf[tail]
  <2>1. 1 \in 1..n
    BY <1>2
  <2> QED BY <1>2, <1>3, <1>4, <2>1
<1>8. Contents' = Tail(Contents)
  <2>1. /\ Tail(Contents) \in Seq(Chars) /\ Len(Tail(Contents)) = n - 1
        /\ \A i \in 1..n - 1 : Tail(Contents)[i] = Contents[i + 1]
    BY <1>3, <1>7, HeadTailProperties
  <2> QED BY <1>5, <1>6, <2>1, SeqEqual
<1> QED BY <1>7, <1>8 DEF F!Get

\* ioq_putchar adds the newest, in a place that is free.
LEMMA PutRefines ==
  ASSUME TypeOK, TypeOK', ~ioq_full, NEW c \in Chars, buf' = [buf EXCEPT ![head] = c],
         head' = next_pos(head), UNCHANGED <<tail, got>>
  PROVE  F!Put(c)
<1>1. /\ head \in Positions /\ tail \in Positions /\ next_pos(head) # tail
      /\ buf \in [Positions -> Chars] /\ buf' \in [Positions -> Chars] /\ head' \in Positions
  BY RingUse DEF TypeOK, ioq_full
<1>2. PICK n \in Nat : n = InUse(head, tail)
  BY <1>1, RingUse
<1>3. /\ Contents \in Seq(Chars) /\ Len(Contents) = n
      /\ \A i \in 1..n : Contents[i] = buf[Place(tail, i)]
  BY <1>2, ContentsOf
<1>4. n < BufSize - 1 /\ InUse(head', tail) = n + 1 /\ Place(tail, n + 1) = head
  BY <1>1, <1>2, RingPut
<1>5. /\ Contents' \in Seq(Chars) /\ Len(Contents') = n + 1
      /\ \A i \in 1..n + 1 : Contents'[i] = buf'[Place(tail, i)]
  <2>1. InUse(head', tail') = n + 1
    BY <1>4
  <2> QED BY <2>1, ContentsOfNext
<1>6. \A i \in 1..n : Contents'[i] = Contents[i]
  <2>1. \A i \in 1..n : Place(tail, i) \in Positions \ {head} /\ i \in 1..n + 1
    BY <1>1, <1>2, RingUse
  <2> QED BY <1>1, <1>3, <1>5, <2>1
<1>7. Contents'[n + 1] = c
  <2>1. n + 1 \in 1..n + 1
    OBVIOUS
  <2> QED BY <1>1, <1>4, <1>5, <2>1
<1>8. Contents' = Append(Contents, c)
  <2>1. /\ Append(Contents, c) \in Seq(Chars) /\ Len(Append(Contents, c)) = n + 1
        /\ \A i \in 1..n : Append(Contents, c)[i] = Contents[i]
        /\ Append(Contents, c)[n + 1] = c
    BY <1>3, AppendProperties
  <2>2. \A i \in 1..n + 1 : Contents'[i] = Append(Contents, c)[i]
    BY <1>6, <1>7, <2>1
  <2> QED BY <1>5, <2>1, <2>2, SeqEqual
<1> QED BY <1>3, <1>4, <1>8 DEF F!Put

\* Every step of the keyboard and of the readers is a step of the abstract
\* queue or leaves it alone.
LEMMA StepRefines == IInv /\ IInv' /\ [Next]_vars => [F!Next]_<<Contents, got>>
<1> SUFFICES ASSUME IInv, IInv', [Next]_vars PROVE [F!Next]_<<Contents, got>>
  OBVIOUS
<1>0. TypeOK /\ TypeOK'
  BY DEF IInv, IoqInv
<1>a. UNCHANGED ring => UNCHANGED <<Contents, got>>
  BY DEF ring, Contents
<1>1. ASSUME NEW t \in Threads, Call(t) \/ Run(t) PROVE UNCHANGED ring \/ F!Get
  <2>1. CASE ioq_getchar(t)
    BY <1>0, <2>1, GetRefines DEF ioq_getchar
  <2>2. CASE ~ioq_getchar(t)
    BY <1>1, <2>2 DEF Run, Call, MustWait, WaitForLock, ioq_wait, Woken
  <2> QED BY <2>1, <2>2
<1>2. ASSUME NEW b, intr_keyboard_handler(b)
      PROVE  UNCHANGED ring \/ \E c \in Chars : F!Put(c)
  <2>1. CASE UNCHANGED ioqVars
    BY <2>1 DEF ioqVars
  <2>2. CASE ~ioq_full /\ \E c \in Chars : ioq_putchar(c)
    BY <1>0, <2>2, PutRefines DEF ioq_putchar
  <2> QED BY <1>2, <2>1, <2>2, HandlerPuts
<1>3. ASSUME (\E k \in Keys : Press(k) \/ Release(k)) \/ SecondByte
      PROVE  UNCHANGED ring \/ \E c \in Chars : F!Put(c)
  <2>1. \E b : intr_keyboard_handler(b)
    BY <1>3 DEF Press, Release, Send, SecondByte
  <2> QED BY <1>2, <2>1
<1>4. ASSUME idle \/ Timer \/ UNCHANGED vars PROVE UNCHANGED ring
  BY <1>4 DEF idle, Timer, vars, ioqVars
<1> QED BY <1>a, <1>1, <1>3, <1>4 DEF Next, F!Next

\* For every size of the buffer the ring is a bounded first-in first-out
\* queue: no character is lost, duplicated, reordered or overwritten.
THEOREM RingRefinement == Spec => ImplementsFifo
<1>1. Init => F!Init
  <2> SUFFICES ASSUME Init PROVE F!Init
    OBVIOUS
  <2>1. IInv
    BY InitIInv
  <2>2. /\ head \in Positions /\ tail \in Positions /\ head = tail
        /\ buf \in [Positions -> Chars] /\ got \in Chars
    BY <2>1 DEF Init, io_queue_init, IInv, IoqInv, TypeOK
  <2>3. Contents \in Seq(Chars) /\ Len(Contents) = 0
    BY <2>1, <2>2, ContentsOf, RingUse DEF IInv, IoqInv
  <2> QED BY <2>2, <2>3 DEF F!Init
<1>2. IInv /\ IInv' /\ [Next]_vars => [F!Next]_<<Contents, got>>
  BY StepRefines
<1> QED BY <1>1, <1>2, SpecIInv, PTL DEF Spec, ImplementsFifo, F!Spec

=============================================================================
