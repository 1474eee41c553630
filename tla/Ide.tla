-------------------------------- MODULE Ide --------------------------------
(***************************************************************************)
(* One channel of device/ide.c on the scheduler: ide_read, ide_write and   *)
(* identify_disk, the disk_done semaphore, the interrupt handler, and the  *)
(* disk behind the registers (external, by what the driver's comments and  *)
(* register accesses expect of it: a command makes it busy, data is moved  *)
(* while DRQ is set, it interrupts when a sector can be read or has been   *)
(* written, and reading the status or writing a command clears a pending   *)
(* interrupt).                                                             *)
(*                                                                         *)
(* Kernel threads run the driver with interrupts on, processes (inside a   *)
(* system call) with interrupts off.                                       *)
(***************************************************************************)
EXTENDS Mutex

CONSTANTS KThreads,   \* kernel threads
          Main,       \* main_thread: runs ide_init, then never blocks again
          Ops,        \* operations the threads use: subset of {"read", "write"}
          MaxCmds,    \* bound on the commands one call is split into
          Extra       \* sectors of one command after the first (0: single-sector)

ASSUME IdeAssumption ==
  /\ Main \in KThreads
  /\ KThreads \subseteq Threads
  /\ Ops \subseteq {"read", "write"}
  /\ MaxCmds \in Nat \ {0}
  /\ Extra \in Nat

VARIABLES expecting,  \* channel->expecting_intr
          value,      \* disk_done.value
          sleepers,   \* disk_done.waiters
          dev,        \* the disk: its state
          owner,      \* the disk: the thread whose command it executes
          more,       \* the disk: sectors of the command still to come
          irq,        \* the disk's interrupt is pending
          op,         \* the operation of each thread
          left,       \* the commands of 256 sectors (or fewer) it still needs
          tick,       \* a tick passed since the thread's mtime_sleep began
          pc

devVars == <<dev, owner, more, irq>>
ideVars == <<expecting, value, sleepers, op, left, tick>>
vars == <<schedVars, mutexVars, devVars, ideVars, pc>>

(***************************************************************************)
(* pc[t]:                                                                  *)
(*   boot     ide_init before identify_disk (Main only)                    *)
(*   user     not in the driver; interrupts on                             *)
(*   lock     about to call lock_acquire(&channel->lock)                   *)
(*   relock   in lock_acquire's wait                                       *)
(*   expect   cmd_out, about to set expecting_intr                         *)
(*   outb     cmd_out, about to write the command register                 *)
(*   down     about to call sema_down(&channel->disk_done)                 *)
(*   redown   in sema_down's wait                                          *)
(*   poll     busy_wait, about to read the status register                 *)
(*   sleep    busy_wait, in mtime_sleep(10)                                *)
(*   data     about to move the data                                       *)
(*   unlock   about to call lock_release                                   *)
(***************************************************************************)
PC == {"boot", "user", "lock", "relock", "expect", "outb", "down", "redown",
       "poll", "sleep", "data", "unlock"}

\* Interrupts are off in the waits, and throughout a system call.
IntrOn == \/ cur = Idle
          \/ cur \in KThreads /\ pc[cur] \notin {"relock", "redown"}
          \/ cur \in Threads /\ pc[cur] = "user"

Busy == dev \in {"seek", "accept", "media"}

at(t, l) == cur = t /\ pc[t] = l
atAny(t, ls) == cur = t /\ pc[t] \in ls
goto(t, l) == pc' = [pc EXCEPT ![t] = l]

\* ide_init has initialised the channel and calls identify_disk next.
Init ==
  /\ cur = Main
  /\ ready \in Orders(All \ {cur})
  /\ status = [t \in All |-> IF t = cur THEN "RUNNING" ELSE "READY"]
  /\ ticks = Prio
  /\ panic = FALSE
  /\ holder = NULL
  /\ waiters = <<>>
  /\ expecting = FALSE
  /\ value = 0
  /\ sleepers = <<>>
  /\ dev = "idle"
  /\ owner = NULL
  /\ more = 0
  /\ irq = FALSE
  /\ op = [t \in Threads |-> IF t = Main THEN "identify" ELSE "none"]
  /\ left = [t \in Threads |-> 1]
  /\ tick = [t \in Threads |-> FALSE]
  /\ pc = [t \in Threads |-> IF t = Main THEN "boot" ELSE "user"]

----------------------------------------------------------------------------
(***************************************************************************)
(* The driver.                                                             *)
(***************************************************************************)

\* identify_disk, called by ide_init without the channel lock.
identify_disk(t) ==
  /\ at(t, "boot")
  /\ goto(t, "expect")
  /\ UNCHANGED <<schedVars, mutexVars, devVars, ideVars>>

\* ide_read or ide_write is called, once ide_init is done; main then only
\* spins.
Call(t, o, n) ==
  /\ at(t, "user")
  /\ t # Main
  /\ op[Main] # "identify"
  /\ op' = [op EXCEPT ![t] = o]
  /\ left' = [left EXCEPT ![t] = n]
  /\ goto(t, "lock")
  /\ UNCHANGED <<schedVars, mutexVars, devVars, expecting, value, sleepers, tick>>

WaitForLock(t) ==
  /\ atAny(t, {"lock", "relock"})
  /\ lock_wait
  /\ goto(t, "relock")
  /\ UNCHANGED <<devVars, ideVars>>

\* Mutant: lock_acquire does not wait for the holder.
Mut_TakeLock_unguarded(t) ==
  /\ atAny(t, {"lock", "relock"})
  /\ holder' = t
  /\ goto(t, "expect")
  /\ UNCHANGED <<schedVars, waiters, devVars, ideVars>>

TakeLock(t) ==
  /\ atAny(t, {"lock", "relock"})
  /\ lock_take
  /\ goto(t, "expect")
  /\ UNCHANGED <<schedVars, devVars, ideVars>>

\* Mutant: expecting_intr is not set.
Mut_no_expect(t) ==
  /\ at(t, "expect")
  /\ goto(t, "outb")
  /\ UNCHANGED <<schedVars, mutexVars, devVars, ideVars>>

\* cmd_out's two statements: an interrupt may come between them.
cmd_out_expect(t) ==
  /\ at(t, "expect")
  /\ expecting' = TRUE
  /\ goto(t, "outb")
  /\ UNCHANGED <<schedVars, mutexVars, devVars, value, sleepers, op, left, tick>>

cmd_out(t) ==
  /\ at(t, "outb")
  /\ dev' = IF op[t] = "write" THEN "accept" ELSE "seek"
  /\ owner' = t
  /\ more' = IF op[t] = "identify" THEN 0 ELSE Extra
  /\ irq' = FALSE
  /\ goto(t, IF op[t] = "write" THEN "poll" ELSE "down")
  /\ UNCHANGED <<schedVars, mutexVars, ideVars>>

\* Mutant: the sectors done are not counted.
Mut_NextCommand_endless(t) ==
  /\ goto(t, IF left[t] > 1 THEN "expect" ELSE "unlock")
  /\ UNCHANGED left

\* One command is done: the next one, or the end of the operation.
NextCommand(t) ==
  /\ left' = [left EXCEPT ![t] = IF left[t] > 1 THEN @ - 1 ELSE @]
  /\ goto(t, IF left[t] > 1 THEN "expect" ELSE "unlock")

\* sema_down(&disk_done): wait for the interrupt, or go on if it has come.
sema_down(t) ==
  /\ atAny(t, {"down", "redown"})
  /\ IF value = 0
     THEN /\ sleepers' = list_append(sleepers, t)
          /\ thread_block("BLOCKED", ~elem_find(sleepers, t))
          /\ goto(t, "redown")
          /\ UNCHANGED <<value, left>>
     ELSE /\ value' = value - 1
          /\ panic' = (value' # 0)
          /\ IF op[t] = "write"
             THEN NextCommand(t)
             ELSE goto(t, "poll") /\ UNCHANGED left
          /\ UNCHANGED <<sleepers, status, ready, cur, ticks>>
  /\ UNCHANGED <<mutexVars, devVars, expecting, op, tick>>

\* One round of busy_wait: sleep while the disk is busy, PANIC when it is
\* ready without asking for data.  Bound: the disk is done before busy_wait
\* gives up, after 30000 rounds of 10 ms (ide.c:212 takes 1 off its limit each
\* time), and its callers PANIC.
busy_wait(t) ==
  /\ at(t, "poll")
  /\ irq' = FALSE
  /\ IF Busy
     THEN /\ tick' = [tick EXCEPT ![t] = FALSE]
          /\ goto(t, "sleep")
          /\ UNCHANGED panic
     ELSE /\ panic' = (dev # "drq")
          /\ goto(t, "data")
          /\ UNCHANGED tick
  /\ UNCHANGED <<status, ready, cur, ticks, mutexVars, dev, owner, more,
                 expecting, value, sleepers, op, left>>

\* mtime_sleep(10), one tick: yield until the tick has come.
mtime_sleep(t) ==
  /\ at(t, "sleep")
  /\ IF tick[t]
     THEN goto(t, "poll") /\ UNCHANGED schedVars
     ELSE thread_yield /\ UNCHANGED pc
  /\ UNCHANGED <<mutexVars, devVars, ideVars>>

\* read_from_sector or write2sector moves all sectors of the command; the
\* disk interrupts for each of them.
Transfer(t) ==
  /\ at(t, "data")
  /\ dev' = IF op[t] = "write" THEN "media" ELSE "idle"
  /\ irq' = (irq \/ (op[t] # "write" /\ more > 0))
  /\ IF op[t] = "write"
     THEN goto(t, "down") /\ UNCHANGED left
     ELSE NextCommand(t)
  /\ UNCHANGED <<schedVars, mutexVars, owner, more, expecting, value, sleepers,
                 op, tick>>

\* The operation ends; only identify_disk has no lock to release.
Finish(t) ==
  /\ at(t, "unlock")
  /\ IF op[t] = "identify"
     THEN UNCHANGED <<schedVars, mutexVars>>
     ELSE lock_release
  /\ op' = [op EXCEPT ![t] = "none"]
  /\ goto(t, "user")
  /\ UNCHANGED <<devVars, expecting, value, sleepers, left, tick>>

\* intr_hd_handler, which ignores an interrupt nobody expects.
intr_hd_handler ==
  /\ IntrOn
  /\ irq
  /\ irq' = FALSE
  /\ IF expecting
     THEN /\ expecting' = FALSE
          /\ value' = value + 1
          /\ IF sleepers # <<>>
             THEN /\ thread_unblock(Head(sleepers), value = 0)
                  /\ sleepers' = Tail(sleepers)
             ELSE /\ panic' = (value # 0)
                  /\ UNCHANGED <<sleepers, status, ready, cur, ticks>>
     ELSE UNCHANGED <<schedVars, expecting, value, sleepers>>
  /\ UNCHANGED <<mutexVars, dev, owner, more, op, left, tick, pc>>

----------------------------------------------------------------------------
(***************************************************************************)
(* The disk and the rest of the machine.                                   *)
(***************************************************************************)

\* The first sector of a read is in the disk's buffer.
DiskReady ==
  /\ dev = "seek"
  /\ dev' = "drq"
  /\ irq' = TRUE
  /\ UNCHANGED <<schedVars, mutexVars, ideVars, owner, more, pc>>

\* A write command is accepted; the disk asks for the data, without interrupt.
DiskAccept ==
  /\ dev = "accept"
  /\ dev' = "drq"
  /\ UNCHANGED <<schedVars, mutexVars, ideVars, owner, more, irq, pc>>

\* One sector has been written.
DiskWritten ==
  /\ dev = "media"
  /\ dev' = IF more = 0 THEN "idle" ELSE "media"
  /\ more' = IF more = 0 THEN 0 ELSE more - 1
  /\ irq' = TRUE
  /\ UNCHANGED <<schedVars, mutexVars, ideVars, owner, pc>>

Disk == DiskReady \/ DiskAccept \/ DiskWritten

idle ==
  /\ cur = Idle
  /\ thread_block("BLOCKED", TRUE)
  /\ UNCHANGED <<mutexVars, devVars, ideVars, pc>>

Timer ==
  /\ IntrOn
  /\ intr_timer_handler
  /\ tick' = [t \in Threads |-> pc[t] = "sleep" \/ tick[t]]
  /\ UNCHANGED <<mutexVars, devVars, expecting, value, sleepers, op,
                 left, pc>>

Run(t) ==
  \/ identify_disk(t) \/ WaitForLock(t) \/ TakeLock(t) \/ cmd_out_expect(t)
  \/ cmd_out(t) \/ sema_down(t) \/ busy_wait(t) \/ mtime_sleep(t)
  \/ Transfer(t) \/ Finish(t)

Next ==
  /\ ~panic
  /\ \/ \E t \in Threads : Run(t) \/ \E o \in Ops, n \in 1..MaxCmds : Call(t, o, n)
     \/ intr_hd_handler
     \/ Disk
     \/ idle
     \/ Timer

\* The disk finishes what it is told, interrupts are taken as soon as they
\* are on, and the thread on the CPU executes.
Fairness ==
  /\ WF_vars(~panic /\ Disk)
  /\ SF_vars(~panic /\ intr_hd_handler)
  /\ SF_vars(~panic /\ Timer)
  /\ \A t \in Threads : SF_vars(~panic /\ Run(t))

Spec == Init /\ [][Next]_vars /\ Fairness

----------------------------------------------------------------------------
\* The data a thread moves is that of its own command, and the disk asks for
\* it: no interrupt of another command lets it go on too early.
DataOfOwnCommand ==
  \A t \in Threads : pc[t] = "data" => owner = t /\ dev = "drq"

\* The interrupt that ends a command is not lost: while a thread sleeps on
\* disk_done the disk still works for it, or its interrupt is pending, and
\* the assertions hold under which it is woken.
NoLostInterrupt ==
  /\ ~panic
  /\ \A t \in Threads :
       elem_find(sleepers, t) =>
         /\ expecting /\ owner = t /\ value = 0
         /\ Busy \/ irq

\* Every operation that has the channel ends and gives it back.
ChannelReleased == \A t \in Threads : holder = t ~> holder # t

=============================================================================
