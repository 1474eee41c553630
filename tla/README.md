# zy_os in TLA+

zy_os is a small x86 kernel for one processor: preemptive threads, locks, page
and heap allocators, an IDE driver, a Unix-like file system, processes with
`fork` and `exec`, and a shell. This directory holds a TLA+ model of the parts
with state worth arguing about, TLC runs that check them on small instances, and
TLAPS proofs about the scheduler, the lock, the character queue and the keyboard,
the disk driver, the page pools, the heap and the contents of files, for instances
of any size.

1. Inventory of the system
2. The modules and the code
3. What the runs check
4. Bounds
5. Fairness
6. What is proved
7. Where the code departs from its own comments
8. What is not modelled
9. Plan

Paths are relative to `src/`.

## 1. Inventory

Everything runs on one CPU. Two facts about interrupts decide what can interleave:

- a **system call** enters through an interrupt gate (`kernel/interrupt.c`,
  `user_process/syscall-init.c`), so a process runs the kernel with interrupts
  *off* until it returns or blocks;
- a **kernel thread** runs with interrupts *on* except inside the functions that
  disable them (`sema_down`, `sema_up`, `thread_block`, the list operations ...),
  so the timer can take the CPU from it between any two statements elsewhere.

| component | state | operations | what makes it correct |
|---|---|---|---|
| scheduler (`thread/thread.c`, `device/timer.c`) | `thread_ready_list`, `thread_all_list`, status and ticks of each thread | `thread_start`, `schedule`, `thread_block`, `thread_unblock`, `thread_yield`, `idle`, timer handler | the ready list holds exactly the READY threads, once each; idle runs last; nobody starves |
| semaphores and locks (`thread/sync.c`) | `value`, `waiters`, `holder`, `holder_repeat_nr` | `sema_down/up`, `lock_acquire/release` | mutual exclusion with nesting, no lost wake-up |
| character queue (`device/io_queue.c`) | ring, recorded sleeper, lock | `ioq_getchar`, `ioq_putchar` | FIFO; every character is read |
| keyboard (`device/keyboard.c`) | `ext_scan_code`, flags of shift, ctrl, alt, caps lock | handler, one interrupt per byte | no flag or prefix outlives its key |
| disk driver (`device/ide.c`) | channel lock, `expecting_intr`, `disk_done` | `identify_disk`, `ide_read`, `ide_write`, interrupt handler | data of the thread's own command; no lost interrupt; the channel is given back |
| bitmaps (`lib/kernel/bitmap.c`) | bits | `bitmap_scan`, `bitmap_set` | first fit, inside the bitmap |
| page pools (`kernel/memory.c`) | two frame pools, address bitmaps, page tables, two locks | `malloc_page`, `get_a_page`, `palloc`, `page_table_add`, `mfree_page` | no frame given out twice, none leaks |
| heap (`kernel/memory.c`, `user_process/fork.c`) | arenas, free lists | `sys_malloc`, `sys_free`, the copy by `sys_fork` | no block given out twice; pages returned exactly when empty |
| open files (`fs/file.c`, `fs/fs.c`, `fs/inode.c`) | `fd_table`, `file_table`, `open_inodes`, `write_deny` | `sys_open`, `sys_close`, `sys_unlink`, sharing by `sys_fork` | a descriptor refers to the file it was opened for; inodes live as long as they are used |
| file contents (`fs/file.c`, `fs/inode.c`) | `i_size`, `i_sectors`, the indirect table, block bitmap | `file_write`, `file_read`, `sys_lseek`, `inode_release` | what is read is what was written; blocks are neither shared nor leaked |
| directories and paths (`fs/dir.c`, `fs/fs.c`, `fs/inode.c`) | blocks of entries, inode table and bitmaps on disk and in memory, `cwd_inode_nr`, `dir_pos` | `search_file`, `sync_dir_entry`, `delete_dir_entry`, `mkdir`, `rmdir`, `unlink`, `getcwd`, `chdir`, `dir_read`, mounting | a tree of names; inodes and blocks belong to one owner; the disk is up to date after every call |
| shell builtins (`shell/buildin_cmd.c`) | | `cd`, `pwd`, `ls`, `mkdir`, `rmdir`, `rm`, `wash_path` | what they print and follow agrees with the tree |
| partitions and formatting (`device/ide.c`, `fs/fs.c`, `fs/file.c`) | partition tables, superblocks, block bitmap on disk and in memory | `partition_scan`, `filesys_init`, `partition_format`, `mount_partition`, `block_bitmap_alloc`, `bitmap_sync` | every partition is found; the bitmap covers the partition and survives a boot |
| pids, exec, rest of the shell, console, printing, strings, boot | | | section 8 |

Components interact by calls. Every wait ends in `thread_block`, every wake-up in
`thread_unblock`; all locks are `sync.c`'s; the disk driver is the only place
where a system call gives the CPU away inside the file system, so every disk
access there is a point where other processes run. The keyboard, disk and timer
handlers run on the stack of whatever thread they interrupt.

What is hard to test is listed in `PROJECT.json` under `hazards`, each at its
line.

## 2. The modules and the code

```
Sched ── Thread ── MCThread                 LockAbs   (abstract lock)
  │  └── SchedProofs ── ThreadProofs           ▲ refined by
  ├── SyncLock ── MCSyncLock, SyncLockProofs ──┘
  └── Mutex ── IoQueue ── Keyboard ── MCKeyboard, KeyboardProofs ──▷ Fifo (abstract queue)
         └── Ide ── MCIde, IdeProofs
PagePool ── MCPagePool, PagePoolProofs       Arena ── MCArena, ArenaProofs
Bitmap ── Volume ── MCVolume
FileTable ── MCFileTable          FileData ── MCFileData, FileDataProofs
Dir ── MCDir ──▷ TreeAbs (abstract tree)
```

- **Sched**: `schedule`, `thread_block`, `thread_unblock`, `thread_yield` and
  `intr_timer_handler` as operators on `status`, `ready`, `cur`, `ticks`; each is
  atomic because it runs with interrupts off. A failing ASSERT sets `panic`, after
  which no step of any module is enabled (`panic_spin` never returns). The links
  of `list.c` are abstracted to sequences; the asserts that guard them are kept.
- **Thread**: the life of threads over Sched: `thread_start`, waiting in each of
  the three states `thread_block` accepts, waking, yielding, the idle loop, the
  timer. `process_execute` fills both lists with interrupts off; `thread_start`
  does not, so it is two actions, with the new thread able to run in between.
- **SyncLock**: `sync.c` statement by statement: `sema_down` and `sema_up` are
  atomic up to the sleep, the statements of `lock_acquire` and `lock_release` are
  separate steps between which a kernel thread can be preempted. **LockAbs** is
  the abstract recursive lock.
- **Mutex**: the lock at the grain of LockAbs (take, wait, release), for the
  larger models; SyncLock's refinement is what justifies it.
- **IoQueue**: ring, lock and recorded consumer. Only the keyboard handler calls
  `ioq_putchar`, and it tests `ioq_full` first (`device/keyboard.c:219`), so the
  producer's wait is never entered. **Fifo** is the abstract queue.
- **Keyboard**: the keyboard (external) sends the one or two bytes of a scan code,
  an interrupt each; `intr_keyboard_handler` is split in its four cases (prefix,
  break code, key with a character, other key) and interrupts whichever thread
  runs with interrupts on. `held` is what the user's hands do, `wire` the byte
  after a prefix. `keymap` is a constant.
- **Ide**: one channel with `identify_disk`, `ide_read`, `ide_write`, `busy_wait`
  with `mtime_sleep`, the handler, and the disk behind the registers (external).
  A call is split in up to `MaxCmds` commands of `1 + Extra` sectors. The disk is
  done before `busy_wait` gives up, so the PANIC of its callers for a disk that does
  not answer is not reached; the one for a disk that is ready without data is a step.
- **Bitmap**: operators only: `bitmap_scan` with its byte search, bit search and
  counting loop, for each value of the bit it reads past the end; Volume uses them.
- **Volume**: from the disk to free blocks. `partition_scan`, one action per kind
  of table entry, its recursion as the variable `stack`; `filesys_init`'s loop with
  `partition_format`'s arithmetic and bitmap; `mount_partition`;
  `block_bitmap_alloc` and the release of a block; the `bitmap_sync` that follows as
  a step of its own, which writes the sector as it is by then, or which does not
  follow (the table block of a file, `fs/file.c:404`); and `Restart`, at any time
  after the mount or when an ASSERT has stopped the machine, after which the tables
  are scanned again and only `super` and `dbits` are what they were. `waiting` are the
  calls that have yet to write their sector; `given` is the history of blocks in use,
  `saved` the same at the last write of each sector.
- **PagePool**: `malloc_page`, `get_a_page` and `mfree_page`, with palloc's scan and
  set as two steps, page tables taken from the kernel pool without its lock, a run
  freed page by page (frame, then page table entry, then all addresses), and the
  pool locks. Threads are reduced to their interrupt flag (`mask`); `KThreads` are
  those that use the kernel pool, a process in `sys_fork` among them, which also gives
  its buffer back without the lock (`mfree_buf_page`). `given` is the history of the
  runs that were returned, so a free gives back a run. `raced` is set when a thread
  that was preempted between `bitmap_scan` and `bitmap_set` of the kernel pool and a
  process that needs a page table have found the same frame. A run that ends one
  bit after the bitmap (`PastEnd`) stops the model.
- **Arena**: `sys_malloc` / `sys_free`, small and large, on heaps that `sys_fork`
  copies. `broken` records that a block was linked into a free list of another
  address space (`sys_free_forked`, with the release of the page when cnt says so),
  after which the contents of the list are undefined and the behaviour ends.
- **FileTable**: descriptors, `file_table`, inodes in memory and on disk. Each
  action is what a call does between two disk accesses; `job[p]` is what it goes
  on with. A *scenario* says who runs, what is done and whether calls overlap: a
  kernel thread and a process one call at a time; the same with a child that the
  process forks; or a process and its forked child with calls that overlap at every
  disk access. Kernel threads and processes create files. An inode remembers the heap
  it is in, and a task that comes upon one in another process's heap stops the model
  (`foreign_inode`). `torn` records that a descriptor two processes share through
  `sys_fork` was closed by one of them.
- **FileData**: the byte positions and block addresses of `file_write` and
  `file_read`, again cut at the disk accesses, and `inode_release`, which collects the
  blocks of a file (`going`) and gives them back one by one, with a wait after each
  (`release_block`). Any number of processes may write a file; `overlap` records that
  two calls of `file_write` to one file overlap, and the behaviour ends there. The
  write of the inode after the last block is in Dir, not here. Byte `k` of file `f` is the value
  `<<f, k>>`, so a byte from a wrong place shows. A `file_write` that needs a block
  when the block bitmap is full goes no further: `bitmap_scan`'s ASSERT
  (`lib/kernel/bitmap.c:32`) stops the machine before a -1 could be returned.

- **Dir**: the directory calls, each atomic (FileTable has the overlap): entries in
  blocks on disk, the inode table and both bitmaps on disk and in memory,
  `open_inodes` as `mem`, the shell's `cwd` and the listing it is in. A call that
  finds a bitmap full stops the machine with the disk as it is at that moment
  (`lost` are the blocks allocated and not linked), and `Restart` mounts that disk.
  `inode_sync` writes an inode at its number modulo `SyncMod`; the first inode with a
  number that is cut is written over the root's, and the behaviour ends there (`Cut`).
  `dir_read` walks over the blocks that are mapped and the entries in them, counting
  the ones it has returned before. The shell's builtins call them with paths from
  `wash_path`, also with paths that go on behind a file; other programs create and
  delete files between the steps of a listing. **TreeAbs** says what each call does to
  the tree, a set of paths: `Add`, `Rmdir` and `Unlink`, each with the path of the
  call. `Tree` reads the tree from the blocks, and `TreeStep` pairs every call with
  the action of TreeAbs at the same path, every other step and `Restart` with no
  change.

`Mut_...` operators are wrong versions of the definition that follows them, each
the size of a plausible slip; every property of a passing run is violated when
the definition is replaced by its mutant (`PROJECT.json`, `mutants`).

## 3. What the runs check

| run | result | states | what it shows |
|---|---|---|---|
| `thread` | pass | 6 872 | three threads and idle that start, block, yield, wake each other and are preempted: ready list exact, no ASSERT fails, idle woken only when nothing else is ready, every READY thread gets the CPU although `thread_unblock` pushes to the front |
| `sync_lock` | pass | 14 946 | two preemptible kernel threads and a process, nesting to 2: mutual exclusion, exact wait queue, no lost wake-up, no failed ASSERT; refinement of LockAbs with and without fairness |
| `keyboard` | pass | 158 976 | two readers and a keyboard with six keys, two of them with a prefix, an interrupt for each byte: the ring is a FIFO, the recorded sleeper is the one that sleeps, every character is read, no prefix or modifier sticks |
| `ide` | pass | 138 068 | a kernel thread and a process issue commands of two sectors: own data only, no lost interrupt, `expecting_intr` and `disk_done` never out of step, the channel always released |
| `page_pool` | pass | 675 490 | two kernel threads, two processes, or one of each, with interrupts on and off, taking runs and single pages and freeing runs: no frame given to two pages, address bitmaps exact; page tables apart from pages and pools exact until the race at `kernel/memory.c:167` has happened |
| `arena` | pass | 764 804 | a process and its forked child, two block sizes and large requests: blocks exclusive, arenas and pages exact, up to the first block a child frees of an arena it got by fork |
| `file_table` | pass | 1 238 572 | three scenarios: one call at a time up to full tables (descriptors right, one inode per file, no file in use deleted); the same with a forked child, until a shared descriptor is closed; overlapping calls of parent and child (no inode freed while a `file_table` entry points to it) |
| `file_slot` | violation | | two processes that open files at the same time get the same `file_table` entry |
| `file_data` | pass | 2 398 800 | two processes that write, read and delete two files, one of which both use, on one block bitmap that they fill: bytes read back are the bytes written there, block lists and bitmap agree, deletion returns every block, until two calls of `file_write` to one file overlap |
| `volume` | pass | 190 711 | eight disks scanned, formatted, mounted, filled, emptied and booted again, with syncs that wait, are missing or are lost: every partition found at its place, the block bitmap inside the partition, in memory as the blocks are in use and on disk as it was last written; what `bitmap_scan` returns on every bitmap reached, for each bit that may follow it |
| `dir` | pass | 74 905 | mkdir, rmdir, cd, ls, rm by the shell, files created and deleted by programs, restarts, up to a full block bitmap and the first inode number that is cut: each call does to the tree what TreeAbs says of its path, every inode named once, blocks and sizes exact, disk up to date until that number, listings complete, `pwd` and `wash_path` right |
| `dir_cwd` | violation | | the shell removes the directory it is in; `pwd` then fails the ASSERT of `get_parent_dir_inode_nr` |

Deadlock is checked in `thread`, `sync_lock`, `keyboard` and `ide`, where the timer
and the idle thread keep the machine going, and in `volume`, which can always be
restarted. The other modules have no timer: they stop when a bound is reached or
an ASSERT stops the machine.

## 4. Bounds

- *Threads*: three besides idle (two readers for the queue). Two contenders and a
  third that waits behind them is what the code's interesting cases need (a woken
  waiter overtaken by a newcomer, two sleepers and a waker); the theorems remove
  the bound for `thread`, `sync_lock`, `keyboard` and `ide`.
- *Time slices* (`MCPrio`) are one or two ticks, so a slice can expire or not at
  every point.
- *MaxRepeat* 2: nested once is the only case the code treats differently.
- *BufSize* 3: the ring wraps, fills and empties. *Keys*: a letter, a digit, caps
  lock and left shift without prefix, right ctrl and a keypad key with the code of
  the letter with one. *Chars* has two members, enough to see a reordering.
- *MaxCmds* 2, *Extra* 1: an operation of two commands, each with a late interrupt.
- *Disks*: one primary partition of 12 to 15 sectors, which with 4 bits in a sector
  (*SectorBytes* × *ByteBits* = 2 × 2, 4096 in the code) are all residues of the
  bitmap's length; four primary ones; chains of two and of four logical ones, the
  latter longer than *MaxLogic* 3; none to mount. *MaxWaiting* 2: one call can write
  the sector that another waits to write, in either order.
- *Frames and pages* 3 each, two page tables: allocations of two pages cross a page
  table boundary, and both pools can be exhausted (the user pool has 2 frames).
  *MaxPages* 2. *Casts*: two kernel threads, two processes, and one of each, once
  with interrupts on, which is the boot's `main` beside `init`, and once off.
- *Pages* of a heap 2, classes of 1024 and 512 bytes with 3 and 2 blocks per arena
  (3 and 7 in the code).
- *NInodes* 5, *SyncMod* 4 and *NBlocks* 4 with *PerSec* 2 (4096, 256, thousands and
  21 in the code): a directory has its first block full of `.` and `..`, so every
  other entry takes and gives back blocks; the block bitmap fills, and a fifth inode
  is cut, as the 257th is in the code. The inode bitmap is not filled: its numbers are
  cut long before. *MaxDepth* 2 is enough for a directory
  inside a directory and a file beside it. *MaxLost* 1: one stop in the middle of a
  mkdir. File names are symmetric.
- *Slots*, *Fds*, *Objs*: two or three, so that tables fill. *MaxOpens* 3 caps
  `i_open_cnts`.
- *Direct* 2, *Total* 4, *BlockSize* 2 stand for 12, 140 and 512: writes of 3 and 4
  bytes end inside blocks and on their boundaries, in the direct part and in the
  table. *Width* stands for 2^32. *Blocks* 6 are fewer than the two files can hold, so
  that they compete for them, also for those of a file that is being deleted.

## 5. Fairness

Liveness is stated under: the timer interrupt stays pending while interrupts are
off and is taken when they are on again (strong fairness of `Timer`, and of
`intr_hd_handler`); the thread on the CPU executes between two interrupts, so a
step of its own is not put off for ever while it keeps being scheduled (strong
fairness of each thread's steps of kernel code); the disk finishes what it is
told (weak fairness of `Disk`). Clients are assumed to leave a critical section
(`CallRelease`) and readers to read again (`Call` in Keyboard): both are what the
callers in `src/` do. The keyboard is under no fairness: keys need not be pressed. Nothing forces a thread to ask for a lock.

The lock is not fair to the individual: `sema_up` wakes the first waiter, but a
newcomer can take the unit before it runs, and then the woken one queues again at
the tail. `ImplementsFairLock` therefore promises that *somebody* is granted it.

## 6. What is proved

`tlapm` checks the following for every set of threads, keys, heaps, pages, frames,
files and blocks, all priorities and every nesting depth, from the named assumptions on the
constants alone. These say that sets that the code keeps apart are disjoint, that
sizes are positive numbers, and that NULL is none of the values it stands beside:
`SchedAssumption`, `MainAssumption`, `SyncAssumption`, `IdeAssumption`;
`KeyAssumption` (no key has the code of the prefix, and no key with a character is a
modifier, as in `keymap` of `device/keyboard.c`); `PoolAssumption` (the kernel's
frames lie below the user's, which is how `mfree_page` tells the pools apart);
`ArenaAssumption`; and `DataAssumption` (the largest file, and a read of it, stay well
below 2^32: the files of this system have at most 140 blocks, and a buffer lies in the
3 GB of a process). None of them restricts who runs beside whom: where the code does
not keep two callers apart, a history variable records that they have met (`raced`,
`broken`, `overlap`), and the theorems say what holds until then. TLC evaluates each of them in its run. Every inductive invariant
below was first checked by TLC as an invariant of the run of its module.

*SchedProofs* has what the list operations do to membership and duplicates, and
one lemma per scheduler primitive: `schedule`, `thread_block`, `thread_unblock`,
`thread_yield` and the timer handler preserve
`SchedInv == SchedTypeOK /\ ReadyListExact /\ IdleParked /\ NoPanic`.
ReadyListExact alone is not inductive: `schedule` on an empty list unblocks idle,
and needs that idle is then BLOCKED (IdleParked, and ReadyListExact for "not
READY, not RUNNING").

*ThreadProofs*: `IInv` adds that `thread_all_list` holds exactly the threads that
exist, less those whose `thread_start` is not finished, each of which has one
caller: the second ASSERT of `thread_start` rests on it. From it:
`ThreadTypeCorrect`, `ReadyListSafe`, `IdleStaysParked`, `ThreadNeverPanics`, and
the action property `IdleWokenLast`, which is about waking: an idle thread that is
preempted is queued like any other and can get the CPU while others are ready.

*SyncLockProofs*: `IInv` is SchedInv, the types, and
`UnitInv` (value is 1 or 0 and 0 exactly when one thread owns the unit),
`HolderInv` (holder and holder_repeat_nr at each place of lock_acquire and
lock_release), `NestInv` (the client's calls agree with holder_repeat_nr),
`WaitersExact` and `WakeupInv`. Mutual exclusion follows from UnitInv, but UnitInv
is preserved only because a thread never finds itself as `holder` without the
unit, which is HolderInv. Results: `LockTypeCorrect`, `LockMutualExclusion`,
`LockWaitersExact`, `LockNoLostWakeup`, `LockNeverPanics` and `LockRefinement`
(every behaviour of `sync.c` is one of LockAbs, by StepRefines: each step of the
code is the corresponding step of the abstract lock or a stutter).

*KeyboardProofs*: `IInv == IoqInv /\ KeyInv`. For the queue, `SleepInv`: the lock's
holder is the thread in `ioq_wait`, `consumer` is such a thread, the lock's queue
holds threads that came for it, and these two are the only blocked ones. SleepersExact
alone is not inductive: that the next sleeper finds nobody recorded (the ASSERT of
`ioq_wait`) rests on the lock being held by the thread that was. For the keys,
KeysInStep speaks of the moments between two scan codes, so KeyInv adds what holds
after the first byte of two: the prefix is set exactly then, and a modifier's flag may
still be set although its key is up when the byte to come is the end of that key's
break code. Results: `KeyboardTypeCorrect`, `ReadersSleepExactly`,
`KeysStayInStep`, and `RingRefinement`: the ring, seen as the sequence from `tail`
to `head`, implements Fifo for every size of the buffer.

*IdeProofs*: `IInv` is SchedInv with `ChannelInv` (the lock's holder is the thread
that has the channel, its waiters are the ones blocked at it), `SleepInv` (who sleeps
on `disk_done` and who is blocked), `SemaInv` and `DiskInv` (the state of the disk at
each place of `ide_read` and `ide_write`). SemaInv is the heart: from `cmd_out` to
the end of its `sema_down` an interrupt is either still expected or has been counted
in `value`, never both and never neither, and outside of it neither. The one that is
counted may be of an earlier command that `ide_write` did not wait for; that is why
the invariant does not say whose it is. Results: `OwnData` and `InterruptNotLost`.

*PagePoolProofs*: there are two invariants, because two different things protect the
allocator. `PageInv` (types, the pool locks, the stage of each call, the runs that
were handed out, VaddrExact) follows from the locks, for every mix of threads,
preemptible or not: `AddressesExact`, and `AllocatorAsserts` (the ASSERTs of
`page_table_add` at `kernel/memory.c:157` and `:178`, those of `mfree_page` at `:588`
and `:604`, and that of `lock_release`). `FrameInv` (no frame in two places, the
bitmap exact, and a frame found by a scan still free when it is marked) needs more:
a page table is taken from the kernel pool under the lock of the caller's own pool
(`:167`), so a thread of the kernel pool that is preempted between scan and set can
be left with the frame of a page table. `FramesExclusive` and `PoolsExact` are
therefore stated in two parts, for every mix of threads: that no frame is given to two
pages, that the frame of a mapped page is never free, and that every bit that is set
has a page or a page table, hold always;
that page tables are apart as well, and their bits set, holds until `raced`. The boot
is a case where it can happen (section 7). The proofs go through the function from
places to frames (`holding`), with one lemma for each of taking, dropping and moving a
frame.

*ArenaProofs*: the invariant is stated for one heap, as a relation between the values
that belong to it (`HeapOK`), page by page (`PageOK`): the blocks of an arena the
heap made itself are divided between its list and the blocks in use, and cnt counts
the former; an arena copied by `sys_fork` has no block on a list of the child. The
ASSERTs about the lists at `kernel/memory.c:508` and `:656` are instances of it.
BlockExclusive and ArenaExact need each other: that cnt reaches PerArena only when no
block is in use rests on the list having no duplicates, and that a page which is given
back leaves nothing on a list rests on the count. `Fill`, `Pop`, `Put` and `Drop` are
the halves of `sys_malloc` and `sys_free`. Results: `PagesOfRequests`,
`BlocksExclusive`, `ArenasExact`, each up to the first block that a child frees of an
arena it got by fork (`broken`). What `Without` leaves of a list is proved for lists
of any length: the library's induction theorems cannot be used, but a least
counterexample can (`LeastOfNat`, `RestEquation`, `WithoutElems`).

*FileDataProofs*: none of ReadsBack, BlocksExact and SectorsHold is inductive, and none
can be proved without the others: a byte is where it was written only as long as its
block is not given to another file, and a block is not given away only as long as the
addresses are in step with the size. `IInv` looks at a file through `Addrs(f)`, the
addresses that it has once the table that `file_write` holds in memory is on the disk,
with one more for the table itself. `Exact`: no address occurs twice, in one file or
two, and the bitmap marks the ones that occur. `FileOK` (`Shape`, `Call`, `Stored`): the
addresses that are set are the first `Count`, which is the number of blocks the size
calls for, or in the middle of a `file_write` the number allocated so far; a table is
there exactly when one is needed; the addresses that `file_write` goes on with are those
of the file (`writer[f]`, the last to have called it, is the only one in the middle of
it); and on the disk there are the bytes written, one chunk more between the
write of a block and the growth of the file. `ProcOK`: a `file_read` in progress holds
the right addresses for the bytes it still has to read and has the right bytes so far.
The position that `file_write` leaves on an empty file, `i_size - 1` of an unsigned 0
(`fs/file.c:464`), is part of it: `pos = Width - 1`. With `Addrs` an allocation sets one
address (`ExactSet`), `inode_release` clears those of one file (`ExactClear`) and gives
their bits back later (`going`), and the other steps change none (`SameAddrs`), so that other files and their readers are left
alone (`FileKept`, `ProcKept`). A reader that began before an allocation keeps addresses
that are still right, because a file that is open is not released and `file_write`
changes no address that is set. Results: `FilesSound` (`[](overlap \/ IInv)`),
`BlocksNeverShared`, `ReadsReturnWritten`, `SectorsAlwaysHold`, all of them until two
calls of `file_write` to one file overlap: the second would count the blocks of a file
that is growing, which `write_deny` does not prevent (section 7). The ASSERTs that do fail
on the largest sizes (section 7) are `panic = "write"` and `"read"`, which stop the
machine and about which nothing is claimed.

Only model-checked:

- liveness (`ReadyRuns`, `ImplementsFairLock`, `CharRead`, `ChannelReleased`), which is
  outside the prover;
- Dir (with the refinement of TreeAbs), whose operators are recursive functions over
  directories and paths and whose properties compare trees, that is, need an
  induction over their structure;
- FileTable (FdSafe, InodesSafe, InodeKept) and Volume (PartitionsExact, BlocksSound,
  ScanFindsFirst): not attempted. The latter's `bitmap_scan` is defined by recursion
  over the bits, and what it finds needs an induction over them.

## 7. Where the code departs from its own comments

Two departures have a run that shows them (`file_slot`, `dir_cwd`). The modules have
most of the others too: a property either says what the code does, or stops claiming
at the moment the departure happens, which a variable records. For each, where it is
to be seen:

- `fs/fs.c:848`, run `dir_cwd`: `sys_rmdir` does not ask whether a process is in the
  directory.
- `device/io_queue.c:86`: a reader that waited for the lock sleeps on a queue that
  is no longer empty (the invariant "consumer # NULL => ioq_empty" fails). With
  readers that keep reading the character is still read (`CharRead`).
- `device/ide.c:316`: `ide_write` of several sectors returns at the first interrupt;
  the next command is written to a disk that is still busy. `DataOfOwnCommand` and
  `NoLostInterrupt` hold all the same, for the disk of the model.
- `lib/kernel/bitmap.c:51`: when the bit after the bitmap is clear, a run can be
  returned that ends there; `ScanFindsFirst` says exactly when. In PagePool it stops
  the model (`PastEnd`). `bitmap.c:32`: on a full bitmap the ASSERT stops the machine,
  where `bitmap.h:42` promises -1; ScanFindsFirst is about the others.
- `kernel/memory.c:167`: a page table and a kernel page can get the same frame
  (`raced` in PagePool). `main` in `filesys_init` (`kernel/init.c:29`) beside `init` in
  `start_process` (`thread/thread.c:364`) is a case; k1 and p1 of the run are these.
- `user_process/fork.c:30`: a block the child frees is linked into the parent's free
  list (`sys_free_forked` and `broken` in Arena).
- `fs/file.c:270`: any close clears `write_deny`, so a second writer is let in
  (`overlap` in FileData). The block counts of the two then disagree; the ASSERT at
  `fs/file.c:388` can fail, or a block be lost.
- `fs/inode.c:145`, in a scenario with overlap: an inode is loaded twice
  (InodesSafe without its condition).
- `user_process/fork.c:141`: parent and child share a `file_table` entry without a
  count. The first close empties it (`torn`): the other descriptor then refers to
  nothing, or to a file opened later, and a second close follows a NULL inode (panic
  "null").
- `fs/fs.c:596` and `fs/inode.c:223`, with overlap: a file can be opened during its
  deletion, and two deletions fail the ASSERT of `inode_release` (FdSafe and
  InodesSafe without their condition).
- `fs/file.c:148`: `file_create` takes the inode from the heap of the caller, where
  `inode_open` (`fs/inode.c:128`) takes care to use the kernel's. When a process has
  created the file, the last close fails `sys_free`'s ASSERT (`kernel/memory.c:634`,
  panic "heap"), and another task that finds the inode follows a pointer into its own
  memory (panic "foreign"). No property claims that this does not happen.
- `fs/file.c:347` and `:532`: a write to exactly the largest size, and a read of the
  last blocks, fail an ASSERT (panic "write" and "read" of FileData). The comment at
  `fs/file.c:287` promises the size: 「文件目前最大只支持512*140=71680字节」 ("a file has
  at present at most 512*140 = 71680 bytes"), and the test below it refuses only more.
- `fs/file.c:404`: the block of the indirect table is allocated without `bitmap_sync`;
  when the machine stops before another block of the same sector is synced, its bit is
  lost (`block_bitmap_alloc(FALSE)` in Volume).
- `fs/file.c:508` and `:288`: for a count near 2^32 the sum with the position or the size
  wraps around, and a read is not cut at the end of the file, nor a write refused
  (the counts of the model stay below that).
- `fs/fs.c:184`: partition_format clears one bit after the last block's, where the
  comment at line 171 wants the surplus set. Volume's `FreshBits` does the same, and
  BlocksSound makes no claim about that bit. When the
  bitmap needs all the sectors set aside for it, that block is the first sector
  after the partition.
- `fs/inode.c:68`: the inode number is cut to 8 bits and inode 256 overwrites the
  root's (`Cut` in Dir). DiskUpToDate says that memory and disk agree exactly as long
  as there is no such number.
- `fs/fs.c:576`: `sys_unlink` does not compare the depths, so `rm /f/x` removes the
  file `/f`. `Unlink` of TreeAbs says so.
- `fs/fs.c:678`: a mkdir that finds no block for the parent's new entry stops the
  machine with the block of the new directory lost (`lost` in Dir).
- `device/ide.c:413`: four primary partitions fail the ASSERT (Volume ends in panic).
- `device/keyboard.c:156`: one flag for two shift keys; releasing one clears it
  (the converse of KeysInStep).
- `thread/thread.c:65`: `allocate_pid` reads the counter after `lock_release`; a
  caller with interrupts on, of which there is none outside the test programs of
  `kernel/main.c`, could return another's pid.
- Read in the code and not modelled: `fs/inode.c:90` (read, change and write of a
  shared sector), `fs/dir.c:337` (a loop that does not advance), `fs/fs.c:151`
  (the magic number is written first, so a format that is cut short counts as
  done), `fs/fs.c:430` (open of an existing file keeps its parent open),
  `fs/fs.c:391` (two creations of one path), `fs/fs.c:1059` and `device/ide.c:58`
  (indices and base are not reset for a second disk), `fs/fs.c:1105` (`fd_idx++`
  twice, so half of `file_table` is cleared, which is zero anyway),
  `shell/buildin_cmd.c:207` (`ls -l` returns without `closedir`),
  `shell/shell.c:159` (clears 512 bytes of a 64-byte array), `kernel/memory.c:267`
  (return with the lock held, after an allocation that cannot fail),
  `device/ide.c:213` (`time_limit -= 10 >= 0` takes 1 off, so `busy_wait` gives up
  after 300 s and not 30), `device/timer.c:81` (high byte of
  the counter).

## 8. What is not modelled

- *Sequential text*: `readline`, `cmd_parse`, the characters of paths and names,
  `string.c`, `printk` and the console. A path is its sequence of names.
- *The table of indirect blocks of a directory* (more than 252 entries): the code
  that walks it does not terminate (section 7).
- *The sectors of the inode table*: inodes are written one by one.
- *The layout of memory* that `mem_pool_init` computes, with page counts of 16 bits:
  the pools of PagePool are constants.
- *A disk that does not answer*: `busy_wait` gives up and its callers PANIC.
- *What follows* after `raced` has led to a frame in two places is modelled as far as
  pools and page tables go, not the contents of the frames; after `broken`, `overlap`,
  `Cut`, `PastEnd` and the panics "heap" and "foreign" behaviours end.
- *`exec`'s file format*, the page directory and register image a process starts
  with, fork's copy of pages, descriptor tables, the set-up of the 8259A and 8253,
  and the boot code: computed once, from constants, before anything interleaves.
- *Pid allocation*: atomic in the kernel as shipped (section 7).
- *The failure paths of a full pool* (`malloc_page` returning NULL, the early returns
  of `copy_process`, the rollback of `sys_mkdir`) cannot be reached:
  `bitmap_scan` has already stopped the machine.
- *Overlapping directory calls*: Dir's calls are atomic; what the overlap of calls
  does to descriptors and inodes is in FileTable.

The reason for each component is in `PROJECT.json`, `components`.

## 9. Plan

Done: Sched, Thread, SyncLock, LockAbs, Mutex, IoQueue, Fifo, Keyboard, Ide, Bitmap,
Volume, PagePool, Arena, FileTable, FileData, Dir, TreeAbs; proofs of Thread,
SyncLock, IoQueue and Keyboard, Ide, PagePool, Arena and FileData.

Next, in this order:

1. Proofs: InodeKept of FileTable (whose `inode_close` filters a list, as `sys_free`
   does); the layout arithmetic of Volume (`BlocksSound`'s first two conjuncts for
   every size). For each an inductive invariant is to be checked with TLC first.
2. *Inode sectors*: `inode_locate` and `inode_sync` with two inodes in a sector and
   overlapping calls.
3. The start of external programs by the shell: fork, `execv` and the pages of
   `segment_load` together.
