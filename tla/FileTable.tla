----------------------------- MODULE FileTable -----------------------------
(***************************************************************************)
(* Open files: the descriptors of each process, the global file_table, the *)
(* inodes in memory (part->open_inodes) and the calls that change them:    *)
(* sys_open with file_open and file_create, sys_close, sys_unlink, and the *)
(* sharing of descriptors by sys_fork.                                     *)
(*                                                                         *)
(* System calls run with interrupts off, so another process runs only      *)
(* while one waits for the disk: each action is what a call does between   *)
(* two disk accesses, and job[p] is what p goes on with when its access is *)
(* done.  A file is its inode number; a call that fails without leaving a  *)
(* trace is no step.                                                       *)
(***************************************************************************)
EXTENDS Integers, Sequences, FiniteSets, FiniteSetsExt

CONSTANTS Scenarios, \* what is started together, see below
          Kernel,    \* the kernel threads among the processes
          Files,     \* inode numbers, other than Root
          Root,      \* inode number 0, also what a cleared inode on disk says
          Fds,       \* usable indices of a fd_table, numbers
          MaxOpens,  \* bound on i_open_cnts
          NULL

(***************************************************************************)
(* A scenario:                                                             *)
(*   procs     processes and kernel threads                                *)
(*   started   those that exist at the beginning; fork makes the others    *)
(*   creators  those that create files; without any, all files exist       *)
(*   slots     usable indices of file_table, numbers                       *)
(*   objs      bound: the places for inodes in memory, numbers             *)
(*   writes    which opens happen: subset of BOOLEAN, TRUE for writing     *)
(*   unlinks   whether files are deleted                                   *)
(*   overlap   whether a call may begin while another waits for the disk   *)
(***************************************************************************)
ASSUME FileAssumption ==
  /\ Root \notin Files
  /\ MaxOpens \in Nat /\ Fds \subseteq Nat
  /\ \A s \in Scenarios :
       /\ s.started \subseteq s.procs
       /\ s.creators \subseteq s.procs
       /\ s.slots \subseteq Nat /\ s.objs \subseteq Nat
       /\ s.writes \subseteq BOOLEAN /\ s.unlinks \in BOOLEAN /\ s.overlap \in BOOLEAN
       /\ {NULL, "kernel"} \cap s.procs = {}
       /\ NULL \notin s.procs \cup Files \cup {Root} \cup s.slots \cup s.objs

VARIABLES sc,        \* the scenario
          entries,   \* the files with a directory entry on disk
          inodes,    \* the files with an inode on disk
          obj,       \* the inodes in memory: number, i_open_cnts, write_deny, heap
          open,      \* part->open_inodes
          slot,      \* file_table: inode, and whether the flag allows writing
          fd,        \* fd_table of each process
          job,       \* what a process waits for the disk for
          meant,     \* the file each descriptor was opened for
          alive,     \* the processes that exist
          panic,     \* what stopped the system, see below
          torn       \* a descriptor shared through fork was closed (history)

(***************************************************************************)
(* What stops the system, and the model:                                   *)
(*   "null"     an fd_inode that is NULL is followed                       *)
(*   "assert"   inode_release has opened another inode than it was told    *)
(*   "heap"     sys_free is given an inode that is not in the kernel's     *)
(*              heap (memory.c:634)                                        *)
(*   "foreign"  a task comes upon an inode in the heap of another process, *)
(*              where it sees its own memory, or none                      *)
(***************************************************************************)
vars == <<sc, entries, inodes, obj, open, slot, fd, job, meant, alive, panic, torn>>

Procs == sc.procs
Slots == sc.slots
Objs == sc.objs

NoObj == [no |-> NULL, cnt |-> 0, deny |-> FALSE, heap |-> "kernel"]
NoJob == [op |-> "none", file |-> NULL, w |-> FALSE, slot |-> NULL, obj |-> NULL]

Init ==
  /\ sc \in Scenarios
  /\ entries = IF sc.creators # {} THEN {} ELSE Files
  /\ inodes = entries
  /\ obj = [o \in Objs |-> NoObj]
  /\ open = <<>>
  /\ slot = [s \in Slots |-> [inode |-> NULL, w |-> FALSE]]
  /\ fd = [p \in Procs |-> [d \in Fds |-> NULL]]
  /\ job = [p \in Procs |-> NoJob]
  /\ meant = [p \in Procs |-> [d \in Fds |-> NULL]]
  /\ alive = sc.started
  /\ panic = "none"
  /\ torn = FALSE

----------------------------------------------------------------------------
FreeSlots == {s \in Slots : slot[s].inode = NULL}
FreeObjs == {o \in Objs : obj[o].no = NULL}
Ready(p) == p \in alive /\ \A q \in IF sc.overlap THEN {p} ELSE Procs : job[q].op = "none"

\* search_file, by the last block of the directory it reads: whether the path
\* leads to f.
search_file(f) == f \in entries

get_free_slot_in_global == Min(FreeSlots)

\* pcb_fd_install: the slot stays in use when the process has no free
\* descriptor.
pcb_fd_install(p, s, f) ==
  LET free == {d \in Fds : fd[p][d] = NULL}
  IN  IF free = {}
      THEN UNCHANGED <<fd, meant>>
      ELSE /\ fd' = [fd EXCEPT ![p][Min(free)] = s]
           /\ meant' = [meant EXCEPT ![p][Min(free)] = f]

\* file_open after inode_open has returned o: a refused writer leaves its
\* slot and its count behind.
Opened(p, f, w, s, o, inode) ==
  /\ slot' = [slot EXCEPT ![s] = [inode |-> o, w |-> w]]
  /\ IF w /\ inode.deny
     THEN /\ obj' = [obj EXCEPT ![o] = inode]
          /\ UNCHANGED <<fd, meant>>
     ELSE /\ obj' = [obj EXCEPT ![o] = [inode EXCEPT !.deny = @ \/ w]]
          /\ pcb_fd_install(p, s, f)

\* Mutant: inode_open looks at the first inode only.
Mut_Cached_front(f) == {i \in 1..Len(open) : obj[open[i]].no = f /\ i = 1}

\* inode_open's search of open_inodes, from the front.
Cached(f) == {i \in 1..Len(open) : obj[open[i]].no = f}

\* Mutant: the inode that is found is not counted.
Mut_Counted_not(o) == obj[o]

\* The inode that is found is opened once more.
Counted(o) == [obj[o] EXCEPT !.cnt = @ + 1]

\* The inode as it is read from disk: all 0 when it was cleared there.
FromDisk(f) == [no |-> IF f \in inodes THEN f ELSE Root,
                cnt |-> 1, deny |-> FALSE, heap |-> "kernel"]

\* sys_open of a file that is found: file_open, up to inode_open's disk read
\* when the inode is not in memory.
file_open(p, f, w) ==
  /\ Ready(p)
  /\ search_file(f)
  /\ FreeSlots # {}
  /\ IF Cached(f) # {}
     THEN LET o == open[Min(Cached(f))]
          IN  /\ obj[o].cnt < MaxOpens
              /\ Opened(p, f, w, get_free_slot_in_global, o, Counted(o))
              /\ UNCHANGED <<open, job>>
     ELSE /\ FreeObjs # {}
          /\ obj' = [obj EXCEPT ![Min(FreeObjs)].no = f]
          /\ job' = [job EXCEPT ![p] =
                       [op |-> "read", file |-> f, w |-> w,
                        slot |-> get_free_slot_in_global, obj |-> Min(FreeObjs)]]
          /\ UNCHANGED <<open, slot, fd, meant>>
  /\ UNCHANGED <<entries, inodes, alive, panic>>

\* inode_open's disk read is done; file_open goes on with the slot it chose.
inode_open(p) ==
  LET j == job[p]
  IN  /\ j.op = "read"
      /\ open' = <<j.obj>> \o open
      /\ Opened(p, j.file, j.w, j.slot, j.obj, FromDisk(j.file))
      /\ job' = [job EXCEPT ![p] = NoJob]
      /\ UNCHANGED <<entries, inodes, alive, panic>>

\* file_create, up to its first disk access; f is the number
\* inode_bitmap_alloc returns.
file_create(p, f, w) ==
  /\ p \in sc.creators
  /\ Ready(p)
  /\ f \notin entries \cup inodes
  /\ FreeSlots # {}
  /\ FreeObjs # {}
  /\ LET s == get_free_slot_in_global
         o == Min(FreeObjs)
     IN  /\ obj' = [obj EXCEPT ![o].no = f, 
                                   ![o].heap = IF p \in Kernel THEN "kernel" ELSE p]
         /\ slot' = [slot EXCEPT ![s] = [inode |-> o, w |-> w]]
         /\ job' = [job EXCEPT ![p] =
                      [op |-> "entry", file |-> f, w |-> w, slot |-> s, obj |-> o]]
  /\ UNCHANGED <<entries, inodes, open, fd, meant, alive, panic>>

\* sync_dir_entry has written the directory entry.
sync_dir_entry(p) ==
  /\ job[p].op = "entry"
  /\ entries' = entries \cup {job[p].file}
  /\ job' = [job EXCEPT ![p].op = "sync"]
  /\ UNCHANGED <<inodes, obj, open, slot, fd, meant, alive, panic>>

\* sync_dir_entry found no block: file_create's rollback.
rollback(p) ==
  /\ job[p].op = "entry"
  /\ slot' = [slot EXCEPT ![job[p].slot] = [inode |-> NULL, w |-> FALSE]]
  /\ obj' = [obj EXCEPT ![job[p].obj] = NoObj]
  /\ job' = [job EXCEPT ![p] = NoJob]
  /\ UNCHANGED <<entries, inodes, open, fd, meant, alive, panic>>

\* The inodes and the bitmap are on disk: the end of file_create.
file_create_end(p) ==
  LET j == job[p]
  IN  /\ j.op = "sync"
      /\ inodes' = inodes \cup {j.file}
      /\ open' = <<j.obj>> \o open
      /\ obj' = [obj EXCEPT ![j.obj].cnt = 1]
      /\ pcb_fd_install(p, j.slot, j.file)
      /\ job' = [job EXCEPT ![p] = NoJob]
      /\ UNCHANGED <<entries, slot, alive, panic>>

\* inode_close: the last one frees the inode; sys_free, which is told that it
\* runs in a kernel thread, asserts that the block is in the kernel's heap.
\* The inode of a file that a process has created is not.
inode_close(o, inode) ==
  IF inode.cnt = 1
  THEN /\ obj' = [obj EXCEPT ![o] = NoObj]
       /\ open' = SelectSeq(open, LAMBDA x : x # o)
       /\ panic' = IF inode.heap = "kernel" THEN panic ELSE "heap"
  ELSE /\ obj' = [obj EXCEPT ![o] = [inode EXCEPT !.cnt = @ - 1]]
       /\ UNCHANGED <<open, panic>>

\* file_close clears write_deny, whatever the flag.
file_close(s) ==
  LET o == slot[s].inode
  IN  /\ IF o = NULL
         THEN panic' = "null" /\ UNCHANGED <<obj, open>>
         ELSE inode_close(o, [obj[o] EXCEPT !.deny = FALSE])
      /\ slot' = [slot EXCEPT ![s].inode = NULL]

\* Mutant: the descriptor is not given back.
Mut_close_keeps_fd(p, d) ==
  /\ Ready(p)
  /\ fd[p][d] # NULL
  /\ file_close(fd[p][d])
  /\ UNCHANGED <<entries, inodes, fd, meant, job, alive>>

sys_close(p, d) ==
  /\ Ready(p)
  /\ fd[p][d] # NULL
  /\ file_close(fd[p][d])
  /\ fd' = [fd EXCEPT ![p][d] = NULL]
  /\ meant' = [meant EXCEPT ![p][d] = NULL]
  /\ UNCHANGED <<entries, inodes, job, alive>>

\* sys_fork copies the descriptors; update_inode_open_cnts counts the inodes
\* once more, and the file_table entries are shared.
sys_fork(p, q) ==
  LET used == {d \in Fds : fd[p][d] # NULL}
      opens(o) == {d \in used : slot[fd[p][d]].inode = o}
  IN  /\ Ready(p)
      /\ p \notin Kernel
      /\ q \notin alive
      /\ \A o \in Objs : obj[o].cnt + Cardinality(opens(o)) <= MaxOpens
      /\ alive' = alive \cup {q}
      /\ fd' = [fd EXCEPT ![q] = fd[p]]
      /\ meant' = [meant EXCEPT ![q] = meant[p]]
      /\ panic' = IF opens(NULL) # {} THEN "null" ELSE panic
      /\ obj' = [o \in Objs |-> [obj[o] EXCEPT !.cnt = @ + Cardinality(opens(o))]]
      /\ UNCHANGED <<entries, inodes, open, slot, job>>

\* sys_unlink refuses a file that is in file_table.
sys_unlink(p, f) ==
  /\ sc.unlinks
  /\ Ready(p)
  /\ search_file(f)
  /\ \A s \in Slots : slot[s].inode # NULL => obj[slot[s].inode].no # f
  /\ job' = [job EXCEPT ![p].op = "unlink", ![p].file = f]
  /\ UNCHANGED <<entries, inodes, obj, open, slot, fd, meant, alive, panic>>

\* delete_dir_entry has written the directory; inode_release looks for the
\* inode, and reads it when it is not in memory.
delete_dir_entry(p) ==
  LET f == job[p].file
      go(op, o) == [job EXCEPT ![p].op = op, ![p].obj = o]
  IN  /\ job[p].op = "unlink"
      /\ entries' = entries \ {f}
      /\ IF Cached(f) # {}
         THEN LET o == open[Min(Cached(f))]
              IN  /\ obj[o].cnt < MaxOpens
                  /\ obj' = [obj EXCEPT ![o] = Counted(o)]
                  /\ job' = go("release", o)
         ELSE /\ FreeObjs # {}
              /\ obj' = [obj EXCEPT ![Min(FreeObjs)].no = f]
              /\ job' = go("load", Min(FreeObjs))
      /\ UNCHANGED <<inodes, open, slot, fd, meant, alive, panic>>

\* inode_release has its inode, and asserts that it is the right one.
inode_release(p) ==
  LET j == job[p]
  IN  /\ j.op = "load"
      /\ open' = <<j.obj>> \o open
      /\ obj' = [obj EXCEPT ![j.obj] = FromDisk(j.file)]
      /\ panic' = IF FromDisk(j.file).no = j.file THEN panic ELSE "assert"
      /\ job' = [job EXCEPT ![p].op = "release"]
      /\ UNCHANGED <<entries, inodes, slot, fd, meant, alive>>

\* inode_delete has cleared the inode on disk; inode_release closes its own.
inode_delete(p) ==
  /\ job[p].op = "release"
  /\ inodes' = inodes \ {job[p].file}
  /\ inode_close(job[p].obj, obj[job[p].obj])
  /\ job' = [job EXCEPT ![p] = NoJob]
  /\ UNCHANGED <<entries, slot, fd, meant, alive>>

\* The inodes in memory are where p sees them.
Sees(p) == \A o \in Objs : obj[o].no # NULL => obj[o].heap \in {"kernel", p}

\* file_create takes its inode from the heap of its process, and open_inodes
\* and file_table point to it: the next call of another task that walks them.
foreign_inode(p) ==
  /\ p \in alive
  /\ ~Sees(p)
  /\ panic' = "foreign"
  /\ UNCHANGED <<entries, inodes, obj, open, slot, fd, job, meant, alive>>

OpenFds == {x \in Procs \X Fds : fd[x[1]][x[2]] # NULL}

\* History: one of two descriptors with the same file_table entry is closed.
Tear ==
  torn' = (torn \/ \E x, y \in OpenFds : /\ x[1] # y[1]
                                         /\ fd[x[1]][x[2]] = fd[y[1]][y[2]]
                                         /\ fd'[x[1]][x[2]] = NULL)

Next ==
  /\ panic = "none"
  /\ \E p \in Procs :
       \/ foreign_inode(p)
       \/ /\ Sees(p)
          /\ \/ \E f \in Files, w \in sc.writes : file_open(p, f, w) \/ file_create(p, f, w)
             \/ inode_open(p)
             \/ sync_dir_entry(p) \/ rollback(p) \/ file_create_end(p)
             \/ \E d \in Fds : sys_close(p, d)
             \/ \E q \in Procs : sys_fork(p, q)
             \/ \E f \in Files : sys_unlink(p, f)
             \/ delete_dir_entry(p) \/ inode_release(p) \/ inode_delete(p)
  /\ Tear
  /\ UNCHANGED sc

Spec == Init /\ [][Next]_vars

----------------------------------------------------------------------------
FileOf(s) == IF slot[s].inode = NULL THEN NULL ELSE obj[slot[s].inode].no

\* A descriptor refers to the file it was opened for, until its process
\* closes it: no other process takes its file_table entry away.
FdRefersToItsFile ==
  \A x \in OpenFds : FileOf(fd[x[1]][x[2]]) = meant[x[1]][x[2]]

\* An inode in memory lives at least as long as the file_table entries that
\* point to it: i_open_cnts covers them, and no freed inode is reached.
InodeKept ==
  \A s \in Slots :
    LET o == slot[s].inode
    IN  o # NULL =>
          \/ \E p \in Procs : job[p].op \in {"entry", "sync"} /\ job[p].obj = o
          \/ /\ \E i \in 1..Len(open) : open[i] = o
             /\ obj[o].cnt >= Cardinality({t \in Slots : slot[t].inode = o})

\* As long as calls do not overlap, and of two descriptors that fork has
\* given one file_table entry (fork.c:141) none has been closed: a descriptor
\* refers to the file it was opened for until its process closes it, and
\* that file is not deleted (sys_unlink's search of file_table).
FdSafe ==
  ~sc.overlap /\ ~torn =>
    /\ FdRefersToItsFile
    /\ \A x \in OpenFds : meant[x[1]][x[2]] \in entries

\* Under the same conditions open_inodes holds one inode per file, and the
\* inode that inode_release opens has the number of the file it deletes.
InodesSafe ==
  ~sc.overlap /\ ~torn =>
    /\ \A i, j \in 1..Len(open) : obj[open[i]].no = obj[open[j]].no => i = j
    /\ panic # "assert"

=============================================================================
