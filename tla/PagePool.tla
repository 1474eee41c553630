------------------------------ MODULE PagePool ------------------------------
(***************************************************************************)
(* The page allocator of kernel/memory.c: malloc_page, get_a_page and      *)
(* mfree_page on the two physical pools and the virtual address pools,     *)
(* under the pool locks, with page_table_add taking page tables from the   *)
(* kernel pool.                                                            *)
(*                                                                         *)
(* The scheduler is reduced to what matters here: a thread with interrupts *)
(* on can be preempted between any two steps, one with interrupts off      *)
(* (mask) runs until it returns or waits for a lock.  The locks are taken  *)
(* and released at the grain of LockAbs.                                   *)
(*                                                                         *)
(* Any threads may run together.  A page table is looked for in the kernel *)
(* pool without that pool's lock, so a kernel thread that was preempted    *)
(* between bitmap_scan and bitmap_set can be left with the same frame; the *)
(* boot is such a case: main in filesys_init beside init in start_process. *)
(* The history variable raced records that it has happened.                *)
(***************************************************************************)
EXTENDS Integers, FiniteSets, FiniteSetsExt

CONSTANTS KThreads,   \* callers of the kernel pool: kernel threads, and
                      \* processes while sys_fork is in get_kernel_pages
          Procs,      \* processes: user pool
          IntrOn,     \* the threads that run the allocator with interrupts on
          Casts,      \* the sets of threads that run together
          KFrames,    \* frames of the kernel pool, numbers
          UFrames,    \* frames of the user pool, larger numbers
          Pages,      \* pages of a virtual address pool, numbers
          TableSize,  \* pages a page table maps (1024 in the code)
          MaxPages,   \* bound on pg_cnt
          NULL

Threads == KThreads \cup Procs
Kernel == "kernel"            \* the address space the kernel threads share
Spaces == Procs \cup {Kernel}
Space(t) == IF t \in Procs THEN t ELSE Kernel
Pool(t) == IF t \in Procs THEN UFrames ELSE KFrames
Lock(t) == IF t \in Procs THEN "user_pool" ELSE "kernel_pool"
Table(v) == v \div TableSize

ASSUME PoolAssumption ==
  /\ KThreads \cap Procs = {} /\ Kernel \notin Procs
  /\ IntrOn \subseteq Threads
  /\ Casts \subseteq SUBSET Threads
  /\ KFrames \subseteq Nat /\ UFrames \subseteq Nat /\ Pages \subseteq Nat
  /\ \A i \in KFrames, j \in UFrames : i < j
  /\ TableSize \in Nat \ {0} /\ MaxPages \in Nat \ {0}
  /\ NULL \notin Nat /\ NULL \notin Threads

VARIABLES cast,     \* the threads that use the allocator
          used,     \* the frames whose bit is set, of both pools
          vused,    \* the pages whose bit is set, per address space
          pte,      \* the frame each page is mapped to, or NULL
          pde,      \* the frame of each page table of a process, or NULL
          lock,     \* the holder of each pool lock, or NULL
          mask,     \* the thread that runs with interrupts off, or NULL
          todo,     \* the pages malloc_page still has to map, or mfree_page frees
          given,    \* history: the runs of pages malloc_page has returned
          raced,    \* history: a page and a page table were given one frame
          frame,    \* the frame palloc found for the page
          table,    \* the frame palloc found for its page table
          pc,
          panic

vars == <<cast, used, vused, pte, pde, lock, mask, todo, given, raced, frame, table, pc,
          panic>>

Tables == {Table(v) : v \in Pages}

Init ==
  /\ cast \in Casts
  /\ used = {}
  /\ vused = [s \in Spaces |-> {}]
  /\ pte = [s \in Spaces |-> [v \in Pages |-> NULL]]
  /\ pde = [p \in Procs |-> [d \in Tables |-> NULL]]
  /\ lock = [l \in {"user_pool", "kernel_pool"} |-> NULL]
  /\ mask = NULL
  /\ todo = [t \in Threads |-> {}]
  /\ given = [s \in Spaces |-> {}]
  /\ raced = FALSE
  /\ frame = [t \in Threads |-> NULL]
  /\ table = [t \in Threads |-> NULL]
  /\ pc = [t \in Threads |-> "out"]
  /\ panic = FALSE

at(t, l) == mask \in {NULL, t} /\ pc[t] = l
goto(t, l) == pc' = [pc EXCEPT ![t] = l]

----------------------------------------------------------------------------
Enter(t, l) ==
  /\ at(t, "out")
  /\ mask' = IF t \in IntrOn THEN NULL ELSE t
  /\ goto(t, l)
  /\ UNCHANGED <<used, vused, pte, pde, lock, frame, table, panic>>

\* get_kernel_pages, get_user_pages or sys_malloc; or get_a_page, for the
\* stack of a process (start_process) and what it loads (segment_load).
CallAlloc(t) == Enter(t, "alloc") /\ UNCHANGED <<todo, given>>
CallGet(t) == t \in Procs /\ Enter(t, "get") /\ UNCHANGED <<todo, given>>

\* sys_free of a large block: of pages that were returned together.
CallFree(t, run) ==
  /\ Enter(t, "free")
  /\ given' = [given EXCEPT ![Space(t)] = @ \ {run}]
  /\ todo' = [todo EXCEPT ![t] = run]

\* lock_acquire: wait, giving up the CPU, or take the lock.
lock_wait(t) ==
  /\ at(t, "alloc") \/ at(t, "get") \/ at(t, "free")
  /\ lock[Lock(t)] # NULL
  /\ mask = t
  /\ mask' = NULL
  /\ UNCHANGED <<used, vused, pte, pde, lock, todo, given, frame, table, pc, panic>>

lock_take(t, from, to) ==
  /\ at(t, from)
  /\ lock[Lock(t)] = NULL
  /\ lock' = [lock EXCEPT ![Lock(t)] = t]
  /\ mask' = IF t \in IntrOn THEN NULL ELSE t
  /\ goto(t, to)
  /\ UNCHANGED <<used, vused, pte, pde, todo, given, frame, table, panic>>

\* The first run of n pages whose bits are clear, or {}.
FreeRun(s, n) ==
  LET runs == {v \in Pages : v..v + n - 1 \subseteq Pages \ vused[s]}
  IN  IF runs = {} THEN {} ELSE Min(runs)..Min(runs) + n - 1

\* bitmap_scan also tests the bit after its last one: with that bit clear the
\* last n - 1 pages are a run.  Nothing is modelled of what follows.
PastEnd(s, n) ==
  n > 1 /\ FreeRun(s, n) = {} /\ \A v \in Pages : v > Max(Pages) - n + 1 => v \notin vused[s]

\* vaddr_get: without any free bit bitmap_scan stops the machine, without a
\* long enough run malloc_page returns NULL; the run of a process may not
\* start at its last page, which is its stack.
vaddr_get(t, n) ==
  LET run == FreeRun(Space(t), n)
      stops == \/ vused[Space(t)] = Pages
               \/ t \in Procs /\ run # {} /\ Min(run) = Max(Pages)
  IN  /\ at(t, "vaddr_get")
      /\ panic' \in {stops, stops \/ PastEnd(Space(t), n)}
      /\ vused' = [vused EXCEPT ![Space(t)] = @ \cup run]
      /\ todo' = [todo EXCEPT ![t] = run]
      /\ given' = [given EXCEPT ![Space(t)] = @ \cup ({run} \ {{}})]
      /\ goto(t, IF run = {} THEN "unlock" ELSE "scan")
      /\ UNCHANGED <<used, pte, pde, lock, mask, frame, table>>

\* get_a_page of a page that is not mapped (segment_load tests that).  Its
\* assertion excludes the first page of the address space.
get_a_page(t, v) ==
  /\ at(t, "set_vaddr")
  /\ pte[t][v] = NULL
  /\ IF v = Min(Pages)
     THEN panic' = TRUE /\ UNCHANGED <<vused, todo, pc>>
     ELSE /\ vused' = [vused EXCEPT ![t] = @ \cup {v}]
          /\ todo' = [todo EXCEPT ![t] = {v}]
          /\ goto(t, "scan")
          /\ UNCHANGED panic
  /\ UNCHANGED <<used, pte, pde, lock, mask, given, frame, table>>

\* palloc's bitmap_scan of a pool, into one of the thread's variables.
bitmap_scan(pool) == Min(pool \ used)

palloc_scan(t) ==
  /\ at(t, "scan")
  /\ IF Pool(t) \subseteq used
     THEN panic' = TRUE /\ UNCHANGED <<frame, pc>>
     ELSE /\ frame' = [frame EXCEPT ![t] = bitmap_scan(Pool(t))]
          /\ goto(t, "set")
          /\ UNCHANGED panic
  /\ UNCHANGED <<used, vused, pte, pde, lock, mask, todo, given, table>>

\* Mutant: palloc does not mark the frame it found.
Mut_palloc_unmarked(t) ==
  /\ at(t, "set")
  /\ goto(t, "map")
  /\ UNCHANGED <<used, vused, pte, pde, lock, mask, todo, given, frame, table, panic>>

\* palloc's bitmap_set.
palloc_set(t) ==
  /\ at(t, "set")
  /\ used' = used \cup {frame[t]}
  /\ goto(t, "map")
  /\ UNCHANGED <<vused, pte, pde, lock, mask, todo, given, frame, table, panic>>

\* The page is mapped; the next one, or the end.
Map(t) ==
  LET v == Min(todo[t])
  IN  /\ panic' = (pte[Space(t)][v] # NULL)
      /\ pte' = [pte EXCEPT ![Space(t)][v] = frame[t]]
      /\ frame' = [frame EXCEPT ![t] = NULL]
      /\ todo' = [todo EXCEPT ![t] = @ \ {v}]
      /\ goto(t, IF todo[t] = {v} THEN "unlock" ELSE "scan")

\* page_table_add when the page table exists (the kernel's all do).
page_table_add(t) ==
  /\ at(t, "map")
  /\ t \in Procs => pde[t][Table(Min(todo[t]))] # NULL
  /\ Map(t)
  /\ UNCHANGED <<used, vused, pde, lock, mask, given, table>>

\* page_table_add without page table: palloc(&kernel_pool), whatever lock
\* the thread holds.
table_scan(t) ==
  /\ at(t, "map")
  /\ t \in Procs
  /\ pde[t][Table(Min(todo[t]))] = NULL
  /\ IF KFrames \subseteq used
     THEN panic' = TRUE /\ UNCHANGED <<table, pc>>
     ELSE /\ table' = [table EXCEPT ![t] = bitmap_scan(KFrames)]
          /\ goto(t, "table")
          /\ UNCHANGED panic
  /\ UNCHANGED <<used, vused, pte, pde, lock, mask, todo, given, frame>>

table_set(t) ==
  /\ at(t, "table")
  /\ used' = used \cup {table[t]}
  /\ pde' = [pde EXCEPT ![t][Table(Min(todo[t]))] = table[t]]
  /\ table' = [table EXCEPT ![t] = NULL]
  /\ Map(t)
  /\ UNCHANGED <<vused, lock, mask, given>>

\* The page of its run that mfree_page is at.
FreedPage(t) == Min({v \in todo[t] : pte[Space(t)][v] # NULL})

\* Mutant: the frame's bit is not cleared.
Mut_pfree_leaks(t) ==
  /\ at(t, "pfree")
  /\ goto(t, "unmap")
  /\ UNCHANGED <<used, vused, pte, pde, lock, mask, todo, given, frame, table, panic>>

\* mfree_page, page by page: pfree gives the frame back, which the assertion
\* expects to be of the thread's own pool ...
pfree(t) ==
  /\ at(t, "pfree")
  /\ panic' = (pte[Space(t)][FreedPage(t)] \notin Pool(t))
  /\ used' = used \ {pte[Space(t)][FreedPage(t)]}
  /\ goto(t, "unmap")
  /\ UNCHANGED <<vused, pte, pde, lock, mask, todo, given, frame, table>>

\* ... and the page table entry is cleared;
page_table_pte_remove(t) ==
  LET v == FreedPage(t)
  IN  /\ at(t, "unmap")
      /\ pte' = [pte EXCEPT ![Space(t)][v] = NULL]
      /\ goto(t, IF \A w \in todo[t] \ {v} : pte[Space(t)][w] = NULL
                 THEN "vaddr_remove" ELSE "pfree")
      /\ UNCHANGED <<used, vused, pde, lock, mask, todo, given, frame, table, panic>>

\* Mutant: the bit of the first page only is cleared.
Mut_vaddr_remove_leaks(t) ==
  /\ at(t, "vaddr_remove")
  /\ vused' = [vused EXCEPT ![Space(t)] = @ \ {Min(todo[t])}]
  /\ todo' = [todo EXCEPT ![t] = {}]
  /\ goto(t, "unlock")
  /\ UNCHANGED <<used, pte, pde, lock, mask, given, frame, table, panic>>

\* then the bits of all its pages.
vaddr_remove(t) ==
  /\ at(t, "vaddr_remove")
  /\ vused' = [vused EXCEPT ![Space(t)] = @ \ todo[t]]
  /\ todo' = [todo EXCEPT ![t] = {}]
  /\ goto(t, "unlock")
  /\ UNCHANGED <<used, pte, pde, lock, mask, given, frame, table, panic>>

\* copy_process gives its buffer back: mfree_page, without the lock, but with
\* interrupts off.
mfree_buf_page(t, v) ==
  /\ at(t, "out")
  /\ t \in KThreads \ IntrOn
  /\ {v} \in given[Kernel] /\ pte[Kernel][v] # NULL
  /\ given' = [given EXCEPT ![Kernel] = @ \ {{v}}]
  /\ panic' = (pte[Kernel][v] \notin KFrames)
  /\ used' = used \ {pte[Kernel][v]}
  /\ pte' = [pte EXCEPT ![Kernel][v] = NULL]
  /\ vused' = [vused EXCEPT ![Kernel] = @ \ {v}]
  /\ UNCHANGED <<pde, lock, mask, todo, frame, table, pc>>

\* lock_release, and back from the system call.
lock_release(t) ==
  /\ at(t, "unlock")
  /\ panic' = (lock[Lock(t)] # t)
  /\ lock' = [lock EXCEPT ![Lock(t)] = NULL]
  /\ mask' = NULL
  /\ goto(t, "out")
  /\ UNCHANGED <<used, vused, pte, pde, todo, given, frame, table>>

\* A kernel thread and a page table's owner have found the same free frame.
Racing ==
  \E k \in KThreads, p \in Procs :
    pc[k] = "set" /\ pc[p] = "table" /\ frame[k] = table[p]

Next ==
  /\ ~panic
  /\ UNCHANGED cast
  /\ \E t \in cast :
       \/ CallAlloc(t) \/ CallGet(t)
       \/ \E run \in given[Space(t)] : CallFree(t, run)
       \/ lock_wait(t)
       \/ lock_take(t, "alloc", "vaddr_get")
       \/ lock_take(t, "get", "set_vaddr")
       \/ lock_take(t, "free", "pfree")
       \/ \E n \in 1..MaxPages : vaddr_get(t, n)
       \/ \E v \in Pages : get_a_page(t, v)
       \/ palloc_scan(t) \/ palloc_set(t)
       \/ page_table_add(t) \/ table_scan(t) \/ table_set(t)
       \/ pfree(t) \/ page_table_pte_remove(t) \/ vaddr_remove(t)
       \/ \E v \in Pages : mfree_buf_page(t, v)
       \/ lock_release(t)
  /\ raced' = (raced \/ Racing')

Spec == Init /\ [][Next]_vars

----------------------------------------------------------------------------
\* The places that hold a frame: a mapping that is not being taken down, a
\* page table, a thread between palloc and the mapping.
Unmapping(s, v) == \E t \in Threads : Space(t) = s /\ pc[t] = "unmap" /\ v = FreedPage(t)
Places == {<<"pte", s, v>> : s \in Spaces, v \in Pages}
            \cup {<<"pde", p, d>> : p \in Procs, d \in Tables}
            \cup {<<"hand", t, 0>> : t \in Threads}
Holds(x) ==
  CASE x[1] = "pte" -> IF Unmapping(x[2], x[3]) THEN NULL ELSE pte[x[2]][x[3]]
    [] x[1] = "pde" -> pde[x[2]][x[3]]
    [] OTHER -> IF pc[x[2]] \in {"map", "table"} THEN frame[x[2]] ELSE NULL

Mappings == {x \in Places : x[1] # "pde"}

\* No two of the places hold one frame.
Exclusive(places) ==
  LET taken == {x \in places : Holds(x) # NULL}
  IN  \A x, y \in taken : Holds(x) = Holds(y) => x = y

\* palloc gives no frame to two pages, whoever runs together; and none to a
\* page and a page table, or to two page tables, until two scans of the kernel
\* pool have found the same frame (raced), which the code does not prevent.
FrameExclusive == Exclusive(Mappings) /\ (~raced => Exclusive(Places))

\* No frame leaks: a bit that is set is some page's or page table's.  No mapped
\* page's frame counts as free, whoever runs together; no page table's, until
\* two scans of the kernel pool have found the same frame.
PoolExact ==
  LET held(places) == {Holds(x) : x \in places} \ {NULL}
  IN  /\ held(Mappings) \subseteq used /\ used \subseteq held(Places)
      /\ ~raced => held(Places) \subseteq used

\* A page's bit is set exactly while it is mapped or about to be.
VaddrExact ==
  \A s \in Spaces :
    vused[s] = {v \in Pages : pte[s][v] # NULL}
                 \cup UNION {todo[t] : t \in {u \in Threads : Space(u) = s}}

=============================================================================
