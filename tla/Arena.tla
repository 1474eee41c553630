------------------------------- MODULE Arena -------------------------------
(***************************************************************************)
(* sys_malloc and sys_free of kernel/memory.c: pages cut into blocks of    *)
(* one size (arenas), the free lists of the block descriptors, and large   *)
(* requests of whole pages.  The kernel threads share one heap; a process  *)
(* has its own, and sys_fork copies it.                                    *)
(*                                                                         *)
(* Both calls hold the lock of their pool from beginning to end, and a     *)
(* process runs with interrupts off: each call is one action.  A block is  *)
(* <<page, index>>, index 0 standing for a large request.                  *)
(***************************************************************************)
EXTENDS Integers, Sequences, FiniteSets, FiniteSetsExt

CONSTANTS Heaps,     \* the kernel and the processes, each with a heap
          Started,   \* those that exist at the beginning
          Kernel,    \* the heap of the kernel, which cannot be forked
          Pages,     \* bound: the pages of a heap, numbers
          Classes,   \* the block sizes up to 1024
          PerArena,  \* blocks_per_arena of each
          Large,     \* the numbers of pages large requests take
          NULL

ASSUME ArenaAssumption ==
  /\ Started \subseteq Heaps
  /\ Pages \subseteq Nat /\ IsFiniteSet(Pages)
  /\ PerArena \in [Classes -> Nat \ {0}]
  /\ Large \subseteq Nat \ {0}
  /\ NULL \notin Classes \cup Heaps
  /\ NULL \notin [desc : Heaps \cup {NULL}, class : Classes \cup {NULL},
                  cnt : Nat, large : BOOLEAN]

VARIABLES vused,     \* the pages of each heap that are allocated
          arena,     \* struct arena at the beginning of a page, or NULL
          free,      \* free_list of each block descriptor of each heap
          given,     \* the blocks sys_malloc has handed out
          alive,     \* the heaps that exist
          broken     \* a free list was linked through two address spaces

vars == <<vused, arena, free, given, alive, broken>>

\* block_desc_init, for each heap: empty free lists.
Init ==
  /\ vused = [h \in Heaps |-> {}]
  /\ arena = [h \in Heaps |-> [pg \in Pages |-> NULL]]
  /\ free = [h \in Heaps |-> [c \in Classes |-> <<>>]]
  /\ given = [h \in Heaps |-> {}]
  /\ alive = Started
  /\ broken = FALSE

----------------------------------------------------------------------------
\* malloc_page: the first run of n free pages of the heap.
Run(pg, n) == pg..pg + n - 1
FreeRuns(h, n) == {pg \in Pages : Run(pg, n) \subseteq Pages \ vused[h]}

\* arena2block, for all blocks of an arena, in the order of the list.
Blocks(pg, c) == [i \in 1..PerArena[c] |-> <<pg, i>>]

\* sys_malloc up to 1024 bytes: the free list of the size is filled with the
\* blocks of a new arena when it is empty; its first block is handed out.
sys_malloc(h, c) ==
  LET fill == free[h][c] = <<>>
      new  == Min(FreeRuns(h, 1))
      list == IF fill THEN Blocks(new, c) ELSE free[h][c]
      ars  == IF fill
              THEN [arena[h] EXCEPT ![new] =
                      [desc |-> h, class |-> c, cnt |-> PerArena[c], large |-> FALSE]]
              ELSE arena[h]
      b    == Head(list)
  IN  /\ h \in alive
      /\ fill => FreeRuns(h, 1) # {}
      /\ vused' = [vused EXCEPT ![h] = IF fill THEN @ \cup {new} ELSE @]
      /\ free' = [free EXCEPT ![h][c] = Tail(list)]
      /\ arena' = [arena EXCEPT ![h] = [ars EXCEPT ![b[1]].cnt = @ - 1]]
      /\ given' = [given EXCEPT ![h] = @ \cup {b}]
      /\ UNCHANGED <<alive, broken>>

\* sys_malloc over 1024 bytes: n pages, which the arena counts.
sys_malloc_large(h, n) ==
  LET new == Min(FreeRuns(h, n))
  IN  /\ h \in alive
      /\ FreeRuns(h, n) # {}
      /\ vused' = [vused EXCEPT ![h] = @ \cup Run(new, n)]
      /\ arena' = [arena EXCEPT ![h][new] =
                     [desc |-> NULL, class |-> NULL, cnt |-> n, large |-> TRUE]]
      /\ given' = [given EXCEPT ![h] = @ \cup {<<new, 0>>}]
      /\ UNCHANGED <<free, alive, broken>>

\* Mutant: the pages after the first are not given back.
Mut_free_one_page(h, b) ==
  LET a == arena[h][b[1]]
  IN  /\ b \in given[h]
      /\ a.large
      /\ vused' = [vused EXCEPT ![h] = @ \ {b[1]}]
      /\ arena' = [arena EXCEPT ![h][b[1]] = NULL]
      /\ given' = [given EXCEPT ![h] = @ \ {b}]
      /\ UNCHANGED <<free, alive, broken>>

\* sys_free of a large request: mfree_page of its pages.
sys_free_large(h, b) ==
  LET a == arena[h][b[1]]
  IN  /\ b \in given[h]
      /\ a.large
      /\ vused' = [vused EXCEPT ![h] = @ \ Run(b[1], a.cnt)]
      /\ arena' = [arena EXCEPT ![h][b[1]] = NULL]
      /\ given' = [given EXCEPT ![h] = @ \ {b}]
      /\ UNCHANGED <<free, alive, broken>>

\* The list without the blocks of a page: list_remove of each of them.
Without(list, pg) ==
  LET rest[n \in 0..Len(list)] ==
        IF n = 0 THEN <<>>
        ELSE IF list[n][1] = pg THEN rest[n - 1]
        ELSE Append(rest[n - 1], list[n])
  IN  rest[Len(list)]

\* Mutant: the blocks of a page that is given back stay on the list.
Mut_arena_unlinked(h, b) ==
  LET a    == arena[h][b[1]]
      full == a.cnt + 1 = PerArena[a.class]
      list == Append(free[h][a.class], b)
  IN  /\ b \in given[h]
      /\ ~a.large
      /\ a.desc = h
      /\ free' = [free EXCEPT ![h][a.class] = list]
      /\ arena' = [arena EXCEPT ![h][b[1]] = IF full THEN NULL ELSE [a EXCEPT !.cnt = @ + 1]]
      /\ vused' = [vused EXCEPT ![h] = IF full THEN @ \ {b[1]} ELSE @]
      /\ given' = [given EXCEPT ![h] = @ \ {b}]
      /\ UNCHANGED <<alive, broken>>

\* Mutant: the free block is not counted.
Mut_free_not_counted(h, b) ==
  LET a == arena[h][b[1]]
  IN  /\ b \in given[h]
      /\ ~a.large
      /\ a.desc = h
      /\ free' = [free EXCEPT ![h][a.class] = Append(@, b)]
      /\ given' = [given EXCEPT ![h] = @ \ {b}]
      /\ UNCHANGED <<vused, arena, alive, broken>>

\* sys_free of a block: back to the list of its arena's descriptor; an arena
\* all of whose blocks are free is unlinked and given back.
sys_free(h, b) ==
  LET a    == arena[h][b[1]]
      full == a.cnt + 1 = PerArena[a.class]
      list == Append(free[h][a.class], b)
  IN  /\ b \in given[h]
      /\ ~a.large
      /\ a.desc = h
      /\ free' = [free EXCEPT ![h][a.class] = IF full THEN Without(list, b[1]) ELSE list]
      /\ arena' = [arena EXCEPT ![h][b[1]] = IF full THEN NULL ELSE [a EXCEPT !.cnt = @ + 1]]
      /\ vused' = [vused EXCEPT ![h] = IF full THEN @ \ {b[1]} ELSE @]
      /\ given' = [given EXCEPT ![h] = @ \ {b}]
      /\ UNCHANGED <<alive, broken>>

\* sys_free of a block of an arena that was copied by sys_fork: the arena's
\* descriptor is the parent's.  An empty list of the parent gets the block, a
\* longer one keeps its nodes and gets a tail they do not lead to.  Links and
\* nodes are then of two address spaces.  If cnt says that all blocks of the
\* arena are free, its page is given back, unless the ASSERT that finds them
\* on the list stops the machine.  What the lists do later is not modelled:
\* broken ends the behaviour, and nothing is stated of it from there.
sys_free_forked(h, b) ==
  LET a == arena[h][b[1]]
      full == a.cnt + 1 = PerArena[a.class]
      parent == free[a.desc][a.class]
  IN  /\ b \in given[h]
      /\ ~a.large
      /\ a.desc # h
      /\ free' = [free EXCEPT ![a.desc][a.class] = IF parent = <<>> THEN <<b>> ELSE @]
      /\ broken' = TRUE
      /\ \E released \in {FALSE, full} :
           /\ arena' = [arena EXCEPT ![h][b[1]] =
                          IF released THEN NULL ELSE [a EXCEPT !.cnt = @ + 1]]
           /\ vused' = [vused EXCEPT ![h] = IF released THEN @ \ {b[1]} ELSE @]
      /\ given' = [given EXCEPT ![h] = @ \ {b}]
      /\ UNCHANGED alive

\* sys_fork: the pages and their bitmap are copied, the descriptors are new.
sys_fork(h, k) ==
  /\ h \in alive \ {Kernel}
  /\ k \notin alive
  /\ alive' = alive \cup {k}
  /\ vused' = [vused EXCEPT ![k] = vused[h]]
  /\ arena' = [arena EXCEPT ![k] = arena[h]]
  /\ given' = [given EXCEPT ![k] = given[h]]
  /\ UNCHANGED <<free, broken>>

Next ==
  /\ ~broken
  /\ \E h \in Heaps :
       \/ \E c \in Classes : sys_malloc(h, c)
       \/ \E n \in Large : sys_malloc_large(h, n)
       \/ \E b \in given[h] : sys_free(h, b) \/ sys_free_large(h, b) \/ sys_free_forked(h, b)
       \/ \E k \in Heaps : sys_fork(h, k)

Spec == Init /\ [][Next]_vars

----------------------------------------------------------------------------
OnList(h, c) == {free[h][c][i] : i \in 1..Len(free[h][c])}

\* No block is handed out twice: one that is in use is on no free list, and a
\* free list holds a block once, of an arena of its size that is in use.
\* (Until a child frees a block of an arena it got by sys_fork, see there.)
BlockExclusive ==
  \A h \in alive, c \in Classes : ~broken =>
    /\ OnList(h, c) \cap given[h] = {}
    /\ Cardinality(OnList(h, c)) = Len(free[h][c])
    /\ \A b \in OnList(h, c) : arena[h][b[1]] # NULL /\ arena[h][b[1]].class = c

\* Nothing leaks: every block of an arena the heap made itself is in use or on
\* its free list, cnt counts the latter, and no arena is kept with all of its
\* blocks free.
ArenaExact ==
  \A h \in alive, pg \in Pages :
    LET a == arena[h][pg]
        idle == {b \in OnList(h, a.class) : b[1] = pg}
        used == {b \in given[h] : b[1] = pg}
    IN  ~broken /\ a # NULL /\ ~a.large /\ a.desc = h =>
          /\ a.cnt = Cardinality(idle)
          /\ a.cnt + Cardinality(used) = PerArena[a.class]
          /\ used # {}

\* The requests of a heap do not overlap, and its pages are exactly the ones
\* its arenas and large requests take, also in a child that sys_fork has
\* made.  (Until a child frees a block of an arena it got by sys_fork.)
PagesExact ==
  \A h \in alive : ~broken =>
    LET heads == {pg \in Pages : arena[h][pg] # NULL}
        size(pg) == IF arena[h][pg].large THEN arena[h][pg].cnt ELSE 1
    IN  /\ vused[h] = UNION {Run(pg, size(pg)) : pg \in heads}
        /\ \A p, q \in heads : p # q => Run(p, size(p)) \cap Run(q, size(q)) = {}

=============================================================================
