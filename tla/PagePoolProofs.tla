--------------------------- MODULE PagePoolProofs ---------------------------
(***************************************************************************)
(* The page allocator of kernel/memory.c, for any threads, pools, address  *)
(* spaces and page tables.                                                 *)
(*                                                                         *)
(* PageInv is what the pool locks guarantee of pages and mappings; it is   *)
(* inductive by itself and gives VaddrExact and the ASSERTs.  FrameInv is  *)
(* about the frames.  Page tables come from the kernel pool whatever lock  *)
(* is held, so it has two parts: what holds of the pages' frames whoever   *)
(* runs, and what holds of the page tables' too until two scans of the     *)
(* kernel pool have found the same frame.                                  *)
(***************************************************************************)
EXTENDS PagePool, WellFoundedInduction, TLAPS

----------------------------------------------------------------------------
\* The stages of the calls.
Idle == {"out", "alloc", "get", "vaddr_get", "set_vaddr", "unlock"}
Mapping == {"scan", "set", "map", "table"}
Freeing == {"free", "pfree", "unmap", "vaddr_remove"}

\* The thread holds the lock of its pool.
Inside == {"vaddr_get", "set_vaddr", "pfree", "unmap", "vaddr_remove", "unlock"}
            \cup Mapping

SpacePool(s) == IF s \in Procs THEN UFrames ELSE KFrames

TypeInv ==
  /\ cast \in Casts
  /\ vused \in [Spaces -> SUBSET Pages]
  /\ pte \in [Spaces -> [Pages -> Nat \cup {NULL}]]
  /\ \A s \in Spaces, v \in Pages : pte[s][v] \in SpacePool(s) \cup {NULL}
  /\ pde \in [Procs -> [Tables -> Nat \cup {NULL}]]
  /\ lock \in [{"user_pool", "kernel_pool"} -> Threads \cup {NULL}]
  /\ mask \in Threads \cup {NULL}
  /\ todo \in [Threads -> SUBSET Pages]
  /\ given \in [Spaces -> SUBSET SUBSET Pages]
  /\ frame \in [Threads -> Nat \cup {NULL}]
  /\ table \in [Threads -> Nat \cup {NULL}]
  /\ pc \in [Threads -> Idle \cup Mapping \cup Freeing]

\* Inside the allocator the thread owns the lock and, with interrupts off, the
\* CPU.
LockInv ==
  \A t \in Threads :
    pc[t] \in Inside => /\ lock[Lock(t)] = t
                        /\ t \notin IntrOn => mask = t

\* A run of pages that malloc_page has claimed: each is mapped or about to be.
Backed(s, run) ==
  \A v \in run : \/ pte[s][v] # NULL
                 \/ \E u \in Threads : Space(u) = s /\ pc[u] \in Mapping /\ v \in todo[u]

\* What a call has in hand at each of its stages.
StageInv ==
  \A t \in Threads :
    /\ pc[t] \in Idle => todo[t] = {}
    /\ pc[t] \in {"get", "set_vaddr"} => t \in Procs
    /\ pc[t] \in Mapping => todo[t] # {} /\ \A v \in todo[t] : pte[Space(t)][v] = NULL
    /\ pc[t] \in {"set", "map", "table"} => frame[t] \in Pool(t)
    /\ pc[t] = "table" => /\ t \in Procs /\ table[t] \in KFrames
                          /\ pde[t][Table(Min(todo[t]))] = NULL
    /\ pc[t] \in Freeing => todo[t] # {}
    /\ pc[t] = "free" => Backed(Space(t), todo[t])
    /\ pc[t] \in {"pfree", "unmap"} => \E v \in todo[t] : pte[Space(t)][v] # NULL
    /\ pc[t] = "vaddr_remove" => \A v \in todo[t] : pte[Space(t)][v] = NULL

\* The runs that were returned, and those that are being freed, are apart.
RunsInv ==
  /\ \A s \in Spaces : \A run \in given[s] :
       /\ run # {} /\ run \subseteq vused[s] /\ Backed(s, run)
       /\ \A other \in given[s] : other # run => other \cap run = {}
       /\ \A t \in Threads :
            Space(t) = s /\ pc[t] \in Freeing => todo[t] \cap run = {}
  /\ \A t, u \in Threads :
       t # u /\ Space(t) = Space(u) /\ pc[t] \in Freeing /\ pc[u] \in Freeing
         => todo[t] \cap todo[u] = {}

PageInv == TypeInv /\ LockInv /\ StageInv /\ RunsInv /\ VaddrExact

\* The frame each place holds, as a function.
holding == [x \in Places |-> Holds(x)]

\* No two of the places hold one frame, and the frames they hold have their bit
\* set.
Distinct(h, places) == \A x, y \in places : h[x] # NULL /\ h[x] = h[y] => x = y
Marked(h, places, bits) == \A x \in places : h[x] # NULL => h[x] \in bits

\* Every bit that is set is the frame of some place.
Owned(h, bits) == \A fr \in bits : fr # NULL /\ \E x \in Places : h[x] = fr

\* A frame found for a page is no other page's, until it is marked.
FoundInv ==
  \A t \in Threads : pc[t] = "set" => \A x \in Mappings : holding[x] # frame[t]

\* A frame found is free until it is marked, and no two threads found it.
FreshInv ==
  /\ \A t \in Threads : /\ pc[t] = "set" => frame[t] \notin used
                        /\ pc[t] = "table" => table[t] \notin used
  /\ ~ Racing

PagesApart == Distinct(holding, Mappings) /\ Marked(holding, Mappings, used)
AllApart == Distinct(holding, Places) /\ Marked(holding, Places, used)

FrameInv ==
  /\ PagesApart /\ Owned(holding, used) /\ FoundInv
  /\ ~raced => AllApart /\ FreshInv

IInv == PageInv /\ FrameInv
----------------------------------------------------------------------------
(* The operators of the model. *)

\* Less than, as the relation the library's well-founded induction is about.
LEMMA LessThanRel ==
  ASSUME NEW a \in Nat, NEW b \in Nat, a < b
  PROVE  <<a, b>> \in OpToRel(<, Nat)
BY Zenon DEF OpToRel

\* Min of a set of numbers is its least element: what bitmap_scan finds, and
\* the page that a loop over a run of pages is at.
LEMMA MinOfNat ==
  ASSUME NEW S, S \subseteq Nat, S # {}
  PROVE  Min(S) \in S /\ \A y \in S : Min(S) <= y
<1>1. PICK x \in S : \A y \in S : ~ (<<y, x>> \in OpToRel(<, Nat))
  BY NatLessThanWellFounded, WFMin
<1>2. \A y \in S : ~ (y < x)
  BY <1>1, LessThanRel, Zenon
<1>3. \A y \in S : x <= y
  BY <1>2
<1> QED
  BY <1>3 DEF Min

\* The address space, the pool and the lock of a thread belong together.
LEMMA ThreadFacts ==
  ASSUME NEW t \in Threads
  PROVE  /\ Space(t) \in Spaces
         /\ SpacePool(Space(t)) = Pool(t)
         /\ Lock(t) \in {"user_pool", "kernel_pool"}
         /\ Pool(t) \subseteq Nat
         /\ t # NULL
         /\ \A u \in Threads : Space(u) = Space(t) => Lock(u) = Lock(t)
         /\ t \in Procs => Space(t) = t /\ \A u \in Threads : Space(u) = t => u = t
BY PoolAssumption DEF Threads, Spaces, Space, Pool, SpacePool, Lock, Kernel

\* The run that vaddr_get finds is free.
LEMMA FreeRunIsFree ==
  ASSUME NEW s, NEW n \in Nat \ {0}
  PROVE  FreeRun(s, n) \subseteq Pages \ vused[s]
<1> DEFINE runs == {v \in Pages : v..v + n - 1 \subseteq Pages \ vused[s]}
<1>1. CASE runs = {}
  BY <1>1 DEF FreeRun
<1>2. CASE runs # {}
  <2>1. Min(runs) \in runs
    BY <1>2, MinOfNat, PoolAssumption
  <2> QED
    BY <1>2, <2>1 DEF FreeRun
<1> QED
  BY <1>1, <1>2

\* Only one thread is inside the allocator with a given lock.
LEMMA OneInside ==
  ASSUME LockInv,
         NEW t \in Threads, NEW u \in Threads, Lock(t) = Lock(u),
         pc[t] \in Inside, pc[u] \in Inside
  PROVE  t = u
BY DEF LockInv

----------------------------------------------------------------------------
(* Steps that leave the pages alone. *)

\* A step of one thread within a phase of its call changes no claim on a page.
LEMMA QuietStep ==
  ASSUME PageInv, NEW t \in Threads, NEW l,
         \/ pc[t] \in Idle /\ l \in Idle
         \/ pc[t] \in Mapping /\ l \in Mapping
         \/ pc[t] \in Freeing /\ l \in Freeing,
         pc' = [pc EXCEPT ![t] = l],
         UNCHANGED <<vused, pte, todo, given>>
  PROVE  /\ RunsInv' /\ VaddrExact'
         /\ \A s, run : Backed(s, run) => Backed(s, run)'
<1> USE DEF PageInv, TypeInv
<1>1. \A u \in Threads : /\ pc'[u] \in Mapping <=> pc[u] \in Mapping
                         /\ pc'[u] \in Freeing <=> pc[u] \in Freeing
  BY DEF Idle, Mapping, Freeing
<1>2. \A s, run : Backed(s, run) => Backed(s, run)'
  BY <1>1 DEF Backed
<1>3. RunsInv'
  BY <1>1, <1>2 DEF RunsInv
<1>4. VaddrExact'
  BY DEF VaddrExact
<1> QED
  BY <1>2, <1>3, <1>4

\* The locks and the interrupt flag stay with the thread that is inside.
LEMMA InsideStep ==
  ASSUME PageInv, NEW t \in Threads, NEW l \in Inside,
         pc[t] \in Inside, pc' = [pc EXCEPT ![t] = l], UNCHANGED <<lock, mask>>
  PROVE  LockInv'
BY DEF PageInv, TypeInv, LockInv

\* CallAlloc and CallGet: a call that claims nothing yet.
LEMMA CallKeepsPages ==
  ASSUME PageInv, UNCHANGED cast, NEW t \in Threads, NEW l \in {"alloc", "get"},
         l = "get" => t \in Procs, Enter(t, l), UNCHANGED <<todo, given>>
  PROVE  PageInv'
<1> USE DEF PageInv, Enter, at, goto
<1>1. TypeInv'
  BY DEF TypeInv, Idle
<1>2. LockInv'
  BY PoolAssumption DEF TypeInv, LockInv, Inside, Mapping
<1>3. RunsInv' /\ VaddrExact' /\ \A s, run : Backed(s, run) => Backed(s, run)'
  BY QuietStep DEF Idle
<1>4. StageInv'
  BY <1>3 DEF TypeInv, StageInv, Idle, Mapping, Freeing
<1> QED
  BY <1>1, <1>2, <1>3, <1>4

\* CallFree: the run leaves the history and is the thread's to free.
LEMMA CallFreeKeepsPages ==
  ASSUME PageInv, UNCHANGED cast, NEW t \in Threads,
         NEW run \in given[Space(t)], CallFree(t, run)
  PROVE  PageInv'
<1> USE DEF PageInv, CallFree, Enter, at, goto
<1>1. Space(t) \in Spaces /\ run \subseteq Pages
  BY ThreadFacts DEF TypeInv
<1>2. pc[t] = "out" /\ todo[t] = {} /\ todo'[t] = run /\ pc'[t] = "free"
  BY DEF TypeInv, StageInv, Idle
<1>3. \A u \in Threads : u # t => todo'[u] = todo[u] /\ pc'[u] = pc[u]
  BY DEF TypeInv
<1>4. \A s \in Spaces : given'[s] \subseteq given[s] /\ (s = Space(t) => run \notin given'[s])
  BY DEF TypeInv
<1>5. TypeInv'
  BY <1>1 DEF TypeInv, Freeing
<1>6. LockInv'
  BY PoolAssumption DEF TypeInv, LockInv, Inside, Mapping
<1>7. \A s, r : Backed(s, r) => Backed(s, r)'
  BY <1>2, <1>3 DEF Backed, Mapping
<1>8. run # {} /\ Backed(Space(t), run) /\ run \subseteq vused[Space(t)]
  BY <1>1 DEF RunsInv
<1>9. StageInv'
  <2> SUFFICES ASSUME NEW u \in Threads PROVE StageInv!(u)'
    BY DEF StageInv
  <2>1. CASE u = t
    BY <1>2, <1>7, <1>8, <2>1 DEF Idle, Mapping, Freeing
  <2>2. CASE u # t
    BY <1>3, <1>7, <2>2 DEF StageInv
  <2> QED
    BY <2>1, <2>2
<1>10. RunsInv'
  <2>1. ASSUME NEW u \in Threads, u # t, Space(u) = Space(t), pc[u] \in Freeing
        PROVE  todo[u] \cap run = {}
    BY <1>1, <2>1 DEF RunsInv
  <2>2. ASSUME NEW s \in Spaces, NEW r \in given'[s], s = Space(t)
        PROVE  run \cap r = {}
    BY <1>1, <1>4, <2>2 DEF RunsInv
  <2> QED
    BY <1>2, <1>3, <1>4, <1>7, <2>1, <2>2 DEF RunsInv
<1>11. VaddrExact'
  BY <1>2, <1>3, <1>8 DEF VaddrExact
<1> QED
  BY <1>5, <1>6, <1>9, <1>10, <1>11

\* lock_wait gives up the CPU, and nothing else.
LEMMA WaitKeepsPages ==
  ASSUME PageInv, UNCHANGED cast, NEW t \in Threads, lock_wait(t)
  PROVE  PageInv'
<1> USE DEF PageInv, lock_wait, at
<1>1. TypeInv'
  BY DEF TypeInv
<1>2. LockInv'
  BY PoolAssumption DEF TypeInv, LockInv, Inside, Mapping
<1>3. \A s, r : Backed(s, r) <=> Backed(s, r)'
  BY DEF Backed
<1>4. StageInv' /\ RunsInv'
  BY <1>3 DEF StageInv, RunsInv
<1>5. VaddrExact'
  BY DEF VaddrExact
<1> QED
  BY <1>1, <1>2, <1>4, <1>5

\* lock_take: nobody else is inside.  A run to be freed is mapped by now.
LEMMA TakeKeepsPages ==
  ASSUME PageInv, UNCHANGED cast, NEW t \in Threads, NEW from, NEW to,
         <<from, to>> \in {<<"alloc", "vaddr_get">>, <<"get", "set_vaddr">>,
                           <<"free", "pfree">>},
         lock_take(t, from, to)
  PROVE  PageInv'
<1> USE DEF PageInv, lock_take, at, goto
<1>1. \/ from = "alloc" /\ to = "vaddr_get"
      \/ from = "get" /\ to = "set_vaddr"
      \/ from = "free" /\ to = "pfree"
  OBVIOUS
<1>2. TypeInv'
  BY <1>1, ThreadFacts DEF TypeInv, Idle, Freeing
<1>3. LockInv'
  BY <1>1, ThreadFacts, PoolAssumption DEF TypeInv, LockInv, Inside, Mapping
<1>4. RunsInv' /\ VaddrExact' /\ \A s, run : Backed(s, run) => Backed(s, run)'
  BY <1>1, QuietStep DEF Idle, Freeing
<1>5. from = "free" => \A v \in todo[t] : pte[Space(t)][v] # NULL
  BY <1>1, ThreadFacts DEF TypeInv, LockInv, StageInv, Backed, Inside
<1>6. StageInv'
  BY <1>1, <1>4, <1>5 DEF TypeInv, StageInv, Idle, Mapping, Freeing
<1> QED
  BY <1>2, <1>3, <1>4, <1>6

----------------------------------------------------------------------------
(* Steps that claim, map, unmap or give back pages. *)

\* A thread that is about to claim pages takes free ones: vaddr_get and
\* get_a_page, up to the history of runs.
Claim(t, run) ==
  /\ pc[t] \in {"vaddr_get", "set_vaddr"}
  /\ run # {} /\ run \subseteq Pages \ vused[Space(t)]
  /\ vused' = [vused EXCEPT ![Space(t)] = @ \cup run]
  /\ todo' = [todo EXCEPT ![t] = run]
  /\ given' \in [Spaces -> SUBSET SUBSET Pages]
  /\ \A s \in Spaces : \A r \in given'[s] : r \in given[s] \/ (s = Space(t) /\ r = run)
  /\ pc' = [pc EXCEPT ![t] = "scan"]
  /\ UNCHANGED <<cast, pte, pde, lock, mask, frame, table>>

LEMMA ClaimKeepsPages ==
  ASSUME PageInv, NEW t \in Threads, NEW run, Claim(t, run)
  PROVE  PageInv'
<1> USE DEF PageInv, Claim
<1>1. Space(t) \in Spaces /\ run \subseteq Pages
  BY ThreadFacts
<1>2. todo[t] = {} /\ todo'[t] = run /\ pc'[t] = "scan"
  BY DEF TypeInv, StageInv, Idle
<1>3. \A u \in Threads : u # t => todo'[u] = todo[u] /\ pc'[u] = pc[u]
  BY DEF TypeInv
<1>4. \A s \in Spaces : /\ vused[s] \subseteq vused'[s]
                        /\ s = Space(t) => vused'[s] = vused[s] \cup run
                        /\ s # Space(t) => vused'[s] = vused[s]
  BY <1>1 DEF TypeInv
<1>5. TypeInv'
  BY <1>1 DEF TypeInv, Mapping
<1>6. LockInv'
  BY InsideStep DEF Inside, Mapping
<1>7. \A s, r : Backed(s, r) => Backed(s, r)'
  BY <1>2, <1>3 DEF Backed, Mapping
<1>8. Backed(Space(t), run)'
  BY <1>2 DEF Backed, Mapping
<1>9. \A v \in run : pte[Space(t)][v] = NULL
  BY <1>1 DEF VaddrExact
<1>10. StageInv'
  BY <1>2, <1>3, <1>7, <1>9 DEF StageInv, Idle, Mapping, Freeing
<1>11. \A s \in Spaces : \A r \in given'[s] :
         r \in given[s] \/ (s = Space(t) /\ r = run)
  OBVIOUS
<1>12. \A r \in given[Space(t)] : r \cap run = {}
  BY <1>1 DEF RunsInv
<1>13. \A u \in Threads : Space(u) = Space(t) => todo[u] \cap run = {}
  BY <1>1 DEF VaddrExact
<1>14. \A u \in Threads : pc'[u] \in Freeing => u # t /\ pc[u] \in Freeing /\ todo'[u] = todo[u]
  BY <1>2, <1>3 DEF Freeing
<1>15. RunsInv'
  <2>1. ASSUME NEW s \in Spaces, NEW r \in given'[s]
        PROVE  /\ r # {} /\ r \subseteq vused'[s] /\ Backed(s, r)'
               /\ \A o \in given'[s] : o # r => o \cap r = {}
               /\ \A u \in Threads : Space(u) = s /\ pc'[u] \in Freeing => todo'[u] \cap r = {}
    <3>1. CASE r \in given[s]
      BY <1>4, <1>7, <1>11, <1>12, <1>14, <3>1 DEF RunsInv
    <3>2. CASE s = Space(t) /\ r = run
      BY <1>4, <1>8, <1>11, <1>12, <1>13, <1>14, <3>2
    <3> QED
      BY <1>11, <3>1, <3>2
  <2>2. ASSUME NEW u \in Threads, NEW w \in Threads, u # w, Space(u) = Space(w),
               pc'[u] \in Freeing, pc'[w] \in Freeing
        PROVE  todo'[u] \cap todo'[w] = {}
    BY <1>14, <2>2 DEF RunsInv
  <2> QED
    BY <2>1, <2>2 DEF RunsInv
<1>16. VaddrExact'
  BY <1>1, <1>2, <1>3, <1>4 DEF VaddrExact
<1> QED
  BY <1>5, <1>6, <1>10, <1>15, <1>16

LEMMA VaddrGetKeepsPages ==
  ASSUME PageInv, UNCHANGED cast, NEW t \in Threads, NEW n \in 1..MaxPages,
         vaddr_get(t, n)
  PROVE  PageInv'
<1> DEFINE run == FreeRun(Space(t), n)
<1>1. /\ pc[t] = "vaddr_get"
      /\ vused' = [vused EXCEPT ![Space(t)] = @ \cup run]
      /\ todo' = [todo EXCEPT ![t] = run]
      /\ given' = [given EXCEPT ![Space(t)] = @ \cup ({run} \ {{}})]
      /\ pc' = [pc EXCEPT ![t] = IF run = {} THEN "unlock" ELSE "scan"]
      /\ UNCHANGED <<pte, pde, lock, mask, frame, table>>
  BY DEF vaddr_get, at, goto
<1>2. run \subseteq Pages \ vused[Space(t)]
  BY FreeRunIsFree, PoolAssumption
<1> HIDE DEF run
<1>3. CASE run # {}
  <2>1. pc' = [pc EXCEPT ![t] = "scan"]
    BY <1>1, <1>3
  <2>2. given' = [given EXCEPT ![Space(t)] = @ \cup {run}]
    BY <1>1, <1>3
  <2>3. given \in [Spaces -> SUBSET SUBSET Pages] /\ run \in SUBSET Pages /\ Space(t) \in Spaces
    BY <1>2, ThreadFacts DEF PageInv, TypeInv
  <2>4. given' \in [Spaces -> SUBSET SUBSET Pages]
    BY <2>2, <2>3, Zenon
  <2>5. \A s \in Spaces : \A r \in given'[s] : r \in given[s] \/ (s = Space(t) /\ r = run)
    BY <2>2, <2>3
  <2> QED
    <3>1. Claim(t, run)
      BY <1>1, <1>2, <1>3, <2>1, <2>4, <2>5 DEF Claim
    <3> QED
      BY <3>1, ClaimKeepsPages
<1>4. CASE run = {}
  <2> USE DEF PageInv
  <2>1. Space(t) \in Spaces /\ todo[t] = {}
    BY <1>1, ThreadFacts DEF StageInv, Idle
  <2>2. vused' = vused /\ given' = given /\ todo' = todo
    BY <1>1, <1>4, <2>1 DEF TypeInv
  <2>3. pc' = [pc EXCEPT ![t] = "unlock"]
    BY <1>1, <1>4
  <2>4. RunsInv' /\ VaddrExact' /\ \A s, r : Backed(s, r) => Backed(s, r)'
    BY <1>1, <2>2, <2>3, QuietStep DEF Idle
  <2>5. LockInv'
    BY <1>1, <2>3, InsideStep DEF Inside
  <2>6. TypeInv'
    BY <1>1, <2>2, <2>3 DEF TypeInv, Idle
  <2>7. StageInv'
    BY <1>1, <2>2, <2>3, <2>4 DEF TypeInv, StageInv, Idle, Mapping, Freeing
  <2> QED
    BY <2>4, <2>5, <2>6, <2>7
<1> QED
  BY <1>3, <1>4

LEMMA GetPageKeepsPages ==
  ASSUME PageInv, UNCHANGED cast, NEW t \in Procs, NEW v \in Pages, get_a_page(t, v)
  PROVE  PageInv'
<1>1. t \in Threads /\ Space(t) = t /\ \A u \in Threads : Space(u) = t => u = t
  BY ThreadFacts DEF Threads
<1>2. pc[t] = "set_vaddr" /\ pte[t][v] = NULL /\ todo[t] = {}
  BY <1>1 DEF PageInv, get_a_page, at, StageInv, Idle
<1>3. CASE v = Min(Pages)
  <2>1. UNCHANGED <<vused, todo, pc, pte, pde, lock, mask, given, frame, table>>
    BY <1>3 DEF get_a_page
  <2>2. \A s, r : Backed(s, r) <=> Backed(s, r)'
    BY <2>1 DEF Backed
  <2>3. StageInv' /\ RunsInv'
    BY <2>1, <2>2 DEF PageInv, StageInv, RunsInv
  <2>4. TypeInv' /\ LockInv' /\ VaddrExact'
    BY <2>1 DEF PageInv, TypeInv, LockInv, VaddrExact
  <2> QED
    BY <2>3, <2>4 DEF PageInv
<1>4. CASE v # Min(Pages)
  <2>1. v \notin vused[t]
    BY <1>1, <1>2 DEF PageInv, VaddrExact, Spaces
  <2>2. {v} # {} /\ {v} \subseteq Pages \ vused[Space(t)]
    BY <1>1, <2>1
  <2>3. /\ vused' = [vused EXCEPT ![Space(t)] = @ \cup {v}]
        /\ todo' = [todo EXCEPT ![t] = {v}]
        /\ pc' = [pc EXCEPT ![t] = "scan"]
        /\ UNCHANGED <<pte, pde, lock, mask, given, frame, table>>
    BY <1>1, <1>4 DEF get_a_page, goto
  <2>4. /\ given' \in [Spaces -> SUBSET SUBSET Pages]
        /\ \A s \in Spaces : \A r \in given'[s] : r \in given[s] \/ (s = Space(t) /\ r = {v})
    BY <2>3 DEF PageInv, TypeInv
  <2> QED
    <3>1. Claim(t, {v})
      BY <1>1, <1>2, <2>2, <2>3, <2>4 DEF Claim
    <3> QED
      BY <1>1, <3>1, ClaimKeepsPages
<1> QED
  BY <1>3, <1>4

\* palloc's bitmap_scan and bitmap_set, for the page and for its page table.
LEMMA PallocKeepsPages ==
  ASSUME PageInv, UNCHANGED cast, NEW t \in Threads,
         palloc_scan(t) \/ palloc_set(t) \/ table_scan(t)
  PROVE  PageInv'
<1> USE DEF PageInv
<1> DEFINE found(S) == S \ used # {} /\ Min(S \ used) \in S /\ S \subseteq Nat
<1>1. /\ ~ (Pool(t) \subseteq used) => found(Pool(t))
      /\ ~ (KFrames \subseteq used) => found(KFrames)
  <2>1. ASSUME NEW S, S \subseteq Nat, ~ (S \subseteq used) PROVE found(S)
    <3>1. S \ used # {} /\ S \ used \subseteq Nat
      BY <2>1
    <3>2. Min(S \ used) \in S \ used
      BY <3>1, MinOfNat
    <3> QED
      BY <2>1, <3>1, <3>2
  <2> QED
    BY <2>1, ThreadFacts, PoolAssumption
<1>2. /\ UNCHANGED <<vused, pte, pde, lock, mask, todo, given>>
      /\ \/ UNCHANGED <<frame, table, pc>>
         \/ /\ pc[t] = "scan" /\ pc' = [pc EXCEPT ![t] = "set"]
            /\ UNCHANGED table
            /\ frame' = [frame EXCEPT ![t] = Min(Pool(t) \ used)] /\ found(Pool(t))
         \/ /\ pc[t] = "set" /\ pc' = [pc EXCEPT ![t] = "map"]
            /\ UNCHANGED <<frame, table>>
         \/ /\ pc[t] = "map" /\ pc' = [pc EXCEPT ![t] = "table"]
            /\ t \in Procs /\ pde[t][Table(Min(todo[t]))] = NULL
            /\ UNCHANGED frame
            /\ table' = [table EXCEPT ![t] = Min(KFrames \ used)] /\ found(KFrames)
  BY <1>1 DEF palloc_scan, palloc_set, table_scan, bitmap_scan, at, goto
<1>3. PICK l : /\ (pc' = [pc EXCEPT ![t] = l] /\ l \in Mapping) \/ pc' = pc
               /\ pc[t] \in Mapping
  BY <1>2 DEF palloc_scan, palloc_set, table_scan, at, Mapping
<1> HIDE DEF found
<1>4. TypeInv'
  <2>1. frame' \in [Threads -> Nat \cup {NULL}] /\ table' \in [Threads -> Nat \cup {NULL}]
    BY <1>2 DEF TypeInv, found
  <2>2. pc' \in [Threads -> Idle \cup Mapping \cup Freeing]
    BY <1>3 DEF TypeInv
  <2> QED
    BY <1>2, <2>1, <2>2 DEF TypeInv
<1>5. LockInv'
  BY <1>2, <1>3, InsideStep DEF Inside, LockInv
<1>6. RunsInv' /\ VaddrExact' /\ \A s, r : Backed(s, r) => Backed(s, r)'
  <2>1. CASE pc' = pc
    BY <1>2, <2>1 DEF RunsInv, VaddrExact, Backed
  <2>2. CASE pc' # pc
    BY <1>2, <1>3, <2>2, QuietStep
  <2> QED
    BY <2>1, <2>2
<1>7. StageInv'
  BY <1>2, <1>6 DEF TypeInv, StageInv, Idle, Mapping, Freeing, found
<1> QED
  BY <1>4, <1>5, <1>6, <1>7

\* The first page of the run is mapped to the frame in hand.
LEMMA MapKeepsPages ==
  ASSUME PageInv, NEW t \in Threads, pc[t] \in {"map", "table"}, Map(t),
         UNCHANGED <<cast, vused, lock, mask, given>>,
         pde' \in [Procs -> [Tables -> Nat \cup {NULL}]],
         table' \in [Threads -> Nat \cup {NULL}],
         \A u \in Threads : u # t => table'[u] = table[u],
         \A u \in Procs : u # t => pde'[u] = pde[u]
  PROVE  PageInv'
<1> USE DEF PageInv
<1> DEFINE v == Min(todo[t])
           s0 == Space(t)
<1>1. s0 \in Spaces /\ Pool(t) \subseteq Nat /\ SpacePool(s0) = Pool(t)
  BY ThreadFacts
<1>2. todo[t] # {} /\ frame[t] \in Pool(t) /\ frame[t] # NULL
      /\ todo[t] \subseteq Pages /\ \A w \in todo[t] : pte[s0][w] = NULL
  BY <1>1, PoolAssumption DEF StageInv, Mapping, TypeInv
<1>3. v \in todo[t]
  BY <1>2, MinOfNat, PoolAssumption
<1>4. /\ pte' = [pte EXCEPT ![s0][v] = frame[t]]
      /\ frame' = [frame EXCEPT ![t] = NULL]
      /\ todo' = [todo EXCEPT ![t] = @ \ {v}]
      /\ pc' = [pc EXCEPT ![t] = IF todo[t] = {v} THEN "unlock" ELSE "scan"]
  BY DEF Map, goto
<1> HIDE DEF v, s0
<1>5. /\ \A s \in Spaces, w \in Pages :
           pte'[s][w] = IF s = s0 /\ w = v THEN frame[t] ELSE pte[s][w]
      /\ pte' \in [Spaces -> [Pages -> Nat \cup {NULL}]]
  BY <1>1, <1>2, <1>3, <1>4 DEF TypeInv
<1>6. /\ todo'[t] = todo[t] \ {v}
      /\ pc'[t] \in {"scan", "unlock"} /\ (pc'[t] = "unlock" <=> todo'[t] = {})
      /\ \A u \in Threads : u # t => /\ todo'[u] = todo[u] /\ pc'[u] = pc[u]
                                     /\ frame'[u] = frame[u]
  BY <1>3, <1>4 DEF TypeInv
<1>7. TypeInv'
  <2>1. \A s \in Spaces, w \in Pages : pte'[s][w] \in SpacePool(s) \cup {NULL}
    BY <1>1, <1>2, <1>5 DEF TypeInv
  <2> QED
    BY <1>2, <1>4, <1>5, <2>1 DEF TypeInv, Idle, Mapping
<1>8. LockInv'
  BY <1>4, InsideStep DEF Inside, Mapping
<1>9. \A s \in Spaces : \A r \in SUBSET Pages : Backed(s, r) => Backed(s, r)'
  <2> SUFFICES ASSUME NEW s \in Spaces, NEW r \in SUBSET Pages, Backed(s, r),
                      NEW w \in r, pte'[s][w] = NULL
               PROVE  \E u \in Threads : Space(u) = s /\ pc'[u] \in Mapping /\ w \in todo'[u]
    BY DEF Backed
  <2>1. PICK u \in Threads : Space(u) = s /\ pc[u] \in Mapping /\ w \in todo[u]
    BY <1>2, <1>5 DEF Backed
  <2>2. CASE u = t
    BY <1>2, <1>5, <1>6, <2>1, <2>2 DEF Mapping, s0
  <2> QED
    BY <1>6, <2>1, <2>2
<1>10. \A u \in Threads : u # t /\ Space(u) = s0 => pc[u] \notin Inside
  BY OneInside, ThreadFacts DEF s0, Inside, Mapping
<1>11. StageInv'
  <2> SUFFICES ASSUME NEW u \in Threads PROVE StageInv!(u)'
    BY DEF StageInv
  <2>1. CASE u = t
    BY <1>1, <1>2, <1>3, <1>5, <1>6, <2>1 DEF Idle, Mapping, Freeing, s0, TypeInv
  <2>2. CASE u # t
    <3>1. todo[u] \subseteq Pages /\ Space(u) \in Spaces
      BY ThreadFacts DEF TypeInv
    <3>2. pc[u] = "free" => Backed(Space(u), todo[u])'
      BY <1>6, <1>9, <2>2, <3>1 DEF StageInv
    <3>3. \A w \in todo[u] : pte[Space(u)][w] # NULL => pte'[Space(u)][w] # NULL
      BY <1>2, <1>5, <3>1
    <3>4. pc[u] \in Inside => \A w \in todo[u] : pte'[Space(u)][w] = pte[Space(u)][w]
      BY <1>5, <1>10, <2>2, <3>1
    <3> QED
      BY <1>6, <2>2, <3>2, <3>3, <3>4 DEF StageInv, Inside, Mapping
  <2> QED
    BY <2>1, <2>2
<1>12. \A u \in Threads : pc'[u] \in Freeing => u # t /\ pc[u] \in Freeing /\ todo'[u] = todo[u]
  BY <1>6 DEF Freeing
<1>13. RunsInv'
  BY <1>9, <1>12 DEF RunsInv, TypeInv
<1>14. VaddrExact'
  <2> SUFFICES ASSUME NEW s \in Spaces
               PROVE  vused[s] = {w \in Pages : pte'[s][w] # NULL}
                        \cup UNION {todo'[u] : u \in {x \in Threads : Space(x) = s}}
    BY DEF VaddrExact
  <2>1. vused[s] = {w \in Pages : pte[s][w] # NULL}
                        \cup UNION {todo[u] : u \in {x \in Threads : Space(x) = s}}
    BY DEF VaddrExact
  <2> DEFINE mine == {x \in Threads : Space(x) = s}
  <2>2. CASE s # s0
    <3>1. \A u \in mine : todo'[u] = todo[u]
      BY <1>6, <2>2 DEF s0
    <3>2. \A w \in Pages : pte'[s][w] = pte[s][w]
      BY <1>5, <2>2
    <3> HIDE DEF mine
    <3>3. UNION {todo'[u] : u \in mine} = UNION {todo[u] : u \in mine}
      BY <3>1
    <3> QED
      BY <2>1, <3>2, <3>3 DEF mine
  <2>3. CASE s = s0
    <3>1. t \in mine /\ v \in Pages
      BY <1>2, <1>3, <2>3 DEF s0
    <3>2. todo[t] = todo'[t] \cup {v} /\ \A u \in mine : u # t => todo'[u] = todo[u]
      BY <1>3, <1>6
    <3>3. \A w \in Pages : pte'[s][w] # NULL <=> w = v \/ pte[s][w] # NULL
      BY <1>2, <1>5, <2>3
    <3> HIDE DEF mine
    <3>4. UNION {todo[u] : u \in mine} = {v} \cup UNION {todo'[u] : u \in mine}
      BY <3>1, <3>2
    <3> QED
      BY <2>1, <3>1, <3>3, <3>4 DEF mine
  <2> QED
    BY <2>2, <2>3
<1> QED
  BY <1>7, <1>8, <1>11, <1>13, <1>14

\* The page that mfree_page is at is one of its run, and mapped.
LEMMA FreedPageMapped ==
  ASSUME PageInv, NEW t \in Threads, pc[t] \in {"pfree", "unmap"}
  PROVE  /\ FreedPage(t) \in todo[t] /\ FreedPage(t) \in Pages
         /\ pte[Space(t)][FreedPage(t)] \in Pool(t)
         /\ pte[Space(t)][FreedPage(t)] # NULL
<1> DEFINE S == {v \in todo[t] : pte[Space(t)][v] # NULL}
<1>1. S # {} /\ S \subseteq Pages /\ S \subseteq Nat
  BY PoolAssumption DEF PageInv, StageInv, TypeInv
<1>2. Min(S) \in S
  BY <1>1, MinOfNat
<1>3. FreedPage(t) \in S
  BY <1>2 DEF FreedPage
<1>4. FreedPage(t) \in todo[t] /\ FreedPage(t) \in Pages /\ pte[Space(t)][FreedPage(t)] # NULL
  BY <1>1, <1>3
<1>5. Space(t) \in Spaces /\ SpacePool(Space(t)) = Pool(t)
  BY ThreadFacts
<1> QED
  BY <1>4, <1>5 DEF PageInv, TypeInv

\* pfree gives back the frame; the page is unmapped next.
LEMMA PfreeKeepsPages ==
  ASSUME PageInv, UNCHANGED cast, NEW t \in Threads, pfree(t)
  PROVE  PageInv'
<1> USE DEF PageInv, pfree, at, goto
<1>1. TypeInv'
  BY DEF TypeInv, Freeing
<1>2. LockInv'
  BY InsideStep DEF Inside
<1>3. RunsInv' /\ VaddrExact' /\ \A s, run : Backed(s, run) => Backed(s, run)'
  BY QuietStep DEF Freeing
<1>4. StageInv'
  BY <1>3 DEF TypeInv, StageInv, Idle, Mapping, Freeing
<1> QED
  BY <1>1, <1>2, <1>3, <1>4

\* page_table_pte_remove unmaps a page of no other run.
LEMMA UnmapKeepsPages ==
  ASSUME PageInv, UNCHANGED cast, NEW t \in Threads, page_table_pte_remove(t)
  PROVE  PageInv'
<1> USE DEF PageInv
<1> DEFINE v == FreedPage(t)
           s0 == Space(t)
           last == \A w \in todo[t] \ {v} : pte[s0][w] = NULL
<1>1. s0 \in Spaces /\ todo[t] \subseteq Pages
  BY ThreadFacts DEF TypeInv
<1>2. /\ pc[t] = "unmap"
      /\ pte' = [pte EXCEPT ![s0][v] = NULL]
      /\ pc' = [pc EXCEPT ![t] = IF last THEN "vaddr_remove" ELSE "pfree"]
      /\ UNCHANGED <<vused, pde, lock, mask, todo, given, frame, table>>
  BY DEF page_table_pte_remove, at, goto
<1>3. v \in todo[t] /\ v \in Pages
  BY <1>2, FreedPageMapped
<1> HIDE DEF v, s0
<1>4. /\ \A s \in Spaces, w \in Pages :
           pte'[s][w] = IF s = s0 /\ w = v THEN NULL ELSE pte[s][w]
      /\ pte' \in [Spaces -> [Pages -> Nat \cup {NULL}]]
  BY <1>1, <1>2, <1>3 DEF TypeInv
<1>5. /\ pc'[t] = "vaddr_remove" => \A w \in todo[t] : pte'[s0][w] = NULL
      /\ pc'[t] # "vaddr_remove" => pc'[t] = "pfree" /\ \E w \in todo[t] : pte'[s0][w] # NULL
      /\ \A u \in Threads : u # t => pc'[u] = pc[u]
  BY <1>1, <1>2, <1>3, <1>4 DEF TypeInv
<1> HIDE DEF last
<1>6. TypeInv'
  <2>1. \A s \in Spaces, w \in Pages : pte'[s][w] \in SpacePool(s) \cup {NULL}
    BY <1>4 DEF TypeInv
  <2> QED
    BY <1>2, <1>4, <2>1 DEF TypeInv, Freeing
<1>7. LockInv'
  BY <1>2, InsideStep DEF Inside
<1>8. \A u \in Threads : /\ pc'[u] \in Mapping <=> pc[u] \in Mapping
                         /\ pc'[u] \in Freeing <=> pc[u] \in Freeing
  BY <1>2, <1>5 DEF Mapping, Freeing
<1>9. \A s \in Spaces : \A r \in SUBSET Pages :
        Backed(s, r) /\ (s = s0 => v \notin r) => Backed(s, r)'
  BY <1>2, <1>4, <1>8 DEF Backed
<1>10. \A u \in Threads : u # t /\ Space(u) = s0 => pc[u] \notin Inside
  BY <1>2, OneInside, ThreadFacts DEF s0, Inside
<1>11. StageInv'
  <2> SUFFICES ASSUME NEW u \in Threads PROVE StageInv!(u)'
    BY DEF StageInv
  <2>1. CASE u = t
    BY <1>2, <1>3, <1>5, <2>1 DEF Idle, Mapping, Freeing, s0
  <2>2. CASE u # t
    <3>1. todo[u] \subseteq Pages /\ Space(u) \in Spaces
      BY ThreadFacts DEF TypeInv
    <3>2. pc[u] = "free" /\ Space(u) = s0 => v \notin todo[u]
      BY <1>2, <1>3, <2>2 DEF RunsInv, Freeing, s0
    <3>3. pc[u] = "free" => Backed(Space(u), todo[u])'
      BY <1>2, <1>9, <3>1, <3>2 DEF StageInv
    <3>4. pc[u] \in Inside => \A w \in todo[u] : pte'[Space(u)][w] = pte[Space(u)][w]
      BY <1>4, <1>10, <2>2, <3>1
    <3> QED
      BY <1>2, <1>5, <2>2, <3>3, <3>4 DEF StageInv, Inside, Mapping
  <2> QED
    BY <2>1, <2>2
<1>12. \A r \in given[s0] : v \notin r
  BY <1>1, <1>2, <1>3 DEF RunsInv, Freeing, s0
<1>13. RunsInv'
  <2>1. \A s \in Spaces : \A r \in given[s] : Backed(s, r)'
    BY <1>9, <1>12 DEF RunsInv, TypeInv
  <2> QED
    BY <1>2, <1>8, <2>1 DEF RunsInv
<1>14. VaddrExact'
  <2> SUFFICES ASSUME NEW s \in Spaces
               PROVE  vused[s] = {w \in Pages : pte'[s][w] # NULL}
                        \cup UNION {todo[u] : u \in {x \in Threads : Space(x) = s}}
    BY <1>2 DEF VaddrExact
  <2>1. vused[s] = {w \in Pages : pte[s][w] # NULL}
                        \cup UNION {todo[u] : u \in {x \in Threads : Space(x) = s}}
    BY DEF VaddrExact
  <2>2. CASE s # s0
    BY <1>4, <2>1, <2>2
  <2>3. CASE s = s0
    BY <1>3, <1>4, <2>1, <2>3 DEF s0
  <2> QED
    BY <2>2, <2>3
<1> QED
  BY <1>6, <1>7, <1>11, <1>13, <1>14

\* vaddr_remove clears the bits of pages that are unmapped and in no other run.
LEMMA RemoveKeepsPages ==
  ASSUME PageInv, UNCHANGED cast, NEW t \in Threads, vaddr_remove(t)
  PROVE  PageInv'
<1> USE DEF PageInv, vaddr_remove, at, goto
<1> DEFINE s0 == Space(t)
<1>1. s0 \in Spaces /\ todo[t] \subseteq Pages /\ \A v \in todo[t] : pte[s0][v] = NULL
  BY ThreadFacts DEF TypeInv, StageInv
<1>2. /\ todo'[t] = {} /\ pc'[t] = "unlock"
      /\ \A u \in Threads : u # t => todo'[u] = todo[u] /\ pc'[u] = pc[u]
      /\ \A s \in Spaces : vused'[s] = IF s = s0 THEN vused[s] \ todo[t] ELSE vused[s]
  BY <1>1 DEF TypeInv
<1>3. TypeInv'
  BY <1>1 DEF TypeInv, Idle
<1>4. LockInv'
  BY InsideStep DEF Inside
<1>5. \A s, r : Backed(s, r) => Backed(s, r)'
  BY <1>2 DEF Backed, Mapping
<1>6. StageInv'
  BY <1>2, <1>5 DEF StageInv, Idle, Mapping, Freeing
<1>7. \A u \in Threads : pc'[u] \in Freeing => u # t /\ pc[u] \in Freeing /\ todo'[u] = todo[u]
  BY <1>2 DEF Freeing
<1>8. \A r \in given[s0] : todo[t] \cap r = {}
  BY <1>1 DEF RunsInv, Freeing
<1>9. RunsInv'
  BY <1>2, <1>5, <1>7, <1>8 DEF RunsInv
<1>10. \A u \in Threads : u # t /\ Space(u) = s0 => todo[u] \cap todo[t] = {}
  <2> SUFFICES ASSUME NEW u \in Threads, u # t, Space(u) = s0
               PROVE  todo[u] \cap todo[t] = {}
    OBVIOUS
  <2>1. pc[u] \notin Mapping
    BY OneInside, ThreadFacts DEF Inside
  <2>2. CASE pc[u] \in Freeing
    BY <2>2 DEF RunsInv, Freeing
  <2>3. CASE pc[u] \in Idle
    BY <2>3 DEF StageInv
  <2> QED
    BY <2>1, <2>2, <2>3 DEF TypeInv
<1>11. VaddrExact'
  <2> SUFFICES ASSUME NEW s \in Spaces
               PROVE  vused'[s] = {w \in Pages : pte[s][w] # NULL}
                        \cup UNION {todo'[u] : u \in {x \in Threads : Space(x) = s}}
    BY DEF VaddrExact
  <2>1. vused[s] = {w \in Pages : pte[s][w] # NULL}
                        \cup UNION {todo[u] : u \in {x \in Threads : Space(x) = s}}
    BY DEF VaddrExact
  <2>2. CASE s # s0
    BY <1>2, <2>1, <2>2
  <2>3. CASE s = s0
    BY <1>1, <1>2, <1>10, <2>1, <2>3
  <2> QED
    BY <2>2, <2>3
<1> QED
  BY <1>3, <1>4, <1>6, <1>9, <1>11

\* A page of a run that was returned is in no call's hands.
LEMMA GivenIsFree ==
  ASSUME PageInv, NEW v \in Pages, {v} \in given[Kernel], pte[Kernel][v] # NULL
  PROVE  \A u \in Threads : Space(u) = Kernel => v \notin todo[u]
<1> SUFFICES ASSUME NEW u \in Threads, Space(u) = Kernel PROVE v \notin todo[u]
  OBVIOUS
<1>1. Kernel \in Spaces
  BY DEF Spaces
<1>2. CASE pc[u] \in Mapping
  BY <1>2 DEF PageInv, StageInv
<1>3. CASE pc[u] \in Freeing
  BY <1>1, <1>3 DEF PageInv, RunsInv
<1>4. CASE pc[u] \in Idle
  BY <1>4 DEF PageInv, StageInv
<1> QED
  BY <1>2, <1>3, <1>4 DEF PageInv, TypeInv

\* mfree_buf_page takes a page that no other call has in hand; the lock is not
\* needed for that.
LEMMA BufferKeepsPages ==
  ASSUME PageInv, UNCHANGED cast, NEW t \in Threads, NEW v \in Pages, mfree_buf_page(t, v)
  PROVE  PageInv'
<1> USE DEF PageInv
<1>1. /\ {v} \in given[Kernel] /\ pte[Kernel][v] # NULL
      /\ given' = [given EXCEPT ![Kernel] = @ \ {{v}}]
      /\ pte' = [pte EXCEPT ![Kernel][v] = NULL]
      /\ vused' = [vused EXCEPT ![Kernel] = @ \ {v}]
      /\ UNCHANGED <<pde, lock, mask, todo, frame, table, pc>>
  BY DEF mfree_buf_page
<1>2. Kernel \in Spaces
  BY DEF Spaces
<1>3. \A u \in Threads : Space(u) = Kernel => v \notin todo[u]
  BY <1>1, GivenIsFree
<1>4. /\ \A s \in Spaces, w \in Pages :
           pte'[s][w] = IF s = Kernel /\ w = v THEN NULL ELSE pte[s][w]
      /\ pte' \in [Spaces -> [Pages -> Nat \cup {NULL}]]
  BY <1>1, <1>2 DEF TypeInv
<1>5. \A s \in Spaces : given'[s] \subseteq given[s] /\ (s = Kernel => {v} \notin given'[s])
  BY <1>1, <1>2 DEF TypeInv
<1>6. TypeInv'
  <2>1. \A s \in Spaces, w \in Pages : pte'[s][w] \in SpacePool(s) \cup {NULL}
    BY <1>4 DEF TypeInv
  <2>2. vused' \in [Spaces -> SUBSET Pages] /\ given' \in [Spaces -> SUBSET SUBSET Pages]
    BY <1>1, <1>2 DEF TypeInv
  <2> QED
    BY <1>1, <1>4, <2>1, <2>2 DEF TypeInv
<1>7. LockInv'
  BY <1>1 DEF LockInv
<1>8. \A s \in Spaces : \A r \in SUBSET Pages :
        Backed(s, r) /\ (s = Kernel => v \notin r) => Backed(s, r)'
  BY <1>1, <1>4 DEF Backed
<1>9. \A u \in Threads : /\ todo[u] \subseteq Pages /\ Space(u) \in Spaces
                         /\ \A w \in todo[u] : pte'[Space(u)][w] = pte[Space(u)][w]
  BY <1>3, <1>4, ThreadFacts DEF TypeInv
<1>10. \A u \in Threads : pc[u] = "free" => Backed(Space(u), todo[u])'
  <2> SUFFICES ASSUME NEW u \in Threads, pc[u] = "free" PROVE Backed(Space(u), todo[u])'
    OBVIOUS
  <2>1. /\ todo[u] \in SUBSET Pages /\ Space(u) \in Spaces /\ todo'[u] = todo[u]
        /\ Space(u) = Kernel => v \notin todo[u]
    BY <1>1, <1>3, <1>9
  <2>2. Backed(Space(u), todo[u])
    BY DEF StageInv
  <2> QED
    BY <1>8, <2>1, <2>2
<1>11. StageInv'
  BY <1>1, <1>9, <1>10 DEF StageInv
<1>12. \A s \in Spaces : \A r \in given'[s] : r \in given[s] /\ (s = Kernel => v \notin r)
  <2> SUFFICES ASSUME NEW s \in Spaces, NEW r \in given'[s]
               PROVE  r \in given[s] /\ (s = Kernel => v \notin r)
    OBVIOUS
  <2>1. r \in given[s] /\ (s = Kernel => r # {v})
    BY <1>5
  <2>2. s = Kernel => r \cap {v} = {}
    BY <1>1, <1>2, <2>1 DEF RunsInv
  <2> QED
    BY <2>1, <2>2
<1>13. \A s \in Spaces : \A r \in given'[s] : r \subseteq vused'[s]
  BY <1>1, <1>2, <1>12 DEF RunsInv, TypeInv
<1>14. \A s \in Spaces : \A r \in given'[s] : Backed(s, r)'
  BY <1>8, <1>12 DEF RunsInv, TypeInv
<1>15. RunsInv'
  BY <1>1, <1>12, <1>13, <1>14 DEF RunsInv
<1>16. VaddrExact'
  <2> SUFFICES ASSUME NEW s \in Spaces
               PROVE  vused'[s] = {w \in Pages : pte'[s][w] # NULL}
                        \cup UNION {todo[u] : u \in {x \in Threads : Space(x) = s}}
    BY <1>1 DEF VaddrExact
  <2>1. vused[s] = {w \in Pages : pte[s][w] # NULL}
                        \cup UNION {todo[u] : u \in {x \in Threads : Space(x) = s}}
    BY DEF VaddrExact
  <2>2. CASE s # Kernel
    <3>1. vused'[s] = vused[s] /\ \A w \in Pages : pte'[s][w] = pte[s][w]
      BY <1>1, <1>4, <2>2
    <3> QED
      BY <2>1, <3>1
  <2>3. CASE s = Kernel
    <3> DEFINE claimed == UNION {todo[u] : u \in {x \in Threads : Space(x) = s}}
    <3>1. v \notin claimed
      BY <1>3, <2>3
    <3>2. vused'[s] = vused[s] \ {v}
      BY <1>1, <1>2, <2>3 DEF TypeInv
    <3>3. {w \in Pages : pte'[s][w] # NULL} = {w \in Pages : pte[s][w] # NULL} \ {v}
      BY <1>4, <2>3
    <3> HIDE DEF claimed
    <3> QED
      BY <2>1, <3>1, <3>2, <3>3 DEF claimed
  <2> QED
    BY <2>2, <2>3
<1> QED
  BY <1>6, <1>7, <1>11, <1>15, <1>16

\* lock_release.
LEMMA ReleaseKeepsPages ==
  ASSUME PageInv, UNCHANGED cast, NEW t \in Threads, lock_release(t)
  PROVE  PageInv'
<1> USE DEF PageInv, lock_release, at, goto
<1>1. TypeInv'
  BY ThreadFacts DEF TypeInv, Idle
<1>2. LockInv'
  BY OneInside, ThreadFacts, PoolAssumption DEF TypeInv, LockInv, Inside, Mapping
<1>3. RunsInv' /\ VaddrExact' /\ \A s, run : Backed(s, run) => Backed(s, run)'
  BY QuietStep DEF Idle
<1>4. StageInv'
  BY <1>3 DEF TypeInv, StageInv, Idle, Mapping, Freeing
<1> QED
  BY <1>1, <1>2, <1>3, <1>4

----------------------------------------------------------------------------
(* The whole of what the pool locks guarantee. *)

LEMMA InitPages ==
  ASSUME Init
  PROVE  PageInv
<1> USE DEF Init
<1>1. TypeInv
  BY DEF TypeInv, Idle
<1>2. LockInv
  BY DEF LockInv, Inside, Mapping
<1>3. StageInv
  BY DEF StageInv, Idle, Mapping, Freeing
<1>4. RunsInv
  BY DEF RunsInv, Freeing
<1>5. VaddrExact
  BY DEF VaddrExact
<1> QED
  BY <1>1, <1>2, <1>3, <1>4, <1>5 DEF PageInv

\* The steps of a thread.
Step(t) ==
  \/ CallAlloc(t) \/ CallGet(t)
  \/ \E run \in given[Space(t)] : CallFree(t, run)
  \/ lock_wait(t)
  \/ lock_take(t, "alloc", "vaddr_get")
  \/ lock_take(t, "get", "set_vaddr")
  \/ lock_take(t, "free", "pfree")
  \/ \E n \in 1..MaxPages : vaddr_get(t, n)
  \/ \E v \in Pages : get_a_page(t, v)
  \/ palloc_scan(t) \/ palloc_set(t)
  \/ page_table_add(t) \/ table_scan(t) \/ table_set(t)
  \/ pfree(t) \/ page_table_pte_remove(t) \/ vaddr_remove(t)
  \/ \E v \in Pages : mfree_buf_page(t, v)
  \/ lock_release(t)

LEMMA NextIsStep ==
  ASSUME PageInv, Next
  PROVE  UNCHANGED cast /\ \E t \in cast : t \in Threads /\ Step(t)
BY PoolAssumption, Zenon DEF Next, Step, PageInv, TypeInv

\* Every step keeps what the locks guarantee.
LEMMA StepKeepsPages ==
  ASSUME PageInv, UNCHANGED cast, NEW t \in Threads, Step(t)
  PROVE  PageInv'
<1>1. CASE CallAlloc(t)
  BY <1>1, CallKeepsPages DEF CallAlloc
<1>2. CASE CallGet(t)
  BY <1>2, CallKeepsPages DEF CallGet
<1>3. CASE \E run \in given[Space(t)] : CallFree(t, run)
  BY <1>3, CallFreeKeepsPages
<1>4. CASE lock_wait(t)
  BY <1>4, WaitKeepsPages
<1>5. CASE lock_take(t, "alloc", "vaddr_get")
  BY <1>5, TakeKeepsPages
<1>6. CASE lock_take(t, "get", "set_vaddr")
  BY <1>6, TakeKeepsPages
<1>7. CASE lock_take(t, "free", "pfree")
  BY <1>7, TakeKeepsPages
<1>8. CASE \E n \in 1..MaxPages : vaddr_get(t, n)
  BY <1>8, VaddrGetKeepsPages
<1>9. CASE \E v \in Pages : get_a_page(t, v)
  <2>1. t \in Procs
    BY <1>9 DEF get_a_page, at, PageInv, StageInv
  <2> QED
    BY <1>9, <2>1, GetPageKeepsPages
<1>10. CASE palloc_scan(t) \/ palloc_set(t) \/ table_scan(t)
  BY <1>10, PallocKeepsPages
<1>11. CASE page_table_add(t)
  <2>1. /\ pde' \in [Procs -> [Tables -> Nat \cup {NULL}]] /\ pde' = pde
        /\ table \in [Threads -> Nat \cup {NULL}] /\ table' = table
    BY <1>11 DEF page_table_add, PageInv, TypeInv
  <2>2. pc[t] = "map" /\ Map(t) /\ UNCHANGED <<vused, lock, mask, given>>
    BY <1>11 DEF page_table_add, at
  <2> QED
    BY <2>1, <2>2, MapKeepsPages
<1>12. CASE table_set(t)
  <2>1. pc[t] = "table" /\ Map(t) /\ UNCHANGED <<vused, lock, mask, given>>
    BY <1>12 DEF table_set, at
  <2>2. t \in Procs /\ table[t] \in Nat
    BY <2>1, PoolAssumption DEF PageInv, StageInv
  <2>3. /\ pde' \in [Procs -> [Tables -> Nat \cup {NULL}]]
        /\ \A u \in Procs : u # t => pde'[u] = pde[u]
    BY <1>12, <2>2 DEF table_set, PageInv, TypeInv
  <2>4. /\ table' \in [Threads -> Nat \cup {NULL}]
        /\ \A u \in Threads : u # t => table'[u] = table[u]
    BY <1>12 DEF table_set, PageInv, TypeInv
  <2> QED
    BY <2>1, <2>3, <2>4, MapKeepsPages
<1>13. CASE pfree(t)
  BY <1>13, PfreeKeepsPages
<1>14. CASE page_table_pte_remove(t)
  BY <1>14, UnmapKeepsPages
<1>15. CASE vaddr_remove(t)
  BY <1>15, RemoveKeepsPages
<1>16. CASE lock_release(t)
  BY <1>16, ReleaseKeepsPages
<1>17. CASE \E v \in Pages : mfree_buf_page(t, v)
  BY <1>17, BufferKeepsPages
<1> QED
  BY <1>1, <1>2, <1>3, <1>4, <1>5, <1>6, <1>7, <1>8, <1>9, <1>10, <1>11, <1>12, <1>13,
     <1>14, <1>15, <1>16, <1>17 DEF Step

LEMMA StutterKeepsPages ==
  ASSUME PageInv, UNCHANGED vars
  PROVE  PageInv'
<1> USE DEF PageInv, vars
<1>1. TypeInv' /\ LockInv' /\ VaddrExact'
  BY DEF TypeInv, LockInv, VaddrExact
<1>2. \A s, r : Backed(s, r) <=> Backed(s, r)'
  BY DEF Backed
<1>3. StageInv' /\ RunsInv'
  BY <1>2 DEF StageInv, RunsInv
<1> QED
  BY <1>1, <1>3

\* What the locks of the pools guarantee holds in every state, for all threads,
\* preempted or not.
THEOREM SpecPages == Spec => []PageInv
<1>1. Init => PageInv
  BY InitPages
<1>2. PageInv /\ [Next]_vars => PageInv'
  BY NextIsStep, StepKeepsPages, StutterKeepsPages
<1> QED
  BY <1>1, <1>2, PTL DEF Spec

----------------------------------------------------------------------------
(* Frames and the places that hold them, for any set of places. *)

\* A frame that none of the places holds is put in an empty one, and its bit set.
LEMMA TakeFrame ==
  ASSUME NEW h, NEW g, NEW bits, NEW P, NEW x0 \in P, NEW fr,
         Distinct(h, P), Marked(h, P, bits), \A x \in P : h[x] # fr,
         \A x \in P : g[x] = IF x = x0 THEN fr ELSE h[x]
  PROVE  Distinct(g, P) /\ Marked(g, P, bits \cup {fr})
BY DEF Distinct, Marked

\* A place is emptied, and the bit of its frame cleared.
LEMMA DropFrame ==
  ASSUME NEW h, NEW g, NEW bits, NEW P, NEW x0 \in P,
         Distinct(h, P), Marked(h, P, bits), h[x0] # NULL,
         \A x \in P : g[x] = IF x = x0 THEN NULL ELSE h[x]
  PROVE  Distinct(g, P) /\ Marked(g, P, bits \ {h[x0]})
BY DEF Distinct, Marked

\* A frame moves from one place to another, and the bits stay.
LEMMA MoveFrame ==
  ASSUME NEW h, NEW g, NEW bits, NEW P, NEW x0 \in P, NEW x1 \in P, x0 # x1,
         Distinct(h, P), Marked(h, P, bits), h[x1] = NULL,
         \A x \in P : g[x] = IF x = x0 THEN NULL ELSE IF x = x1 THEN h[x0] ELSE h[x]
  PROVE  Distinct(g, P) /\ Marked(g, P, bits)
BY DEF Distinct, Marked

\* What the places hold.
LEMMA HoldingIs ==
  /\ \A s \in Spaces, v \in Pages :
       holding[<<"pte", s, v>>] = IF Unmapping(s, v) THEN NULL ELSE pte[s][v]
  /\ \A p \in Procs, d \in Tables : holding[<<"pde", p, d>>] = pde[p][d]
  /\ \A t \in Threads :
       holding[<<"hand", t, 0>>] = IF pc[t] \in {"map", "table"} THEN frame[t] ELSE NULL
BY DEF holding, Holds, Places

LEMMA HoldingWillBe ==
  /\ \A s \in Spaces, v \in Pages :
       holding'[<<"pte", s, v>>] = IF Unmapping(s, v)' THEN NULL ELSE pte'[s][v]
  /\ \A p \in Procs, d \in Tables : holding'[<<"pde", p, d>>] = pde'[p][d]
  /\ \A t \in Threads :
       holding'[<<"hand", t, 0>>] = IF pc'[t] \in {"map", "table"} THEN frame'[t] ELSE NULL
BY DEF holding, Holds, Places

\* The three kinds of places.
LEMMA PlaceKinds ==
  /\ \A s \in Spaces, v \in Pages : <<"pte", s, v>> \in Mappings
  /\ \A p \in Procs, d \in Tables : <<"pde", p, d>> \in Places \ Mappings
  /\ \A t \in Threads : <<"hand", t, 0>> \in Mappings
  /\ Mappings \subseteq Places
  /\ \A x \in Mappings : \/ \E s \in Spaces, v \in Pages : x = <<"pte", s, v>>
                         \/ \E t \in Threads : x = <<"hand", t, 0>>
  /\ \A x \in Places : \/ x \in Mappings
                       \/ \E p \in Procs, d \in Tables : x = <<"pde", p, d>>
BY DEF Places, Mappings

\* A step moves only the thread that takes it.
LEMMA OthersStay ==
  ASSUME PageInv, NEW t \in Threads, Step(t), NEW u \in Threads, u # t
  PROVE  pc'[u] = pc[u]
<1>1. (\E l : pc' = [pc EXCEPT ![t] = l]) \/ pc' = pc
  BY Zenon DEF Step, CallAlloc, CallGet, CallFree, Enter, lock_wait, lock_take, vaddr_get,
     get_a_page, palloc_scan, palloc_set, page_table_add, table_scan, table_set, Map, pfree,
     page_table_pte_remove, vaddr_remove, mfree_buf_page, lock_release, goto
<1> QED
  BY <1>1 DEF PageInv, TypeInv

\* The two pools have no frame in common.
LEMMA PoolsApart ==
  \A i \in KFrames, j \in UFrames : i # j
<1> SUFFICES ASSUME NEW i \in KFrames, i \in UFrames PROVE FALSE
  OBVIOUS
<1>1. i < i /\ i \in Nat
  BY PoolAssumption
<1> QED
  BY <1>1

\* While a thread is inside, any other that is inside uses the other pool.
LEMMA OthersInside ==
  ASSUME PageInv, NEW t \in Threads, pc[t] \in Inside,
         NEW u \in Threads, u # t, pc[u] \in Inside
  PROVE  /\ Space(u) # Space(t)
         /\ \A i \in Pool(u), j \in Pool(t) : i # j
         /\ t \in Procs <=> u \in KThreads
<1>1. Lock(u) # Lock(t)
  BY OneInside DEF PageInv
<1> QED
  BY <1>1, PoolAssumption DEF Lock, Space, Pool, Threads, Kernel

\* A step that touches no mapping of an unmapping thread's run.
LEMMA SameUnmapping ==
  ASSUME \A u \in Threads : /\ pc'[u] = "unmap" <=> pc[u] = "unmap"
                            /\ pc[u] = "unmap" =>
                                 /\ todo'[u] = todo[u]
                                 /\ \A w \in todo[u] : pte'[Space(u)][w] = pte[Space(u)][w]
  PROVE  \A s, v : Unmapping(s, v)' <=> Unmapping(s, v)
<1>1. \A u \in Threads : pc[u] = "unmap" => FreedPage(u)' = FreedPage(u)
  <2> SUFFICES ASSUME NEW u \in Threads, pc[u] = "unmap" PROVE FreedPage(u)' = FreedPage(u)
    OBVIOUS
  <2>1. {v \in todo'[u] : pte'[Space(u)][v] # NULL} = {v \in todo[u] : pte[Space(u)][v] # NULL}
    OBVIOUS
  <2> QED
    BY <2>1 DEF FreedPage
<1> QED
  BY <1>1 DEF Unmapping

\* A step that touches no mapping, and no frame in hand, leaves the places as
\* they are.
LEMMA SameHolding ==
  ASSUME UNCHANGED <<pte, pde>>,
         \A u \in Threads : /\ pc'[u] = "unmap" <=> pc[u] = "unmap"
                            /\ pc[u] = "unmap" => todo'[u] = todo[u]
                            /\ pc'[u] \in {"map", "table"} <=> pc[u] \in {"map", "table"}
                            /\ pc[u] \in {"map", "table"} => frame'[u] = frame[u]
  PROVE  holding' = holding
<1>1. \A s, v : Unmapping(s, v)' <=> Unmapping(s, v)
  BY SameUnmapping
<1>2. \A x \in Places : holding'[x] = holding[x]
  BY <1>1, PlaceKinds, HoldingIs, HoldingWillBe
<1> QED
  BY <1>2 DEF holding

----------------------------------------------------------------------------
(* Each step keeps the frames apart and their bits exact. *)

\* The history variable: it is not set as long as no two scans meet.
Recorded == ~raced' => ~raced /\ ~Racing'

\* A step that takes and gives back no frame; a frame that was found is free.
LEMMA KeptFrames ==
  ASSUME FrameInv, Recorded, UNCHANGED used, holding' = holding,
         \A u \in Threads :
           /\ pc'[u] = "set" => \/ frame'[u] \notin used /\ frame'[u] # NULL
                                \/ pc[u] = "set" /\ frame'[u] = frame[u]
           /\ pc'[u] = "table" => table'[u] \notin used \/ (pc[u] = "table" /\ table'[u] = table[u])
  PROVE  FrameInv'
<1>1. PagesApart' /\ Owned(holding, used)'
  BY DEF FrameInv, PagesApart, Distinct, Marked, Owned, Mappings, Places
<1>2. FoundInv'
  <2> SUFFICES ASSUME NEW u \in Threads, pc'[u] = "set", NEW x \in Mappings
               PROVE  holding[x] # frame'[u]
    BY DEF FoundInv, Mappings, Places
  <2> QED
    BY DEF FrameInv, PagesApart, Marked, FoundInv
<1>3. ~raced' => AllApart' /\ FreshInv'
  BY DEF FrameInv, AllApart, Distinct, Marked, Recorded, FreshInv, Places
<1> QED
  BY <1>1, <1>2, <1>3 DEF FrameInv
\* Calls, the lock, and the search for addresses.
LEMMA PageStepsKeepFrames ==
  ASSUME PageInv, FrameInv, Recorded, NEW t \in Threads,
         \/ CallAlloc(t) \/ CallGet(t) \/ \E run \in given[Space(t)] : CallFree(t, run)
         \/ lock_wait(t) \/ lock_take(t, "alloc", "vaddr_get")
         \/ lock_take(t, "get", "set_vaddr") \/ lock_take(t, "free", "pfree")
         \/ \E n \in 1..MaxPages : vaddr_get(t, n)
         \/ \E v \in Pages : get_a_page(t, v)
         \/ vaddr_remove(t) \/ lock_release(t)
  PROVE  FrameInv'
<1>1. /\ UNCHANGED <<used, pte, pde, frame, table>>
      /\ pc[t] \notin {"unmap", "set", "map", "table"}
      /\ todo' = todo \/ \E run : todo' = [todo EXCEPT ![t] = run]
      /\ pc' = pc \/ \E l \in Idle \cup {"scan", "free", "pfree"} : pc' = [pc EXCEPT ![t] = l]
  <2> USE DEF at, goto, Idle
  <2>1. CASE CallAlloc(t) \/ CallGet(t)
    BY <2>1 DEF CallAlloc, CallGet, Enter
  <2>2. CASE \E run \in given[Space(t)] : CallFree(t, run)
    BY <2>2 DEF CallFree, Enter
  <2>3. CASE lock_wait(t)
    BY <2>3 DEF lock_wait
  <2>4. CASE \/ lock_take(t, "alloc", "vaddr_get") \/ lock_take(t, "get", "set_vaddr")
             \/ lock_take(t, "free", "pfree")
    BY <2>4 DEF lock_take
  <2>5. CASE \E n \in 1..MaxPages : vaddr_get(t, n)
    BY <2>5 DEF vaddr_get
  <2>6. CASE \E v \in Pages : get_a_page(t, v)
    BY <2>6 DEF get_a_page
  <2>7. CASE vaddr_remove(t)
    BY <2>7 DEF vaddr_remove
  <2>8. CASE lock_release(t)
    BY <2>8 DEF lock_release
  <2> QED
    BY <2>1, <2>2, <2>3, <2>4, <2>5, <2>6, <2>7, <2>8
<1>2. /\ pc'[t] \notin {"unmap", "set", "map", "table"}
      /\ \A u \in Threads : u # t => pc'[u] = pc[u] /\ todo'[u] = todo[u]
  BY <1>1 DEF PageInv, TypeInv, Idle
<1>3. holding' = holding
  BY <1>1, <1>2, SameHolding
<1> QED
  BY <1>1, <1>2, <1>3, KeptFrames

\* bitmap_scan of the pool for the page, or of the kernel pool for its table.
LEMMA ScanKeepsFrames ==
  ASSUME PageInv, FrameInv, Recorded, NEW t \in Threads, palloc_scan(t) \/ table_scan(t)
  PROVE  FrameInv'
<1>1. \A S : S \subseteq Nat /\ ~ (S \subseteq used) =>
               bitmap_scan(S) \notin used /\ bitmap_scan(S) # NULL
  <2> SUFFICES ASSUME NEW S, S \subseteq Nat, ~ (S \subseteq used)
               PROVE  bitmap_scan(S) \notin used /\ bitmap_scan(S) # NULL
    OBVIOUS
  <2>1. S \ used # {} /\ S \ used \subseteq Nat
    OBVIOUS
  <2>2. bitmap_scan(S) \in S \ used
    BY <2>1, MinOfNat DEF bitmap_scan
  <2> QED
    BY <2>2, PoolAssumption
<1>2. (bitmap_scan(Pool(t)) \notin used /\ bitmap_scan(Pool(t)) # NULL) \/ Pool(t) \subseteq used
  BY <1>1, ThreadFacts
<1>3. bitmap_scan(KFrames) \notin used \/ KFrames \subseteq used
  BY <1>1, PoolAssumption
<1>4. CASE palloc_scan(t)
  <2>1. /\ UNCHANGED <<used, pte, pde, table, todo>> /\ pc[t] = "scan"
        /\ \/ UNCHANGED <<frame, pc>>
           \/ /\ pc' = [pc EXCEPT ![t] = "set"]
              /\ frame' = [frame EXCEPT ![t] = bitmap_scan(Pool(t))]
              /\ bitmap_scan(Pool(t)) \notin used /\ bitmap_scan(Pool(t)) # NULL
    BY <1>2, <1>4 DEF palloc_scan, at, goto
  <2>2. /\ pc'[t] = "scan" \/ (pc'[t] = "set" /\ frame'[t] \notin used /\ frame'[t] # NULL)
        /\ \A u \in Threads : u # t => pc'[u] = pc[u] /\ frame'[u] = frame[u]
    BY <2>1 DEF PageInv, TypeInv
  <2>3. holding' = holding
    BY <2>1, <2>2, SameHolding
  <2> QED
    BY <2>1, <2>2, <2>3, KeptFrames
<1>5. CASE table_scan(t)
  <2>1. /\ UNCHANGED <<used, pte, pde, frame, todo>> /\ pc[t] = "map"
        /\ \/ UNCHANGED <<table, pc>>
           \/ /\ pc' = [pc EXCEPT ![t] = "table"]
              /\ table' = [table EXCEPT ![t] = bitmap_scan(KFrames)]
              /\ bitmap_scan(KFrames) \notin used
    BY <1>3, <1>5 DEF table_scan, at, goto
  <2>2. /\ pc'[t] = "map" \/ (pc'[t] = "table" /\ table'[t] \notin used)
        /\ \A u \in Threads : u # t => pc'[u] = pc[u] /\ table'[u] = table[u]
    BY <2>1 DEF PageInv, TypeInv
  <2>3. holding' = holding
    BY <2>1, <2>2, SameHolding
  <2> QED
    BY <2>1, <2>2, <2>3, KeptFrames
<1> QED
  BY <1>4, <1>5

\* What a thread has found is a frame of its pool, what it has found for a page
\* table one of the kernel's.
LEMMA FoundFrames ==
  ASSUME PageInv, NEW u \in Threads
  PROVE  /\ pc[u] = "set" => frame[u] \in Pool(u) /\ frame[u] # NULL
         /\ pc[u] = "table" => u \in Procs /\ table[u] \in KFrames /\ table[u] # NULL
<1>1. Pool(u) \subseteq Nat /\ KFrames \subseteq Nat /\ NULL \notin Nat
  BY ThreadFacts, PoolAssumption
<1>2. /\ pc[u] = "set" => frame[u] \in Pool(u)
      /\ pc[u] = "table" => u \in Procs /\ table[u] \in KFrames
  BY DEF PageInv, StageInv
<1> QED
  BY <1>1, <1>2

\* bitmap_set: the frame that was found is in the thread's hand.
LEMMA SetKeepsFrames ==
  ASSUME PageInv, FrameInv, Recorded, NEW t \in Threads, palloc_set(t)
  PROVE  FrameInv'
<1>1. /\ pc[t] = "set" /\ used' = used \cup {frame[t]} /\ pc' = [pc EXCEPT ![t] = "map"]
      /\ UNCHANGED <<pte, pde, todo, frame, table>>
  BY DEF palloc_set, at, goto
<1>2. /\ pc'[t] = "map"
      /\ \A u \in Threads : u # t => pc'[u] = pc[u]
  BY <1>1 DEF PageInv, TypeInv
<1>3. frame[t] \in Pool(t) /\ frame[t] # NULL
  BY <1>1, FoundFrames
<1>4. \A s, v : Unmapping(s, v)' <=> Unmapping(s, v)
  BY <1>1, <1>2, SameUnmapping
<1> DEFINE x0 == <<"hand", t, 0>>
<1>5. x0 \in Mappings /\ x0 \in Places
  BY PlaceKinds
<1>6. \A x \in Places : holding'[x] = IF x = x0 THEN frame[t] ELSE holding[x]
  <2> SUFFICES ASSUME NEW x \in Places
               PROVE  holding'[x] = IF x = x0 THEN frame[t] ELSE holding[x]
    OBVIOUS
  <2>1. CASE \E s \in Spaces, v \in Pages : x = <<"pte", s, v>>
    BY <1>1, <1>4, <2>1, HoldingIs, HoldingWillBe
  <2>2. CASE \E p \in Procs, d \in Tables : x = <<"pde", p, d>>
    BY <1>1, <2>2, HoldingIs, HoldingWillBe
  <2>3. CASE \E u \in Threads : x = <<"hand", u, 0>>
    <3>1. PICK u \in Threads : x = <<"hand", u, 0>>
      BY <2>3
    <3> QED
      BY <1>1, <1>2, <3>1, HoldingIs, HoldingWillBe
  <2> QED
    BY <2>1, <2>2, <2>3, PlaceKinds
<1>7. holding[x0] = NULL
  BY <1>1, HoldingIs
<1> HIDE DEF x0
<1>8. \A x \in Mappings : holding[x] # frame[t]
  BY <1>1 DEF FrameInv, FoundInv
<1>9. PagesApart'
  <2>1. Distinct(holding', Mappings) /\ Marked(holding', Mappings, used \cup {frame[t]})
    <3>1. \A x \in Mappings : holding'[x] = IF x = x0 THEN frame[t] ELSE holding[x]
      BY <1>6, PlaceKinds
    <3>2. Distinct(holding, Mappings) /\ Marked(holding, Mappings, used)
      BY DEF FrameInv, PagesApart
    <3> QED
      BY <1>5, <1>8, <3>1, <3>2, TakeFrame
  <2> QED
    BY <1>1, <2>1 DEF PagesApart, Distinct, Marked, Mappings, Places
<1>10. Owned(holding, used)'
  <2> SUFFICES ASSUME NEW fr \in used' PROVE fr # NULL /\ \E x \in Places : holding'[x] = fr
    BY DEF Owned, Places
  <2>1. CASE fr = frame[t]
    BY <1>3, <1>5, <1>6, <2>1
  <2>2. CASE fr # frame[t]
    <3>1. PICK x \in Places : fr # NULL /\ holding[x] = fr
      BY <1>1, <2>2 DEF FrameInv, Owned
    <3> QED
      BY <1>6, <1>7, <3>1
  <2> QED
    BY <2>1, <2>2
<1>11. \A u \in Threads : u # t /\ pc[u] = "set" => frame[u] # frame[t]
  BY <1>1, <1>3, FoundFrames, OthersInside DEF Inside, Mapping
<1>12. FoundInv'
  <2> SUFFICES ASSUME NEW u \in Threads, pc'[u] = "set", NEW x \in Mappings
               PROVE  holding'[x] # frame'[u]
    BY DEF FoundInv, Mappings, Places
  <2>1. u # t /\ pc[u] = "set" /\ frame'[u] = frame[u]
    BY <1>1, <1>2
  <2> QED
    BY <1>6, <1>11, <2>1, PlaceKinds DEF FrameInv, FoundInv
<1>13. ASSUME ~raced' PROVE AllApart' /\ FreshInv'
  <2>1. ~raced /\ ~Racing' /\ AllApart /\ FreshInv
    BY <1>13 DEF Recorded, FrameInv
  <2>2. frame[t] \notin used
    BY <1>1, <2>1 DEF FreshInv
  <2>3. \A x \in Places : holding[x] # frame[t]
    BY <1>3, <2>1, <2>2 DEF AllApart, Marked
  <2>4. Distinct(holding', Places) /\ Marked(holding', Places, used \cup {frame[t]})
    BY <1>5, <1>6, <2>1, <2>3, TakeFrame DEF AllApart
  <2>5. AllApart'
    BY <1>1, <2>4 DEF AllApart, Distinct, Marked, Places
  <2>6. \A u \in Threads : pc[u] = "table" => table[u] # frame[t]
    <3> SUFFICES ASSUME NEW u \in Threads, pc[u] = "table" PROVE table[u] # frame[t]
      OBVIOUS
    <3>1. u \in Procs /\ table[u] \in KFrames
      BY FoundFrames
    <3>2. CASE t \in Procs
      <4>1. frame[t] \in UFrames
        BY <1>3, <3>2 DEF Pool
      <4> QED
        BY <3>1, <4>1, PoolsApart
    <3>3. CASE t \in KThreads
      BY <1>1, <2>1, <3>1, <3>3 DEF FreshInv, Racing
    <3> QED
      BY <3>2, <3>3 DEF Threads
  <2>7. FreshInv'
    BY <1>1, <1>2, <1>11, <2>1, <2>6 DEF FreshInv
  <2> QED
    BY <2>5, <2>7
<1> QED
  BY <1>9, <1>10, <1>12, <1>13 DEF FrameInv

\* The frame moves from the thread's hand to the page; page tables are apart.
LEMMA MapMoves ==
  ASSUME PageInv, NEW t \in Threads, pc[t] \in {"map", "table"}, Map(t),
         NEW x0, x0 = <<"hand", t, 0>>, NEW x1, x1 = <<"pte", Space(t), Min(todo[t])>>
  PROVE  /\ x0 \in Mappings /\ x1 \in Mappings /\ x0 # x1 /\ Min(todo[t]) \in Pages
         /\ holding[x1] = NULL
         /\ \A x \in Mappings :
              holding'[x] = IF x = x0 THEN NULL ELSE IF x = x1 THEN holding[x0] ELSE holding[x]
         /\ \A u \in Threads : u # t => pc'[u] = pc[u] /\ frame'[u] = frame[u]
         /\ pc'[t] \in {"unlock", "scan"}
<1> DEFINE v == Min(todo[t])
<1>1. Space(t) \in Spaces
  BY ThreadFacts
<1>2. /\ todo[t] # {} /\ todo[t] \subseteq Pages
      /\ \A w \in todo[t] : pte[Space(t)][w] = NULL
  BY DEF PageInv, TypeInv, StageInv, Mapping
<1>3. v \in todo[t] /\ v \in Pages
  BY <1>2, MinOfNat, PoolAssumption
<1>4. /\ pte' = [pte EXCEPT ![Space(t)][v] = frame[t]]
      /\ frame' = [frame EXCEPT ![t] = NULL]
      /\ todo' = [todo EXCEPT ![t] = @ \ {v}]
      /\ pc' = [pc EXCEPT ![t] = IF todo[t] = {v} THEN "unlock" ELSE "scan"]
  BY DEF Map, goto
<1> HIDE DEF v
<1>5. /\ pc'[t] \in {"unlock", "scan"}
      /\ \A u \in Threads : u # t => /\ pc'[u] = pc[u] /\ frame'[u] = frame[u]
                                     /\ todo'[u] = todo[u]
  BY <1>4 DEF PageInv, TypeInv
<1>6. \A s \in Spaces, w \in Pages :
        pte'[s][w] = IF s = Space(t) /\ w = v THEN frame[t] ELSE pte[s][w]
  BY <1>1, <1>3, <1>4 DEF PageInv, TypeInv
<1>7. \A u \in Threads : pc[u] = "unmap" => u # t /\ Space(u) # Space(t)
  BY OthersInside DEF Inside, Mapping
<1>8. \A u \in Threads : /\ pc'[u] = "unmap" <=> pc[u] = "unmap"
                         /\ pc[u] = "unmap" =>
                              /\ todo'[u] = todo[u]
                              /\ \A w \in todo[u] : pte'[Space(u)][w] = pte[Space(u)][w]
  <2> SUFFICES ASSUME NEW u \in Threads
               PROVE  /\ pc'[u] = "unmap" <=> pc[u] = "unmap"
                      /\ pc[u] = "unmap" =>
                           /\ todo'[u] = todo[u]
                           /\ \A w \in todo[u] : pte'[Space(u)][w] = pte[Space(u)][w]
    OBVIOUS
  <2>1. todo[u] \subseteq Pages /\ Space(u) \in Spaces
    BY ThreadFacts DEF PageInv, TypeInv
  <2> QED
    BY <1>5, <1>6, <1>7, <2>1
<1>9. \A s, w : Unmapping(s, w)' <=> Unmapping(s, w)
  BY <1>8, SameUnmapping
<1>10. ~ Unmapping(Space(t), v) /\ ~ Unmapping(Space(t), v)'
  BY <1>7, <1>9 DEF Unmapping
<1>11. x1 = <<"pte", Space(t), v>>
  BY DEF v
<1>12. x0 \in Mappings /\ x1 \in Mappings /\ x0 # x1
  BY <1>1, <1>3, <1>11, PlaceKinds
<1>13. holding[x0] = frame[t]
  BY HoldingIs
<1>14. holding[x1] = NULL
  BY <1>1, <1>2, <1>3, <1>11, HoldingIs
<1>15. ASSUME NEW x \in Mappings
       PROVE  holding'[x] = IF x = x0 THEN NULL ELSE IF x = x1 THEN frame[t] ELSE holding[x]
  <2>1. CASE \E s \in Spaces, w \in Pages : x = <<"pte", s, w>>
    <3>1. PICK s \in Spaces, w \in Pages : x = <<"pte", s, w>>
      BY <2>1
    <3>2. x # x0 /\ (x = x1 <=> s = Space(t) /\ w = v)
      BY <1>11, <3>1
    <3>3. /\ holding'[x] = IF Unmapping(s, w)' THEN NULL ELSE pte'[s][w]
          /\ holding[x] = IF Unmapping(s, w) THEN NULL ELSE pte[s][w]
      BY <3>1, HoldingIs, HoldingWillBe
    <3> QED
      BY <1>6, <1>9, <1>10, <3>2, <3>3
  <2>2. CASE \E u \in Threads : x = <<"hand", u, 0>>
    <3>1. PICK u \in Threads : x = <<"hand", u, 0>>
      BY <2>2
    <3>2. x # x1 /\ (x = x0 <=> u = t)
      BY <3>1
    <3> QED
      BY <1>5, <3>1, <3>2, HoldingIs, HoldingWillBe
  <2> QED
    BY <2>1, <2>2, PlaceKinds
<1> QED
  BY <1>3, <1>5, <1>12, <1>13, <1>14, <1>15 DEF v

\* What is left of the page frames' part when a frame moves to its page.
LEMMA MoveKeepsPagesApart ==
  ASSUME PageInv, FrameInv, NEW t \in Threads, NEW x0 \in Mappings, NEW x1 \in Mappings, x0 # x1,
         holding[x1] = NULL,
         \A x \in Mappings :
           holding'[x] = IF x = x0 THEN NULL ELSE IF x = x1 THEN holding[x0] ELSE holding[x],
         \A u \in Threads : u # t => pc'[u] = pc[u] /\ frame'[u] = frame[u],
         pc'[t] # "set", used \subseteq used'
  PROVE  PagesApart' /\ FoundInv'
<1>1. Distinct(holding, Mappings) /\ Marked(holding, Mappings, used)
  BY DEF FrameInv, PagesApart
<1>2. Distinct(holding', Mappings) /\ Marked(holding', Mappings, used)
  BY <1>1, MoveFrame
<1>3. PagesApart'
  BY <1>2 DEF PagesApart, Distinct, Marked, Mappings, Places
<1>4. FoundInv'
  <2> SUFFICES ASSUME NEW u \in Threads, pc'[u] = "set", NEW x \in Mappings
               PROVE  holding'[x] # frame'[u]
    BY DEF FoundInv, Mappings, Places
  <2>1. u # t /\ pc[u] = "set" /\ frame'[u] = frame[u] /\ frame[u] # NULL
    BY FoundFrames
  <2> QED
    BY <2>1 DEF FrameInv, FoundInv
<1> QED
  BY <1>3, <1>4

LEMMA AddKeepsFrames ==
  ASSUME PageInv, FrameInv, Recorded, NEW t \in Threads, page_table_add(t)
  PROVE  FrameInv'
<1> DEFINE x0 == <<"hand", t, 0>>
           x1 == <<"pte", Space(t), Min(todo[t])>>
<1>1. pc[t] = "map" /\ Map(t) /\ UNCHANGED <<used, pde, table>>
  BY DEF page_table_add, at
<1>2. /\ x0 \in Mappings /\ x1 \in Mappings /\ x0 # x1 /\ holding[x1] = NULL
      /\ \A x \in Mappings :
           holding'[x] = IF x = x0 THEN NULL ELSE IF x = x1 THEN holding[x0] ELSE holding[x]
      /\ \A u \in Threads : u # t => pc'[u] = pc[u] /\ frame'[u] = frame[u]
      /\ pc'[t] \in {"unlock", "scan"}
  BY <1>1, MapMoves
<1> HIDE DEF x0, x1
<1>3. PagesApart' /\ FoundInv'
  BY <1>1, <1>2, MoveKeepsPagesApart
<1>4. \A x \in Places :
        holding'[x] = IF x = x0 THEN NULL ELSE IF x = x1 THEN holding[x0] ELSE holding[x]
  <2>1. ASSUME NEW p \in Procs, NEW d \in Tables
        PROVE  holding'[<<"pde", p, d>>] = holding[<<"pde", p, d>>]
    <3>1. holding'[<<"pde", p, d>>] = pde'[p][d] /\ holding[<<"pde", p, d>>] = pde[p][d]
      BY HoldingIs, HoldingWillBe
    <3> QED
      BY <1>1, <3>1
  <2> QED
    BY <1>2, <2>1, PlaceKinds
<1>5. Owned(holding, used)'
  <2> SUFFICES ASSUME NEW fr \in used PROVE fr # NULL /\ \E x \in Places : holding'[x] = fr
    BY <1>1 DEF Owned, Places
  <2>1. PICK x \in Places : fr # NULL /\ holding[x] = fr
    BY DEF FrameInv, Owned
  <2> QED
    BY <1>2, <1>4, <2>1, PlaceKinds
<1>6. ASSUME ~raced' PROVE AllApart' /\ FreshInv'
  <2>1. ~raced /\ ~Racing' /\ AllApart /\ FreshInv
    BY <1>6 DEF Recorded, FrameInv
  <2>2. Distinct(holding', Places) /\ Marked(holding', Places, used)
    BY <1>2, <1>4, <2>1, PlaceKinds, MoveFrame DEF AllApart
  <2>3. AllApart'
    BY <1>1, <2>2 DEF AllApart, Distinct, Marked, Places
  <2>4. FreshInv'
    BY <1>1, <1>2, <2>1 DEF FreshInv
  <2> QED
    BY <2>3, <2>4
<1> QED
  BY <1>3, <1>5, <1>6 DEF FrameInv

\* The page table is taken and entered, then the page is mapped.
LEMMA TableKeepsFrames ==
  ASSUME PageInv, FrameInv, Recorded, NEW t \in Threads, table_set(t)
  PROVE  FrameInv'
<1> DEFINE d == Table(Min(todo[t]))
           x0 == <<"hand", t, 0>>
           x1 == <<"pte", Space(t), Min(todo[t])>>
           x2 == <<"pde", t, d>>
<1>1. /\ pc[t] = "table" /\ Map(t)
      /\ used' = used \cup {table[t]}
      /\ pde' = [pde EXCEPT ![t][d] = table[t]]
      /\ table' = [table EXCEPT ![t] = NULL]
  BY DEF table_set, at
<1>2. t \in Procs /\ table[t] \in KFrames /\ table[t] # NULL /\ pde[t][d] = NULL
  BY <1>1, FoundFrames DEF PageInv, StageInv
<1>3. /\ x0 \in Mappings /\ x1 \in Mappings /\ x0 # x1 /\ holding[x1] = NULL
      /\ Min(todo[t]) \in Pages
      /\ \A x \in Mappings :
           holding'[x] = IF x = x0 THEN NULL ELSE IF x = x1 THEN holding[x0] ELSE holding[x]
      /\ \A u \in Threads : u # t => pc'[u] = pc[u] /\ frame'[u] = frame[u]
      /\ pc'[t] \in {"unlock", "scan"}
  BY <1>1, MapMoves
<1>4. d \in Tables
  BY <1>3 DEF Tables
<1>5. x2 \in Places /\ x2 \notin Mappings /\ holding[x2] = NULL
  BY <1>2, <1>4, PlaceKinds, HoldingIs
<1>6. \A p \in Procs, e \in Tables :
        pde'[p][e] = IF p = t /\ e = d THEN table[t] ELSE pde[p][e]
  BY <1>1, <1>2, <1>4 DEF PageInv, TypeInv
<1>7. \A x \in Places : x \notin Mappings =>
        holding'[x] = IF x = x2 THEN table[t] ELSE holding[x]
  <2> SUFFICES ASSUME NEW x \in Places, x \notin Mappings
               PROVE  holding'[x] = IF x = x2 THEN table[t] ELSE holding[x]
    OBVIOUS
  <2>1. PICK p \in Procs, e \in Tables : x = <<"pde", p, e>>
    BY PlaceKinds
  <2>2. x = x2 <=> p = t /\ e = d
    BY <2>1
  <2>3. holding'[x] = pde'[p][e] /\ holding[x] = pde[p][e]
    BY <2>1, HoldingIs, HoldingWillBe
  <2> QED
    BY <1>6, <2>2, <2>3
<1> HIDE DEF d, x0, x1, x2
<1>8. PagesApart' /\ FoundInv'
  BY <1>1, <1>3, MoveKeepsPagesApart
<1>9. Owned(holding, used)'
  <2> SUFFICES ASSUME NEW fr \in used' PROVE fr # NULL /\ \E x \in Places : holding'[x] = fr
    BY DEF Owned, Places
  <2>1. CASE fr = table[t]
    BY <1>2, <1>5, <1>7, <2>1
  <2>2. CASE fr # table[t]
    <3>1. PICK x \in Places : fr # NULL /\ holding[x] = fr
      BY <1>1, <2>2 DEF FrameInv, Owned
    <3>2. CASE x \in Mappings
      BY <1>3, <3>1, <3>2, PlaceKinds
    <3>3. CASE x \notin Mappings
      BY <1>5, <1>7, <3>1, <3>3
    <3> QED
      BY <3>2, <3>3
  <2> QED
    BY <2>1, <2>2
<1>10. ASSUME ~raced' PROVE AllApart' /\ FreshInv'
  <2>1. ~raced /\ ~Racing' /\ AllApart /\ FreshInv
    BY <1>10 DEF Recorded, FrameInv
  <2> DEFINE mid == [x \in Places |-> IF x = x2 THEN table[t] ELSE holding[x]]
  <2>2. \A x \in Places : mid[x] = IF x = x2 THEN table[t] ELSE holding[x]
    OBVIOUS
  <2> HIDE DEF mid
  <2>3. table[t] \notin used
    BY <1>1, <2>1 DEF FreshInv
  <2>4. \A x \in Places : holding[x] # table[t]
    BY <1>2, <2>1, <2>3 DEF AllApart, Marked
  <2>5. Distinct(mid, Places) /\ Marked(mid, Places, used \cup {table[t]})
    BY <1>5, <2>1, <2>2, <2>4, TakeFrame DEF AllApart
  <2>6. \A x \in Places :
          holding'[x] = IF x = x0 THEN NULL ELSE IF x = x1 THEN mid[x0] ELSE mid[x]
    <3> SUFFICES ASSUME NEW x \in Places
                 PROVE  holding'[x] = IF x = x0 THEN NULL ELSE IF x = x1 THEN mid[x0] ELSE mid[x]
      OBVIOUS
    <3>1. mid[x0] = holding[x0] /\ x0 \in Places
      BY <1>3, <1>5, <2>2, PlaceKinds
    <3>2. CASE x \in Mappings
      BY <1>3, <1>5, <2>2, <3>1, <3>2
    <3>3. CASE x \notin Mappings
      BY <1>3, <1>7, <2>2, <3>3
    <3> QED
      BY <3>2, <3>3
  <2>7. mid[x1] = NULL /\ x0 \in Places /\ x1 \in Places
    BY <1>3, <1>5, <2>2, PlaceKinds
  <2>8. Distinct(holding', Places) /\ Marked(holding', Places, used \cup {table[t]})
    BY <1>3, <2>5, <2>6, <2>7, MoveFrame
  <2>9. AllApart'
    BY <1>1, <2>8 DEF AllApart, Distinct, Marked, Places
  <2>10. \A u \in Threads : u # t => pc[u] # "table"
    BY <1>1, <1>2, FoundFrames, OthersInside, PoolAssumption DEF Inside, Mapping
  <2>11. \A u \in Threads : u # t /\ pc[u] = "set" => frame[u] # table[t]
    BY <1>1, <1>2, <2>1, OthersInside DEF FreshInv, Racing, Inside, Mapping
  <2>12. FreshInv'
    BY <1>1, <1>3, <2>1, <2>10, <2>11 DEF FreshInv
  <2> QED
    BY <2>9, <2>12
<1> QED
  BY <1>8, <1>9, <1>10 DEF FrameInv

\* A page gives its frame up: its place is empty, and the bit clear.
LEMMA DropKeepsFrames ==
  ASSUME PageInv, FrameInv, Recorded, NEW x0 \in Mappings, holding[x0] # NULL,
         \A x \in Places : holding'[x] = IF x = x0 THEN NULL ELSE holding[x],
         used' = used \ {holding[x0]}, UNCHANGED <<frame, table>>,
         \A u \in Threads : /\ pc'[u] = "set" => pc[u] = "set"
                            /\ pc'[u] = "table" => pc[u] = "table"
  PROVE  FrameInv'
<1>1. PagesApart'
  <2>1. \A x \in Mappings : holding'[x] = IF x = x0 THEN NULL ELSE holding[x]
    BY PlaceKinds
  <2>2. Distinct(holding, Mappings) /\ Marked(holding, Mappings, used)
    BY DEF FrameInv, PagesApart
  <2>3. Distinct(holding', Mappings) /\ Marked(holding', Mappings, used \ {holding[x0]})
    BY <2>1, <2>2, DropFrame
  <2> QED
    BY <2>3 DEF PagesApart, Distinct, Marked, Mappings, Places
<1>2. Owned(holding, used)'
  <2> SUFFICES ASSUME NEW fr \in used' PROVE fr # NULL /\ \E x \in Places : holding'[x] = fr
    BY DEF Owned, Places
  <2>1. fr \in used /\ fr # holding[x0]
    OBVIOUS
  <2>2. PICK x \in Places : fr # NULL /\ holding[x] = fr
    BY <2>1 DEF FrameInv, Owned
  <2> QED
    BY <2>1, <2>2
<1>3. FoundInv'
  <2> SUFFICES ASSUME NEW u \in Threads, pc'[u] = "set", NEW x \in Mappings
               PROVE  holding'[x] # frame'[u]
    BY DEF FoundInv, Mappings, Places
  <2>1. pc[u] = "set" /\ frame'[u] = frame[u] /\ frame[u] # NULL
    BY FoundFrames
  <2> QED
    BY <2>1, PlaceKinds DEF FrameInv, FoundInv
<1>4. ASSUME ~raced' PROVE AllApart' /\ FreshInv'
  <2>1. ~raced /\ ~Racing' /\ AllApart /\ FreshInv
    BY <1>4 DEF Recorded, FrameInv
  <2>2. Distinct(holding', Places) /\ Marked(holding', Places, used \ {holding[x0]})
    BY <2>1, PlaceKinds, DropFrame DEF AllApart
  <2>3. AllApart'
    BY <2>2 DEF AllApart, Distinct, Marked, Places
  <2>4. FreshInv'
    BY <2>1 DEF FreshInv
  <2> QED
    BY <2>3, <2>4
<1> QED
  BY <1>1, <1>2, <1>3, <1>4 DEF FrameInv

\* pfree: the page's place is empty from here on.
LEMMA PfreeKeepsFrames ==
  ASSUME PageInv, FrameInv, Recorded, NEW t \in Threads, pfree(t)
  PROVE  FrameInv'
<1> DEFINE v == FreedPage(t)
           x0 == <<"pte", Space(t), v>>
<1>1. /\ pc[t] = "pfree" /\ pc' = [pc EXCEPT ![t] = "unmap"]
      /\ used' = used \ {pte[Space(t)][v]}
      /\ UNCHANGED <<pte, pde, todo, frame, table>>
  BY DEF pfree, at, goto
<1>2. Space(t) \in Spaces /\ v \in Pages /\ pte[Space(t)][v] # NULL
  BY <1>1, ThreadFacts, FreedPageMapped
<1>3. \A u \in Threads : FreedPage(u)' = FreedPage(u)
  BY <1>1 DEF FreedPage
<1>4. FreedPage(t)' = v
  BY <1>3
<1> HIDE DEF v
<1>5. /\ pc'[t] = "unmap" /\ \A u \in Threads : u # t => pc'[u] = pc[u]
  BY <1>1 DEF PageInv, TypeInv
<1>6. \A u \in Threads : pc[u] = "unmap" => u # t /\ Space(u) # Space(t)
  BY <1>1, OthersInside DEF Inside
<1>7. \A s, w : Unmapping(s, w)' <=> Unmapping(s, w) \/ (s = Space(t) /\ w = v)
  BY <1>1, <1>3, <1>4, <1>5 DEF Unmapping
<1>8. ~ Unmapping(Space(t), v)
  BY <1>6 DEF Unmapping
<1>9. x0 \in Mappings /\ holding[x0] = pte[Space(t)][v]
  BY <1>2, <1>8, PlaceKinds, HoldingIs
<1>10. \A x \in Places : holding'[x] = IF x = x0 THEN NULL ELSE holding[x]
  <2> SUFFICES ASSUME NEW x \in Places
               PROVE  holding'[x] = IF x = x0 THEN NULL ELSE holding[x]
    OBVIOUS
  <2>1. CASE \E s \in Spaces, w \in Pages : x = <<"pte", s, w>>
    <3>1. PICK s \in Spaces, w \in Pages : x = <<"pte", s, w>>
      BY <2>1
    <3>2. x = x0 <=> s = Space(t) /\ w = v
      BY <3>1
    <3>3. /\ holding'[x] = IF Unmapping(s, w)' THEN NULL ELSE pte'[s][w]
          /\ holding[x] = IF Unmapping(s, w) THEN NULL ELSE pte[s][w]
      BY <3>1, HoldingIs, HoldingWillBe
    <3> QED
      BY <1>1, <1>7, <3>2, <3>3
  <2>2. CASE \E p \in Procs, d \in Tables : x = <<"pde", p, d>>
    BY <1>1, <2>2, HoldingIs, HoldingWillBe
  <2>3. CASE \E u \in Threads : x = <<"hand", u, 0>>
    <3>1. PICK u \in Threads : x = <<"hand", u, 0>>
      BY <2>3
    <3> QED
      BY <1>1, <1>5, <3>1, HoldingIs, HoldingWillBe
  <2> QED
    BY <2>1, <2>2, <2>3, PlaceKinds
<1> HIDE DEF x0
<1> QED
  BY <1>1, <1>2, <1>5, <1>9, <1>10, DropKeepsFrames

\* page_table_pte_remove clears the entry of the page whose frame is gone.
LEMMA UnmapKeepsFrames ==
  ASSUME PageInv, FrameInv, Recorded, NEW t \in Threads, page_table_pte_remove(t)
  PROVE  FrameInv'
<1> DEFINE v == FreedPage(t)
           last == \A w \in todo[t] \ {v} : pte[Space(t)][w] = NULL
<1>1. /\ pc[t] = "unmap"
      /\ pte' = [pte EXCEPT ![Space(t)][v] = NULL]
      /\ pc' = [pc EXCEPT ![t] = IF last THEN "vaddr_remove" ELSE "pfree"]
      /\ UNCHANGED <<used, pde, todo, frame, table>>
  BY DEF page_table_pte_remove, at, goto
<1>2. Space(t) \in Spaces /\ v \in Pages
  BY <1>1, ThreadFacts, FreedPageMapped
<1>3. Unmapping(Space(t), v)
  BY <1>1 DEF Unmapping
<1> HIDE DEF last
<1>4. /\ pc'[t] \in {"vaddr_remove", "pfree"}
      /\ \A u \in Threads : u # t => pc'[u] = pc[u]
  BY <1>1 DEF PageInv, TypeInv
<1>5. \A u \in Threads : u # t /\ pc[u] = "unmap" => Space(u) # Space(t)
  BY <1>1, OthersInside DEF Inside
<1>6. \A w : Unmapping(Space(t), w) => w = v
  BY <1>5 DEF Unmapping
<1> HIDE DEF v
<1>7. \A s \in Spaces, w \in Pages :
        pte'[s][w] = IF s = Space(t) /\ w = v THEN NULL ELSE pte[s][w]
  BY <1>1, <1>2 DEF PageInv, TypeInv
<1>8. \A u \in Threads : u # t /\ pc[u] = "unmap" => FreedPage(u)' = FreedPage(u)
  <2> SUFFICES ASSUME NEW u \in Threads, u # t, pc[u] = "unmap"
               PROVE  FreedPage(u)' = FreedPage(u)
    OBVIOUS
  <2>1. todo[u] \subseteq Pages /\ Space(u) \in Spaces /\ todo'[u] = todo[u]
    BY <1>1, ThreadFacts DEF PageInv, TypeInv
  <2>2. {w \in todo'[u] : pte'[Space(u)][w] # NULL} = {w \in todo[u] : pte[Space(u)][w] # NULL}
    BY <1>5, <1>7, <2>1
  <2> QED
    BY <2>2 DEF FreedPage
<1>9. \A s, w : Unmapping(s, w)' <=> Unmapping(s, w) /\ s # Space(t)
  BY <1>1, <1>4, <1>5, <1>8 DEF Unmapping
<1>10. \A x \in Places : holding'[x] = holding[x]
  <2> SUFFICES ASSUME NEW x \in Places PROVE holding'[x] = holding[x]
    OBVIOUS
  <2>1. CASE \E s \in Spaces, w \in Pages : x = <<"pte", s, w>>
    <3>1. PICK s \in Spaces, w \in Pages : x = <<"pte", s, w>>
      BY <2>1
    <3>2. /\ holding'[x] = IF Unmapping(s, w)' THEN NULL ELSE pte'[s][w]
          /\ holding[x] = IF Unmapping(s, w) THEN NULL ELSE pte[s][w]
      BY <3>1, HoldingIs, HoldingWillBe
    <3>3. CASE s = Space(t)
      BY <1>3, <1>6, <1>7, <1>9, <3>2, <3>3
    <3>4. CASE s # Space(t)
      BY <1>7, <1>9, <3>2, <3>4
    <3> QED
      BY <3>3, <3>4
  <2>2. CASE \E p \in Procs, d \in Tables : x = <<"pde", p, d>>
    BY <1>1, <2>2, HoldingIs, HoldingWillBe
  <2>3. CASE \E u \in Threads : x = <<"hand", u, 0>>
    <3>1. PICK u \in Threads : x = <<"hand", u, 0>>
      BY <2>3
    <3> QED
      BY <1>1, <1>4, <3>1, HoldingIs, HoldingWillBe
  <2> QED
    BY <2>1, <2>2, <2>3, PlaceKinds
<1>11. holding' = holding
  BY <1>10 DEF holding
<1> QED
  BY <1>1, <1>4, <1>11, KeptFrames

\* copy_process's buffer: a page that no other thread is unmapping.
LEMMA BufferKeepsFrames ==
  ASSUME PageInv, FrameInv, Recorded, NEW t \in Threads, NEW v \in Pages, mfree_buf_page(t, v)
  PROVE  FrameInv'
<1> DEFINE x0 == <<"pte", Kernel, v>>
<1>1. /\ {v} \in given[Kernel] /\ pte[Kernel][v] # NULL
      /\ used' = used \ {pte[Kernel][v]}
      /\ pte' = [pte EXCEPT ![Kernel][v] = NULL]
      /\ UNCHANGED <<pde, todo, frame, table, pc>>
  BY DEF mfree_buf_page
<1>2. Kernel \in Spaces
  BY DEF Spaces
<1>3. \A u \in Threads : Space(u) = Kernel => v \notin todo[u]
  BY <1>1, GivenIsFree
<1>4. \A s \in Spaces, w \in Pages :
        pte'[s][w] = IF s = Kernel /\ w = v THEN NULL ELSE pte[s][w]
  BY <1>1, <1>2 DEF PageInv, TypeInv
<1>5. \A u \in Threads : \A w \in todo[u] : pte'[Space(u)][w] = pte[Space(u)][w]
  <2> SUFFICES ASSUME NEW u \in Threads, NEW w \in todo[u]
               PROVE  pte'[Space(u)][w] = pte[Space(u)][w]
    OBVIOUS
  <2>1. w \in Pages /\ Space(u) \in Spaces
    BY ThreadFacts DEF PageInv, TypeInv
  <2> QED
    BY <1>3, <1>4, <2>1
<1>6. \A s, w : Unmapping(s, w)' <=> Unmapping(s, w)
  BY <1>1, <1>5, SameUnmapping
<1>7. ~ Unmapping(Kernel, v)
  BY <1>3, FreedPageMapped DEF Unmapping
<1>8. x0 \in Mappings /\ holding[x0] = pte[Kernel][v]
  BY <1>2, <1>7, PlaceKinds, HoldingIs
<1>9. \A x \in Places : holding'[x] = IF x = x0 THEN NULL ELSE holding[x]
  <2> SUFFICES ASSUME NEW x \in Places
               PROVE  holding'[x] = IF x = x0 THEN NULL ELSE holding[x]
    OBVIOUS
  <2>1. CASE \E s \in Spaces, w \in Pages : x = <<"pte", s, w>>
    <3>1. PICK s \in Spaces, w \in Pages : x = <<"pte", s, w>>
      BY <2>1
    <3>2. x = x0 <=> s = Kernel /\ w = v
      BY <3>1
    <3>3. /\ holding'[x] = IF Unmapping(s, w)' THEN NULL ELSE pte'[s][w]
          /\ holding[x] = IF Unmapping(s, w) THEN NULL ELSE pte[s][w]
      BY <3>1, HoldingIs, HoldingWillBe
    <3> QED
      BY <1>4, <1>6, <3>2, <3>3
  <2>2. CASE \E p \in Procs, d \in Tables : x = <<"pde", p, d>>
    BY <1>1, <2>2, HoldingIs, HoldingWillBe
  <2>3. CASE \E u \in Threads : x = <<"hand", u, 0>>
    BY <1>1, <2>3, HoldingIs, HoldingWillBe
  <2> QED
    BY <2>1, <2>2, <2>3, PlaceKinds
<1> HIDE DEF x0
<1> QED
  BY <1>1, <1>8, <1>9, DropKeepsFrames

----------------------------------------------------------------------------
LEMMA InitFrames ==
  ASSUME Init
  PROVE  FrameInv
<1> USE DEF Init
<1>1. \A x \in Places : holding[x] = NULL
  BY PlaceKinds, HoldingIs
<1>2. PagesApart /\ AllApart /\ Owned(holding, used)
  BY <1>1, PlaceKinds DEF PagesApart, AllApart, Distinct, Marked, Owned
<1>3. FoundInv /\ FreshInv
  BY PoolAssumption DEF FoundInv, FreshInv, Racing, Threads
<1> QED
  BY <1>2, <1>3 DEF FrameInv

LEMMA StepKeepsFrames ==
  ASSUME PageInv, FrameInv, Recorded, NEW t \in Threads, Step(t)
  PROVE  FrameInv'
<1>1. CASE palloc_scan(t) \/ table_scan(t)
  BY <1>1, ScanKeepsFrames
<1>2. CASE palloc_set(t)
  BY <1>2, SetKeepsFrames
<1>3. CASE page_table_add(t)
  BY <1>3, AddKeepsFrames
<1>4. CASE table_set(t)
  BY <1>4, TableKeepsFrames
<1>5. CASE pfree(t)
  BY <1>5, PfreeKeepsFrames
<1>6. CASE page_table_pte_remove(t)
  BY <1>6, UnmapKeepsFrames
<1>7. CASE \E v \in Pages : mfree_buf_page(t, v)
  BY <1>7, BufferKeepsFrames
<1> QED
  BY <1>1, <1>2, <1>3, <1>4, <1>5, <1>6, <1>7, PageStepsKeepFrames, Zenon DEF Step

LEMMA StutterKeepsFrames ==
  ASSUME FrameInv, UNCHANGED vars
  PROVE  FrameInv'
<1> USE DEF vars
<1>1. holding' = holding
  BY SameHolding
<1>2. (PagesApart => PagesApart') /\ (AllApart => AllApart')
  BY <1>1 DEF PagesApart, AllApart, Distinct, Marked, Mappings, Places
<1>3. (FoundInv => FoundInv') /\ (Owned(holding, used) => Owned(holding, used)')
  BY <1>1 DEF FoundInv, Owned, Mappings, Places
<1>4. FreshInv => FreshInv'
  BY DEF FreshInv, Racing
<1> QED
  BY <1>2, <1>3, <1>4 DEF FrameInv

\* The inductive invariant of the allocator, for any threads that run together,
\* preempted or not.
THEOREM SpecIInv == Spec => []IInv
<1>1. Init => IInv
  BY InitPages, InitFrames DEF IInv
<1>2. IInv /\ [Next]_vars => IInv'
  <2> SUFFICES ASSUME IInv, [Next]_vars PROVE IInv'
    OBVIOUS
  <2> USE DEF IInv
  <2>1. CASE Next
    <3>1. PICK t \in cast : t \in Threads /\ Step(t)
      BY <2>1, NextIsStep
    <3>2. UNCHANGED cast
      BY <2>1, NextIsStep
    <3>3. Recorded
      BY <2>1 DEF Next, Recorded
    <3>4. PageInv'
      BY <3>1, <3>2, StepKeepsPages
    <3>5. FrameInv'
      BY <3>1, <3>3, StepKeepsFrames
    <3> QED
      BY <3>4, <3>5
  <2>2. CASE UNCHANGED vars
    BY <2>2, StutterKeepsPages, StutterKeepsFrames
  <2> QED
    BY <2>1, <2>2
<1> QED
  BY <1>1, <1>2, PTL DEF Spec

\* A page's bit is set exactly while the page is mapped or about to be, in every
\* address space and whoever runs: vaddr_get, get_a_page and mfree_page keep the
\* virtual address pools exact.
THEOREM AddressesExact == Spec => []VaddrExact
<1>1. PageInv => VaddrExact
  BY DEF PageInv
<1> QED
  BY <1>1, SpecPages, PTL

\* The ASSERTs of the allocator that a second caller could break: page_table_add
\* finds the entry empty, mfree_page gives back a frame of the thread's own pool,
\* and lock_release is called by the holder.
AssertsHold ==
  \A t \in Threads :
    /\ pc[t] \in {"map", "table"} => pte[Space(t)][Min(todo[t])] = NULL
    /\ pc[t] = "pfree" => pte[Space(t)][FreedPage(t)] \in Pool(t)
    /\ pc[t] = "unlock" => lock[Lock(t)] = t

THEOREM AllocatorAsserts == Spec => []AssertsHold
<1>1. ASSUME PageInv PROVE AssertsHold
  <2> SUFFICES ASSUME NEW t \in Threads PROVE AssertsHold!(t)
    BY DEF AssertsHold
  <2>1. ASSUME pc[t] \in {"map", "table"} PROVE pte[Space(t)][Min(todo[t])] = NULL
    <3>1. todo[t] # {} /\ todo[t] \subseteq Nat /\ \A v \in todo[t] : pte[Space(t)][v] = NULL
      BY <1>1, <2>1, PoolAssumption DEF PageInv, TypeInv, StageInv, Mapping
    <3> QED
      BY <3>1, MinOfNat
  <2>2. pc[t] = "pfree" => pte[Space(t)][FreedPage(t)] \in Pool(t)
    BY <1>1, FreedPageMapped
  <2>3. pc[t] = "unlock" => lock[Lock(t)] = t
    BY <1>1 DEF PageInv, LockInv, Inside
  <2> QED
    BY <2>1, <2>2, <2>3
<1> QED
  BY <1>1, SpecPages, PTL

\* palloc never gives one frame to two pages, for any threads that run together;
\* nor to a page and a page table, or two page tables, until two scans of the
\* kernel pool have found the same frame.
THEOREM FramesExclusive == Spec => []FrameExclusive
<1>1. IInv => FrameExclusive
  <2>1. Distinct(holding, Mappings) => Exclusive(Mappings)
    BY PlaceKinds DEF Distinct, Exclusive, holding
  <2>2. Distinct(holding, Places) => Exclusive(Places)
    BY DEF Distinct, Exclusive, holding
  <2> QED
    BY <2>1, <2>2 DEF IInv, FrameInv, PagesApart, AllApart, FrameExclusive
<1> QED
  BY <1>1, SpecIInv, PTL

\* No frame leaks and no mapped page's frame counts as free, for any threads that
\* run together; no page table's frame does, until two scans of the kernel pool
\* have found the same frame.
THEOREM PoolsExact == Spec => []PoolExact
<1>1. IInv => PoolExact
  <2> SUFFICES ASSUME IInv PROVE PoolExact
    OBVIOUS
  <2> DEFINE held(places) == {Holds(x) : x \in places} \ {NULL}
  <2>1. \A x \in Places : holding[x] = Holds(x)
    BY DEF holding
  <2>2. held(Mappings) \subseteq used
    BY <2>1, PlaceKinds DEF IInv, FrameInv, PagesApart, Marked
  <2>3. used \subseteq held(Places)
    BY <2>1 DEF IInv, FrameInv, Owned
  <2>4. ~raced => held(Places) \subseteq used
    BY <2>1 DEF IInv, FrameInv, AllApart, Marked
  <2> QED
    BY <2>2, <2>3, <2>4 DEF PoolExact
<1> QED
  BY <1>1, SpecIInv, PTL

=============================================================================
