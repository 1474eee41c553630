---------------------------- MODULE ArenaProofs ----------------------------
(***************************************************************************)
(* Proofs about sys_malloc and sys_free, for every set of heaps, pages and *)
(* block sizes: no block is handed out twice, cnt of an arena counts its   *)
(* free blocks, and the pages of a heap are those of its requests.         *)
(*                                                                         *)
(* The invariant is stated for one heap, as a relation between the values  *)
(* that belong to it, so that a call on one heap says nothing about the    *)
(* others.                                                                 *)
(***************************************************************************)
EXTENDS Arena, FiniteSetTheorems, WellFoundedInduction, TLAPS

Block == Pages \X Nat

\* struct arena, as sys_malloc fills it.
ArenaT == [desc : Heaps \cup {NULL}, class : Classes \cup {NULL},
           cnt : Nat, large : BOOLEAN]

\* The pages that the arena or the large request at pg takes.
Takes(ar, pg) ==
  IF ar[pg] = NULL THEN {}
  ELSE Run(pg, IF ar[pg].large THEN ar[pg].cnt ELSE 1)

\* The members of a list, and that none occurs twice.
Elems(s) == {s[i] : i \in 1..Len(s)}
Once(s) == \A i, j \in 1..Len(s) : s[i] = s[j] => i = j

\* The blocks of an arena of size class c at page pg.
AllBlocks(pg, c) == {pg} \X (1..PerArena[c])

\* The blocks of a page in a set of blocks.
Of(pg, S) == {b \in S : b[1] = pg}

(* The parts of the invariant, for one heap h with the allocated pages v,  *)
(* the arenas ar, the free lists fr, the blocks in use gi, and the heaps   *)
(* that exist al.                                                          *)

HeapType(v, ar, fr, gi) ==
  /\ v \subseteq Pages
  /\ ar \in [Pages -> ArenaT \cup {NULL}]
  /\ fr \in [Classes -> Seq(Block)]
  /\ gi \subseteq Block

\* Every page in use belongs to one request.
Regions(v, ar) ==
  /\ v = UNION {Takes(ar, pg) : pg \in Pages}
  /\ \A p, q \in Pages : p # q => Takes(ar, p) \cap Takes(ar, q) = {}

\* Only the list of the arena's size has blocks of the page.
Listed(pg, fr, cs) == \A d \in Classes \ cs : Of(pg, Elems(fr[d])) = {}

\* The blocks of the page whose first bytes are a.  A page that begins no
\* request has none.  One that begins a large request has at most the one that
\* was handed out.  In an arena that the heap made itself every block is in use
\* or on the list of its size, not both, and cnt counts the latter; in one that
\* was copied by sys_fork none is on a list.
PageOK(h, pg, a, fr, gi, al) ==
  /\ a = NULL => Of(pg, gi) = {} /\ Listed(pg, fr, {})
  /\ a # NULL /\ a.large =>
       a.cnt > 0 /\ Of(pg, gi) \subseteq {<<pg, 0>>} /\ Listed(pg, fr, {})
  /\ a # NULL /\ ~a.large =>
       /\ a.class \in Classes
       /\ a.desc \in al
       /\ Of(pg, gi) \subseteq AllBlocks(pg, a.class)
       /\ a.desc # h => Listed(pg, fr, {})
       /\ a.desc = h =>
            LET idle == Of(pg, Elems(fr[a.class]))
            IN  /\ Listed(pg, fr, {a.class})
                /\ idle \cup Of(pg, gi) = AllBlocks(pg, a.class)
                /\ idle \cap Of(pg, gi) = {}
                /\ a.cnt = Cardinality(idle)

HeapOK(h, v, ar, fr, gi, al) ==
  /\ Regions(v, ar)
  /\ \A c \in Classes : Once(fr[c])
  /\ \A pg \in Pages : PageOK(h, pg, ar[pg], fr, gi, al)

\* No arena is kept with all of its blocks free.
Busy(h, ar, gi) ==
  \A pg \in Pages : ar[pg] # NULL /\ ~ar[pg].large /\ ar[pg].desc = h => Of(pg, gi) # {}

TypeInv ==
  /\ vused \in [Heaps -> SUBSET Pages]
  /\ arena \in [Heaps -> [Pages -> ArenaT \cup {NULL}]]
  /\ free \in [Heaps -> [Classes -> Seq(Block)]]
  /\ given \in [Heaps -> SUBSET Block]
  /\ alive \subseteq Heaps
  /\ broken \in BOOLEAN

\* The inductive invariant.  A list that leads through two address spaces does
\* not keep it: it holds up to the first block a child frees of its parent's
\* arena.
IInv ==
  ~broken =>
    /\ TypeInv
    /\ \A h \in alive : /\ HeapOK(h, vused[h], arena[h], free[h], given[h], alive)
                         /\ Busy(h, arena[h], given[h])
    /\ \A h \in Heaps \ alive : given[h] = {} /\ free[h] = [c \in Classes |-> <<>>]

----------------------------------------------------------------------------
(* Lists and sets of blocks. *)

\* Less than, as the relation the library's well-founded induction is about.
LEMMA LessThanRel ==
  ASSUME NEW a \in Nat, NEW b \in Nat, a < b
  PROVE  <<a, b>> \in OpToRel(<, Nat)
BY Zenon DEF OpToRel

\* A set of numbers that is not empty has a least member.
LEMMA LeastOfNat ==
  ASSUME NEW S, S \subseteq Nat, S # {}
  PROVE  \E x \in S : \A y \in S : x <= y
<1>1. PICK x \in S : \A y \in S : ~ (<<y, x>> \in OpToRel(<, Nat))
  BY NatLessThanWellFounded, WFMin
<1>2. \A y \in S : ~ (y < x)
  BY <1>1, LessThanRel, Zenon
<1> QED
  BY <1>2

\* list_append.
LEMMA AppendElems ==
  ASSUME NEW s \in Seq(Block), NEW b \in Block
  PROVE  /\ Append(s, b) \in Seq(Block)
         /\ Elems(Append(s, b)) = Elems(s) \cup {b}
         /\ Once(s) /\ b \notin Elems(s) => Once(Append(s, b))
<1> DEFINE app == Append(s, b)
<1>1. /\ app \in Seq(Block)
      /\ Len(app) = Len(s) + 1
      /\ \A i \in 1..Len(s) : app[i] = s[i]
      /\ app[Len(s) + 1] = b
  OBVIOUS
<1>2. Len(s) \in Nat
  OBVIOUS
<1> HIDE DEF app
<1>3. Elems(app) = Elems(s) \cup {b}
  BY <1>1, <1>2 DEF Elems
<1>4. Once(s) /\ b \notin Elems(s) => Once(app)
  BY <1>1, <1>2 DEF Elems, Once
<1> QED
  BY <1>1, <1>3, <1>4 DEF app

\* list_pop.
LEMMA PopElems ==
  ASSUME NEW s \in Seq(Block), s # <<>>, Once(s)
  PROVE  /\ Head(s) \in Elems(s)
         /\ Head(s) \in Block
         /\ Tail(s) \in Seq(Block)
         /\ Elems(Tail(s)) = Elems(s) \ {Head(s)}
         /\ Once(Tail(s))
<1> DEFINE tl == Tail(s)
<1>1. /\ tl \in Seq(Block)
      /\ Len(s) \in Nat \ {0}
      /\ Len(tl) = Len(s) - 1
      /\ \A i \in 1..Len(tl) : tl[i] = s[i + 1]
      /\ Head(s) = s[1]
      /\ s[1] \in Block
  OBVIOUS
<1> HIDE DEF tl
<1>2. s[1] \in Elems(s)
  BY <1>1 DEF Elems
<1>3. Elems(tl) = Elems(s) \ {s[1]}
  <2>1. ASSUME NEW x \in Elems(tl) PROVE x \in Elems(s) \ {s[1]}
    <3>1. PICK i \in 1..Len(tl) : x = tl[i]
      BY DEF Elems
    <3>2. i + 1 \in 1..Len(s) /\ 1 \in 1..Len(s) /\ i + 1 # 1 /\ x = s[i + 1]
      BY <1>1, <3>1
    <3> QED
      BY <3>2 DEF Elems, Once
  <2>2. ASSUME NEW x \in Elems(s), x # s[1] PROVE x \in Elems(tl)
    <3>1. PICK i \in 1..Len(s) : x = s[i]
      BY DEF Elems
    <3>2. i # 1
      BY <2>2, <3>1
    <3>3. i - 1 \in 1..Len(tl) /\ (i - 1) + 1 = i
      BY <1>1, <3>1, <3>2
    <3>4. tl[i - 1] = x
      BY <1>1, <3>1, <3>3
    <3> QED
      BY <3>3, <3>4 DEF Elems
  <2> QED
    BY <2>1, <2>2
<1>4. Once(tl)
  <2> SUFFICES ASSUME NEW i \in 1..Len(tl), NEW j \in 1..Len(tl), tl[i] = tl[j]
               PROVE  i = j
    BY DEF Once
  <2>1. i + 1 \in 1..Len(s) /\ j + 1 \in 1..Len(s) /\ s[i + 1] = s[j + 1]
    BY <1>1
  <2>2. i + 1 = j + 1
    BY <2>1 DEF Once
  <2> QED
    BY <2>2
<1> QED
  BY <1>1, <1>2, <1>3, <1>4 DEF tl

\* A list without repetitions is as long as it has members.
LEMMA OnceCard ==
  ASSUME NEW s \in Seq(Block), Once(s)
  PROVE  IsFiniteSet(Elems(s)) /\ Cardinality(Elems(s)) = Len(s)
<1>1. IsFiniteSet(1..Len(s)) /\ Cardinality(1..Len(s)) = Len(s)
  <2>1. Len(s) \in Int /\ 1 \in Int /\ (1 > Len(s) => Len(s) = 0) /\ Len(s) - 1 + 1 = Len(s)
    OBVIOUS
  <2> QED
    BY <2>1, FS_Interval
<1>2. ExistsBijection(1..Len(s), Elems(s))
  <2> DEFINE g == [i \in 1..Len(s) |-> s[i]]
  <2>1. g \in [1..Len(s) -> Elems(s)]
    BY DEF Elems
  <2>2. \A x \in Elems(s) : \E i \in 1..Len(s) : g[i] = x
    BY DEF Elems
  <2>3. \A i, j \in 1..Len(s) : g[i] = g[j] => i = j
    BY DEF Once
  <2> HIDE DEF g
  <2>4. g \in Bijection(1..Len(s), Elems(s))
    BY <2>1, <2>2, <2>3 DEF Bijection, Injection, Surjection, IsInjective
  <2> QED
    BY <2>4 DEF ExistsBijection
<1> QED
  BY <1>1, <1>2, FS_Bijection

\* The function that Without computes, prefix by prefix.
Rest(list, pg) ==
  CHOOSE r : r = [n \in 0..Len(list) |->
                    IF n = 0 THEN <<>>
                    ELSE IF list[n][1] = pg THEN r[n - 1]
                    ELSE Append(r[n - 1], list[n])]

LEMMA WithoutIsRest ==
  ASSUME NEW list, NEW pg
  PROVE  Without(list, pg) = Rest(list, pg)[Len(list)]
BY DEF Without, Rest

\* There is such a function: a longest prefix without one could be extended.
LEMMA RestEquation ==
  ASSUME NEW list \in Seq(Block), NEW pg
  PROVE  Rest(list, pg) = [n \in 0..Len(list) |->
                             IF n = 0 THEN <<>>
                             ELSE IF list[n][1] = pg THEN Rest(list, pg)[n - 1]
                             ELSE Append(Rest(list, pg)[n - 1], list[n])]
<1> DEFINE step(r, n) == IF n = 0 THEN <<>>
                         ELSE IF list[n][1] = pg THEN r[n - 1]
                         ELSE Append(r[n - 1], list[n])
           upto(m) == \E r : r = [n \in 0..m |-> step(r, n)]
           bad == {m \in 0..Len(list) : ~upto(m)}
<1>1. bad = {}
  <2> SUFFICES ASSUME bad # {} PROVE FALSE
    OBVIOUS
  <2>1. PICK m \in bad : \A k \in bad : m <= k
    <3>1. bad \subseteq Nat
      OBVIOUS
    <3> HIDE DEF bad
    <3> QED
      BY <3>1, LeastOfNat
  <2>2. m # 0
    <3>1. [n \in 0..0 |-> <<>>] = [n \in 0..0 |-> step([i \in 0..0 |-> <<>>], n)]
      OBVIOUS
    <3> QED
      BY <3>1
  <2>3. m \in Nat /\ m - 1 \in 0..Len(list) /\ m - 1 \notin bad
    <3>1. m \in 0..Len(list) /\ Len(list) \in Nat
      BY <2>1
    <3>2. m - 1 \in 0..Len(list) /\ ~ (m <= m - 1)
      BY <2>2, <3>1
    <3> HIDE DEF bad
    <3> QED
      BY <2>1, <3>1, <3>2
  <2>4. PICK r : r = [n \in 0..m - 1 |-> step(r, n)]
    BY <2>3
  <2> DEFINE ext == [n \in 0..m |-> IF n = m THEN step(r, m) ELSE r[n]]
  <2>5. \A n \in 0..m : ext[n] = step(ext, n)
    <3> SUFFICES ASSUME NEW n \in 0..m PROVE ext[n] = step(ext, n)
      OBVIOUS
    <3>1. n # 0 => n - 1 \in 0..m /\ n - 1 # m
      BY <2>3
    <3>2. n # 0 => ext[n - 1] = r[n - 1]
      BY <3>1
    <3>3. n # m => r[n] = step(r, n)
      <4>1. n # m => n \in 0..m - 1
        BY <2>3
      <4> QED
        BY <4>1, <2>4
    <3>4. ext[n] = step(r, n)
      BY <3>3
    <3> HIDE DEF ext
    <3> QED
      BY <3>2, <3>4
  <2>6. ext = [n \in 0..m |-> step(ext, n)]
    <3> HIDE DEF step
    <3> QED
      BY <2>5
  <2> QED
    BY <2>6
<1>2. Len(list) \in 0..Len(list)
  OBVIOUS
<1>3. upto(Len(list))
  BY <1>1, <1>2
<1> QED
  BY <1>3 DEF Rest

\* sys_free unlinks the blocks of the arena's page and no other.
LEMMA WithoutElems ==
  ASSUME NEW list \in Seq(Block), NEW pg
  PROVE  /\ Without(list, pg) \in Seq(Block)
         /\ Elems(Without(list, pg)) = {b \in Elems(list) : b[1] # pg}
         /\ Once(list) => Once(Without(list, pg))
<1> DEFINE r == Rest(list, pg)
           kept(n) == {list[i] : i \in {k \in 1..n : list[k][1] # pg}}
           good(n) == /\ r[n] \in Seq(Block)
                      /\ Elems(r[n]) = kept(n)
                      /\ Once(list) => Once(r[n])
           bad == {n \in 0..Len(list) : ~good(n)}
<1>1. r[0] = <<>>
  BY RestEquation
<1>2. ASSUME NEW n \in 1..Len(list)
      PROVE  r[n] = IF list[n][1] = pg THEN r[n - 1] ELSE Append(r[n - 1], list[n])
  <2>1. n \in 0..Len(list) /\ n # 0
    OBVIOUS
  <2>2. \A i \in 0..Len(list) :
          r[i] = IF i = 0 THEN <<>>
                 ELSE IF list[i][1] = pg THEN r[i - 1] ELSE Append(r[i - 1], list[i])
    <3> DEFINE g(q) == [i \in 0..Len(list) |->
                          IF i = 0 THEN <<>>
                          ELSE IF list[i][1] = pg THEN q[i - 1] ELSE Append(q[i - 1], list[i])]
    <3>1. r = g(r)
      BY RestEquation
    <3> HIDE DEF r
    <3>2. \A i \in 0..Len(list) : r[i] = g(r)[i]
      BY <3>1
    <3> QED
      BY <3>2
  <2> QED
    BY <2>1, <2>2
<1> HIDE DEF r
<1>3. bad = {}
  <2> SUFFICES ASSUME bad # {} PROVE FALSE
    OBVIOUS
  <2>1. PICK n \in bad : \A k \in bad : n <= k
    <3>1. bad \subseteq Nat
      OBVIOUS
    <3> HIDE DEF bad
    <3> QED
      BY <3>1, LeastOfNat
  <2>2. n # 0
    <3>1. good(0)
      <4>1. r[0] \in Seq(Block) /\ Elems(r[0]) = {} /\ Once(r[0])
        BY <1>1 DEF Elems, Once
      <4>2. kept(0) = {}
        OBVIOUS
      <4> QED
        BY <4>1, <4>2
    <3> QED
      BY <3>1, <2>1
  <2>3. n \in 1..Len(list) /\ n - 1 \in 0..Len(list) /\ ~ (n <= n - 1)
    BY <2>1, <2>2
  <2>4. good(n - 1)
    BY <2>1, <2>3
  <2>5. kept(n) = IF list[n][1] = pg THEN kept(n - 1) ELSE kept(n - 1) \cup {list[n]}
    <3>1. \A k : k \in 1..n <=> k \in 1..n - 1 \/ k = n
      BY <2>3
    <3> QED
      BY <3>1
  <2>6. CASE list[n][1] = pg
    BY <2>1, <2>3, <2>4, <2>5, <2>6, <1>2
  <2>7. CASE list[n][1] # pg
    <3>1. r[n] = Append(r[n - 1], list[n]) /\ list[n] \in Block
      <4>1. list[n] \in Block
        BY <2>3
      <4> QED
        BY <1>2, <2>3, <2>7, <4>1
    <3>2. Once(list) => list[n] \notin kept(n - 1)
      <4>1. \A k \in 1..n - 1 : k \in 1..Len(list) /\ k # n
        BY <2>3
      <4> QED
        BY <4>1, <2>3 DEF Once
    <3>3. good(n)
      <4> HIDE DEF kept
      <4> QED
        BY <2>4, <2>5, <2>7, <3>1, <3>2, AppendElems
    <3> QED
      BY <3>3, <2>1
  <2> QED
    BY <2>6, <2>7
<1>4. Len(list) \in 0..Len(list)
  OBVIOUS
<1>5. good(Len(list))
  BY <1>3, <1>4
<1>6. kept(Len(list)) = {b \in Elems(list) : b[1] # pg}
  BY DEF Elems
<1> QED
  BY <1>5, <1>6, WithoutIsRest DEF r

\* An arena of size c has PerArena[c] blocks.
LEMMA AllBlocksCard ==
  ASSUME NEW pg \in Pages, NEW c \in Classes
  PROVE  /\ AllBlocks(pg, c) \subseteq Block
         /\ AllBlocks(pg, c) # {}
         /\ IsFiniteSet(AllBlocks(pg, c))
         /\ Cardinality(AllBlocks(pg, c)) = PerArena[c]
<1>1. PerArena[c] \in Nat \ {0}
  BY ArenaAssumption
<1>2. IsFiniteSet(1..PerArena[c]) /\ Cardinality(1..PerArena[c]) = PerArena[c]
  BY <1>1, FS_Interval
<1>3. IsFiniteSet({pg}) /\ Cardinality({pg}) = 1
  BY FS_Singleton
<1>4. IsFiniteSet({pg} \X (1..PerArena[c])) /\ Cardinality({pg} \X (1..PerArena[c])) = 1 * PerArena[c]
  <2>1. PICK S, T : S = {pg} /\ T = 1..PerArena[c]
    OBVIOUS
  <2>2. IsFiniteSet(S) /\ IsFiniteSet(T)
    BY <1>2, <1>3, <2>1
  <2>3. IsFiniteSet(S \X T) /\ Cardinality(S \X T) = Cardinality(S) * Cardinality(T)
    BY <2>2, FS_Product
  <2> QED
    BY <1>2, <1>3, <2>1, <2>3
<1>5. <<pg, 1>> \in AllBlocks(pg, c) /\ AllBlocks(pg, c) \subseteq Block
  BY <1>1 DEF AllBlocks, Block
<1> QED
  BY <1>1, <1>4, <1>5 DEF AllBlocks

\* The list of a new arena's blocks.
LEMMA BlocksElems ==
  ASSUME NEW pg \in Pages, NEW c \in Classes
  PROVE  /\ Blocks(pg, c) \in Seq(Block)
         /\ Blocks(pg, c) # <<>>
         /\ Once(Blocks(pg, c))
         /\ Elems(Blocks(pg, c)) = AllBlocks(pg, c)
         /\ Head(Blocks(pg, c)) = <<pg, 1>>
<1>1. PerArena[c] \in Nat \ {0}
  BY ArenaAssumption
<1> DEFINE s == Blocks(pg, c)
<1>2. s \in Seq(Block) /\ Len(s) = PerArena[c] /\ \A i \in 1..PerArena[c] : s[i] = <<pg, i>>
  BY <1>1 DEF Blocks, Block
<1> HIDE DEF s
<1>3. Once(s)
  BY <1>2 DEF Once
<1>4. Elems(s) = AllBlocks(pg, c)
  <2>1. Elems(s) = {<<pg, i>> : i \in 1..PerArena[c]}
    BY <1>2 DEF Elems
  <2> QED
    BY <2>1 DEF AllBlocks
<1>5. s # <<>> /\ Head(s) = <<pg, 1>>
  BY <1>1, <1>2
<1> QED
  BY <1>2, <1>3, <1>4, <1>5 DEF s

----------------------------------------------------------------------------
(* What a call does to one heap. *)

\* A request that begins, ends or changes at one page.
LEMMA Retake ==
  ASSUME NEW v, NEW ar, NEW pg \in Pages, NEW x,
         ar \in [Pages -> ArenaT \cup {NULL}],
         Regions(v, ar),
         Takes([ar EXCEPT ![pg] = x], pg) \cap (v \ Takes(ar, pg)) = {}
  PROVE  Regions((v \ Takes(ar, pg)) \cup Takes([ar EXCEPT ![pg] = x], pg), [ar EXCEPT ![pg] = x])
<1> DEFINE ar2 == [ar EXCEPT ![pg] = x]
<1>1. \A q \in Pages : q # pg => Takes(ar2, q) = Takes(ar, q)
  BY DEF Takes
<1>2. \A q \in Pages : q # pg => Takes(ar, q) \cap Takes(ar, pg) = {} /\ Takes(ar, q) \subseteq v
  BY DEF Regions
<1> HIDE DEF ar2
<1>3. \A q \in Pages : q # pg => Takes(ar, q) \subseteq v \ Takes(ar, pg)
  BY <1>2
<1>4. \A p, q \in Pages : p # q => Takes(ar2, p) \cap Takes(ar2, q) = {}
  <2> SUFFICES ASSUME NEW p \in Pages, NEW q \in Pages, p # q
               PROVE  Takes(ar2, p) \cap Takes(ar2, q) = {}
    OBVIOUS
  <2>1. CASE p # pg /\ q # pg
    BY <1>1, <2>1 DEF Regions
  <2>2. CASE p = pg
    BY <1>1, <1>3, <2>2 DEF ar2
  <2>3. CASE q = pg
    BY <1>1, <1>3, <2>3 DEF ar2
  <2> QED
    BY <2>1, <2>2, <2>3
<1>5. (v \ Takes(ar, pg)) \cup Takes(ar2, pg) = UNION {Takes(ar2, q) : q \in Pages}
  <2>1. ASSUME NEW y \in v \ Takes(ar, pg) PROVE \E q \in Pages : y \in Takes(ar2, q)
    <3>1. PICK q \in Pages : y \in Takes(ar, q)
      BY DEF Regions
    <3> QED
      BY <1>1, <3>1
  <2>2. ASSUME NEW q \in Pages, NEW y \in Takes(ar2, q)
        PROVE  y \in (v \ Takes(ar, pg)) \cup Takes(ar2, pg)
    BY <1>1, <1>3
  <2> QED
    BY <2>1, <2>2
<1> QED
  BY <1>4, <1>5 DEF Regions, ar2

\* The blocks of the other pages stay as they are.
LEMMA Local ==
  ASSUME NEW h, NEW v, NEW ar, NEW fr, NEW gi, NEW al,
         HeapType(v, ar, fr, gi), HeapOK(h, v, ar, fr, gi, al),
         NEW pg \in Pages, NEW x, NEW v2, NEW fr2, NEW gi2,
         Regions(v2, [ar EXCEPT ![pg] = x]),
         \A c \in Classes : Once(fr2[c]),
         \A q \in Pages \ {pg} :
           /\ Of(q, gi2) = Of(q, gi)
           /\ \A c \in Classes : Of(q, Elems(fr2[c])) = Of(q, Elems(fr[c])),
         PageOK(h, pg, x, fr2, gi2, al)
  PROVE  HeapOK(h, v2, [ar EXCEPT ![pg] = x], fr2, gi2, al)
<1> DEFINE ar2 == [ar EXCEPT ![pg] = x]
<1>1. \A q \in Pages : ar2[q] = IF q = pg THEN x ELSE ar[q]
  BY DEF HeapType
<1> HIDE DEF ar2
<1>2. ASSUME NEW q \in Pages \ {pg} PROVE PageOK(h, q, ar[q], fr2, gi2, al)
  <2>1. PageOK(h, q, ar[q], fr, gi, al)
    BY DEF HeapOK
  <2>2. \A cs : Listed(q, fr2, cs) <=> Listed(q, fr, cs)
    BY DEF Listed
  <2> QED
    BY <2>1, <2>2 DEF PageOK
<1> QED
  BY <1>1, <1>2 DEF HeapOK, ar2

\* A page that is not in use begins no request.
LEMMA FreePage ==
  ASSUME NEW h, NEW v, NEW ar, NEW fr, NEW gi, NEW al,
         HeapType(v, ar, fr, gi), HeapOK(h, v, ar, fr, gi, al), NEW pg \in Pages
  PROVE  /\ ar[pg] # NULL => pg \in Takes(ar, pg)
         /\ pg \notin v => ar[pg] = NULL
<1>1. PageOK(h, pg, ar[pg], fr, gi, al) /\ Takes(ar, pg) \subseteq v /\ pg \in Nat
  BY ArenaAssumption DEF HeapOK, Regions
<1>2. ar[pg] # NULL => pg \in Takes(ar, pg)
  <2>1. ar[pg] # NULL => ar[pg].cnt \in Nat
    BY DEF HeapType, ArenaT
  <2> QED
    BY <1>1, <2>1 DEF PageOK, Takes, Run
<1> QED
  BY <1>1, <1>2

\* sys_malloc with an empty list makes an arena of a free page.
LEMMA Fill ==
  ASSUME NEW h \in Heaps, NEW v, NEW ar, NEW fr, NEW gi, NEW al,
         HeapType(v, ar, fr, gi), HeapOK(h, v, ar, fr, gi, al), h \in al,
         NEW c \in Classes, fr[c] = <<>>, NEW pg \in Pages, pg \notin v,
         NEW x \in ArenaT, ~x.large, x.class = c, x.desc = h, x.cnt = PerArena[c]
  PROVE  /\ HeapType(v \cup {pg}, [ar EXCEPT ![pg] = x], [fr EXCEPT ![c] = Blocks(pg, c)], gi)
         /\ HeapOK(h, v \cup {pg}, [ar EXCEPT ![pg] = x], [fr EXCEPT ![c] = Blocks(pg, c)], gi, al)
         /\ ar[pg] = NULL
<1> DEFINE ar2 == [ar EXCEPT ![pg] = x]
           fr2 == [fr EXCEPT ![c] = Blocks(pg, c)]
<1>1. ar[pg] = NULL /\ PageOK(h, pg, NULL, fr, gi, al)
  <2>1. ar[pg] = NULL
    BY FreePage
  <2>2. PageOK(h, pg, ar[pg], fr, gi, al)
    BY DEF HeapOK
  <2> QED
    BY <2>1, <2>2
<1>2. x # NULL
  BY ArenaAssumption DEF ArenaT
<1>3. HeapType(v \cup {pg}, ar2, fr2, gi)
  <2>1. fr2 \in [Classes -> Seq(Block)]
    BY BlocksElems DEF HeapType
  <2> QED
    BY <1>2, <2>1 DEF HeapType
<1>4. Regions(v \cup {pg}, ar2)
  <2>1. Takes(ar, pg) = {} /\ Takes(ar2, pg) = {pg}
    <3>1. pg \in Nat /\ pg + 1 - 1 = pg
      BY ArenaAssumption
    <3>2. ar2[pg] = x
      BY DEF HeapType
    <3> QED
      BY <1>1, <1>2, <3>1, <3>2 DEF Takes, Run
  <2>2. Regions((v \ Takes(ar, pg)) \cup Takes(ar2, pg), ar2)
    <3>1. Takes(ar2, pg) \cap (v \ Takes(ar, pg)) = {}
      BY <2>1
    <3>2. ar \in [Pages -> ArenaT \cup {NULL}] /\ Regions(v, ar)
      BY DEF HeapType, HeapOK
    <3> QED
      BY <3>1, <3>2, Retake, Zenon
  <2>3. (v \ Takes(ar, pg)) \cup Takes(ar2, pg) = v \cup {pg}
    BY <2>1
  <2> QED
    BY <2>2, <2>3
<1>5. \A d \in Classes : fr2[d] = IF d = c THEN Blocks(pg, c) ELSE fr[d]
  BY DEF HeapType
<1>6. Elems(fr[c]) = {} /\ Elems(Blocks(pg, c)) = AllBlocks(pg, c) /\ Once(Blocks(pg, c))
  BY BlocksElems DEF Elems
<1>7. \A q : Of(q, AllBlocks(pg, c)) = IF q = pg THEN AllBlocks(pg, c) ELSE {}
  BY DEF Of, AllBlocks
<1> HIDE DEF fr2
<1>8. \A d \in Classes : Once(fr2[d])
  BY <1>5, <1>6 DEF HeapOK
<1>9. \A q \in Pages \ {pg} :
        /\ Of(q, gi) = Of(q, gi)
        /\ \A d \in Classes : Of(q, Elems(fr2[d])) = Of(q, Elems(fr[d]))
  <2>1. \A q : Of(q, {}) = {}
    BY DEF Of
  <2> QED
    BY <1>5, <1>6, <1>7, <2>1
<1>10. PageOK(h, pg, x, fr2, gi, al)
  <2>1. Of(pg, gi) = {} /\ Listed(pg, fr2, {c}) /\ Of(pg, Elems(fr2[c])) = AllBlocks(pg, c)
    BY <1>1, <1>5, <1>6, <1>7 DEF PageOK, Listed
  <2>2. Cardinality(AllBlocks(pg, c)) = PerArena[c]
    BY AllBlocksCard
  <2> QED
    BY <1>2, <2>1, <2>2 DEF PageOK
<1>11. HeapOK(h, v \cup {pg}, ar2, fr2, gi, al)
  BY <1>4, <1>8, <1>9, <1>10, Local
<1> QED
  BY <1>1, <1>3, <1>11 DEF fr2

\* What a heap knows of a block on one of its lists.
LEMMA ListedBlock ==
  ASSUME NEW h \in Heaps, NEW v, NEW ar, NEW fr, NEW gi, NEW al,
         HeapType(v, ar, fr, gi), HeapOK(h, v, ar, fr, gi, al),
         NEW c \in Classes, NEW b \in Elems(fr[c])
  PROVE  /\ b \in Block /\ b[1] \in Pages
         /\ ar[b[1]] \in ArenaT /\ ar[b[1]] # NULL
         /\ ~ar[b[1]].large /\ ar[b[1]].class = c /\ ar[b[1]].desc = h
         /\ b \in Of(b[1], Elems(fr[c]))
<1>1. b \in Block /\ b[1] \in Pages
  <2>1. fr[c] \in Seq(Block)
    BY DEF HeapType
  <2> QED
    BY <2>1 DEF Elems, Block
<1>2. b \in Of(b[1], Elems(fr[c]))
  BY DEF Of
<1>3. PageOK(h, b[1], ar[b[1]], fr, gi, al)
  BY <1>1 DEF HeapOK
<1>4. ~Listed(b[1], fr, {}) /\ (\A d : Listed(b[1], fr, {d}) => d = c)
  BY <1>2 DEF Listed
<1>5. ar[b[1]] \in ArenaT \cup {NULL}
  BY <1>1 DEF HeapType
<1>6. ar[b[1]] # NULL /\ ~ar[b[1]].large /\ ar[b[1]].class = c /\ ar[b[1]].desc = h
  BY <1>3, <1>4 DEF PageOK
<1> QED
  BY <1>1, <1>2, <1>5, <1>6

\* sys_malloc takes the first block of the list.
Popped(h, v, ar, fr, gi, al, c, b) ==
  LET ar2 == [ar EXCEPT ![b[1]].cnt = @ - 1]
      fr2 == [fr EXCEPT ![c] = Tail(fr[c])]
  IN  /\ b \in Block /\ b[1] \in Pages /\ ar[b[1]] # NULL
      /\ HeapType(v, ar2, fr2, gi \cup {b})
      /\ HeapOK(h, v, ar2, fr2, gi \cup {b}, al)

LEMMA Pop ==
  ASSUME NEW h \in Heaps, NEW v, NEW ar, NEW fr, NEW gi, NEW al,
         HeapType(v, ar, fr, gi), HeapOK(h, v, ar, fr, gi, al),
         NEW c \in Classes, fr[c] # <<>>, NEW b, b = Head(fr[c])
  PROVE  Popped(h, v, ar, fr, gi, al, c, b)
<1> DEFINE pg == b[1]
           x == [ar[pg] EXCEPT !.cnt = @ - 1]
           ar2 == [ar EXCEPT ![pg] = x]
           fr2 == [fr EXCEPT ![c] = Tail(fr[c])]
           gi2 == gi \cup {b}
           idle == Of(pg, Elems(fr[c]))
<1>1. /\ fr[c] \in Seq(Block)
      /\ b \in Elems(fr[c])
      /\ Tail(fr[c]) \in Seq(Block)
      /\ Elems(Tail(fr[c])) = Elems(fr[c]) \ {b}
      /\ Once(Tail(fr[c]))
  <2>1. fr[c] \in Seq(Block) /\ Once(fr[c])
    BY DEF HeapType, HeapOK
  <2> QED
    BY <2>1, PopElems
<1>2. /\ b \in Block /\ pg \in Pages
      /\ ar[pg] \in ArenaT /\ ar[pg] # NULL
      /\ ~ar[pg].large /\ ar[pg].class = c /\ ar[pg].desc = h
      /\ b \in idle
  BY <1>1, ListedBlock
<1>3. PageOK(h, pg, ar[pg], fr, gi, al)
  BY <1>2 DEF HeapOK
<1>4. /\ Listed(pg, fr, {c})
      /\ idle \cup Of(pg, gi) = AllBlocks(pg, c)
      /\ idle \cap Of(pg, gi) = {}
      /\ ar[pg].cnt = Cardinality(idle)
      /\ h \in al
  BY <1>2, <1>3 DEF PageOK
<1>5. /\ IsFiniteSet(idle \ {b})
      /\ Cardinality(idle \ {b}) = ar[pg].cnt - 1
      /\ ar[pg].cnt - 1 \in Nat
  <2>1. IsFiniteSet(idle)
    BY <1>2, <1>4, AllBlocksCard, FS_Subset
  <2>2. /\ IsFiniteSet(idle \ {b})
        /\ Cardinality(idle \ {b}) = Cardinality(idle) - 1
        /\ Cardinality(idle \ {b}) \in Nat
    BY <1>2, <2>1, FS_RemoveElement, FS_CardinalityType
  <2> QED
    BY <1>4, <2>2
<1>6. /\ x \in ArenaT /\ x # NULL /\ x.large = ar[pg].large
      /\ ~x.large /\ x.class = c /\ x.desc = h /\ x.cnt = ar[pg].cnt - 1
  <2>1. x \in ArenaT /\ x.large = ar[pg].large
        /\ ~x.large /\ x.class = c /\ x.desc = h /\ x.cnt = ar[pg].cnt - 1
    BY <1>2, <1>5 DEF ArenaT
  <2> QED
    BY <2>1, ArenaAssumption DEF ArenaT
<1>7. HeapType(v, ar2, fr2, gi2)
  <2>1. ar2 \in [Pages -> ArenaT \cup {NULL}]
    BY <1>2, <1>6 DEF HeapType
  <2>2. fr2 \in [Classes -> Seq(Block)]
    BY <1>1 DEF HeapType
  <2> QED
    BY <1>2, <2>1, <2>2 DEF HeapType
<1>8. Regions(v, ar2)
  <2>1. Takes(ar2, pg) = Takes(ar, pg)
    <3>1. ar2[pg] = x
      BY <1>2 DEF HeapType
    <3> QED
      BY <1>2, <1>6, <3>1 DEF Takes
  <2>2. Regions((v \ Takes(ar, pg)) \cup Takes(ar2, pg), ar2)
    <3>1. Takes(ar2, pg) \cap (v \ Takes(ar, pg)) = {}
      BY <2>1
    <3>2. ar \in [Pages -> ArenaT \cup {NULL}] /\ Regions(v, ar)
      BY DEF HeapType, HeapOK
    <3> QED
      BY <1>2, <3>1, <3>2, Retake, Zenon
  <2>3. Takes(ar, pg) \subseteq v
    BY <1>2 DEF HeapOK, Regions
  <2>4. (v \ Takes(ar, pg)) \cup Takes(ar2, pg) = v
    BY <2>1, <2>3
  <2> QED
    BY <2>2, <2>4
<1>9. \A d \in Classes : fr2[d] = IF d = c THEN Tail(fr[c]) ELSE fr[d]
  BY DEF HeapType
<1> HIDE DEF fr2
<1>10. \A d \in Classes : Once(fr2[d])
  BY <1>1, <1>9 DEF HeapOK
<1>11. \A q \in Pages \ {pg} :
         /\ Of(q, gi2) = Of(q, gi)
         /\ \A d \in Classes : Of(q, Elems(fr2[d])) = Of(q, Elems(fr[d]))
  <2>1. \A q \in Pages \ {pg} : Of(q, gi2) = Of(q, gi)
    BY DEF Of
  <2>2. \A q \in Pages \ {pg} : Of(q, Elems(fr[c]) \ {b}) = Of(q, Elems(fr[c]))
    BY DEF Of
  <2> QED
    BY <1>1, <1>9, <2>1, <2>2
<1>12. PageOK(h, pg, x, fr2, gi2, al)
  <2>1. Of(pg, gi2) = Of(pg, gi) \cup {b} /\ Of(pg, Elems(fr2[c])) = idle \ {b}
    BY <1>1, <1>9 DEF Of
  <2>2. Listed(pg, fr2, {c})
    BY <1>4, <1>9 DEF Listed
  <2> HIDE DEF idle, gi2, pg
  <2> QED
    BY <1>2, <1>4, <1>5, <1>6, <2>1, <2>2 DEF PageOK
<1>13. HeapOK(h, v, ar2, fr2, gi2, al)
  <2> HIDE DEF pg, gi2
  <2> QED
    BY <1>2, <1>8, <1>10, <1>11, <1>12, Local
<1> QED
  BY <1>2, <1>7, <1>13 DEF fr2, Popped

\* What a heap knows of a block in use.
LEMMA GivenBlock ==
  ASSUME NEW h \in Heaps, NEW v, NEW ar, NEW fr, NEW gi, NEW al,
         HeapType(v, ar, fr, gi), HeapOK(h, v, ar, fr, gi, al), NEW b \in gi
  PROVE  /\ b \in Block /\ b[1] \in Pages
         /\ ar[b[1]] \in ArenaT /\ ar[b[1]] # NULL
         /\ b \in Of(b[1], gi)
         /\ ar[b[1]].large => Of(b[1], gi) = {b}
         /\ ~ar[b[1]].large => ar[b[1]].class \in Classes /\ ar[b[1]].desc \in al
<1>1. b \in Block /\ b[1] \in Pages /\ b \in Of(b[1], gi)
  BY DEF HeapType, Block, Of
<1>2. PageOK(h, b[1], ar[b[1]], fr, gi, al)
  BY <1>1 DEF HeapOK
<1>3. ar[b[1]] # NULL
  BY <1>1, <1>2 DEF PageOK
<1>4. ar[b[1]] \in ArenaT
  BY <1>1, <1>3 DEF HeapType
<1>5. ar[b[1]].large => Of(b[1], gi) = {b}
  BY <1>1, <1>2, <1>3 DEF PageOK
<1>6. ~ar[b[1]].large => ar[b[1]].class \in Classes /\ ar[b[1]].desc \in al
  BY <1>2, <1>3 DEF PageOK
<1> QED
  BY <1>1, <1>3, <1>4, <1>5, <1>6

\* sys_free puts a block back on its list; when that makes cnt the number of
\* the arena's blocks, none of them is in use.
PutBack(h, v, ar, fr, gi, al, b, x) ==
  LET ar2 == [ar EXCEPT ![b[1]] = x]
      fr2 == [fr EXCEPT ![x.class] = Append(fr[x.class], b)]
  IN  /\ HeapType(v, ar2, fr2, gi \ {b})
      /\ HeapOK(h, v, ar2, fr2, gi \ {b}, al)
      /\ Of(b[1], gi \ {b}) = {} <=> x.cnt = PerArena[x.class]

LEMMA Put ==
  ASSUME NEW h \in Heaps, NEW v, NEW ar, NEW fr, NEW gi, NEW al,
         HeapType(v, ar, fr, gi), HeapOK(h, v, ar, fr, gi, al),
         NEW b \in gi, ~ar[b[1]].large, ar[b[1]].desc = h,
         NEW x \in ArenaT, ~x.large, x.class = ar[b[1]].class, x.desc = h,
         x.cnt = ar[b[1]].cnt + 1
  PROVE  PutBack(h, v, ar, fr, gi, al, b, x)
<1> DEFINE pg == b[1]
           c == x.class
           ar2 == [ar EXCEPT ![pg] = x]
           fr2 == [fr EXCEPT ![c] = Append(fr[c], b)]
           gi2 == gi \ {b}
           idle == Of(pg, Elems(fr[c]))
<1>0. pg = b[1] /\ ~ar[pg].large /\ ar[pg].desc = h /\ c = ar[pg].class /\ x.cnt = ar[pg].cnt + 1
      /\ x.class = c
  OBVIOUS
<1>1. /\ b \in Block /\ pg \in Pages /\ c \in Classes
      /\ ar[pg] \in ArenaT /\ ar[pg] # NULL
      /\ b \in Of(pg, gi)
  BY GivenBlock
<1> HIDE DEF pg, c
<1>2. PageOK(h, pg, ar[pg], fr, gi, al)
  BY <1>0, <1>1 DEF HeapOK
<1>3. /\ Listed(pg, fr, {c})
      /\ idle \cup Of(pg, gi) = AllBlocks(pg, c)
      /\ idle \cap Of(pg, gi) = {}
      /\ ar[pg].cnt = Cardinality(idle)
      /\ h \in al
  BY <1>0, <1>1, <1>2 DEF PageOK
<1>4. b \notin idle /\ b \notin Elems(fr[c])
  BY <1>0, <1>1, <1>3 DEF Of
<1>5. /\ fr[c] \in Seq(Block)
      /\ Append(fr[c], b) \in Seq(Block)
      /\ Elems(Append(fr[c], b)) = Elems(fr[c]) \cup {b}
      /\ Once(Append(fr[c], b))
  <2>1. fr[c] \in Seq(Block) /\ Once(fr[c])
    BY <1>0, <1>1 DEF HeapType, HeapOK
  <2> QED
    BY <1>0, <1>1, <1>4, <2>1, AppendElems
<1>6. /\ IsFiniteSet(AllBlocks(pg, c))
      /\ Cardinality(AllBlocks(pg, c)) = PerArena[c]
      /\ Cardinality(idle \cup {b}) = x.cnt
      /\ idle \cup {b} \subseteq AllBlocks(pg, c)
  <2>1. IsFiniteSet(AllBlocks(pg, c)) /\ Cardinality(AllBlocks(pg, c)) = PerArena[c]
    BY <1>0, <1>1, AllBlocksCard
  <2>2. IsFiniteSet(idle)
    BY <1>0, <1>3, <2>1, FS_Subset
  <2>3. Cardinality(idle \cup {b}) = Cardinality(idle) + 1
    BY <1>0, <1>4, <2>2, FS_AddElement
  <2> QED
    BY <1>0, <1>1, <1>3, <2>1, <2>3
<1>7. x # NULL
  BY <1>0, ArenaAssumption DEF ArenaT
<1>8. HeapType(v, ar2, fr2, gi2)
  <2>1. ar2 \in [Pages -> ArenaT \cup {NULL}]
    BY <1>0, <1>1 DEF HeapType
  <2>2. fr2 \in [Classes -> Seq(Block)]
    BY <1>0, <1>5 DEF HeapType
  <2> QED
    BY <1>0, <2>1, <2>2 DEF HeapType
<1>9. Regions(v, ar2)
  <2>1. Takes(ar2, pg) = Takes(ar, pg)
    <3>1. ar2[pg] = x
      BY <1>0, <1>1 DEF HeapType
    <3> QED
      BY <1>0, <1>1, <1>7, <3>1 DEF Takes
  <2>2. Regions((v \ Takes(ar, pg)) \cup Takes(ar2, pg), ar2)
    <3>1. Takes(ar2, pg) \cap (v \ Takes(ar, pg)) = {}
      BY <1>0, <2>1
    <3>2. ar \in [Pages -> ArenaT \cup {NULL}] /\ Regions(v, ar)
      BY <1>0 DEF HeapType, HeapOK
    <3> QED
      BY <1>0, <1>1, <3>1, <3>2, Retake, Zenon
  <2>3. Takes(ar, pg) \subseteq v
    BY <1>0, <1>1 DEF HeapOK, Regions
  <2>4. (v \ Takes(ar, pg)) \cup Takes(ar2, pg) = v
    BY <1>0, <2>1, <2>3
  <2> QED
    BY <1>0, <2>2, <2>4
<1>10. \A d \in Classes : fr2[d] = IF d = c THEN Append(fr[c], b) ELSE fr[d]
  BY <1>0 DEF HeapType
<1> HIDE DEF fr2
<1>11. \A d \in Classes : Once(fr2[d])
  BY <1>0, <1>5, <1>10 DEF HeapOK
<1>12. \A q \in Pages \ {pg} :
         /\ Of(q, gi2) = Of(q, gi)
         /\ \A d \in Classes : Of(q, Elems(fr2[d])) = Of(q, Elems(fr[d]))
  <2>1. \A q \in Pages \ {pg} : Of(q, gi2) = Of(q, gi)
    BY <1>0 DEF Of
  <2>2. \A q \in Pages \ {pg} : Of(q, Elems(fr[c]) \cup {b}) = Of(q, Elems(fr[c]))
    BY <1>0 DEF Of
  <2> QED
    BY <1>0, <1>5, <1>10, <2>1, <2>2
<1>13. Of(pg, gi2) = Of(pg, gi) \ {b} /\ Of(pg, Elems(fr2[c])) = idle \cup {b}
  BY <1>0, <1>1, <1>5, <1>10 DEF Of
<1>14. PageOK(h, pg, x, fr2, gi2, al)
  <2>1. Listed(pg, fr2, {c})
    BY <1>0, <1>3, <1>10 DEF Listed
  <2> HIDE DEF idle, gi2
  <2> QED
    BY <1>0, <1>1, <1>3, <1>4, <1>6, <1>7, <1>13, <2>1 DEF PageOK
<1>15. HeapOK(h, v, ar2, fr2, gi2, al)
  <2> HIDE DEF gi2
  <2> QED
    BY <1>0, <1>1, <1>9, <1>11, <1>12, <1>14, Local
<1>16. Of(pg, gi2) = {} <=> x.cnt = PerArena[c]
  <2>1. Of(pg, gi2) = {} <=> idle \cup {b} = AllBlocks(pg, c)
    BY <1>0, <1>1, <1>3, <1>13
  <2>2. idle \cup {b} = AllBlocks(pg, c) <=> x.cnt = PerArena[c]
    BY <1>0, <1>6, FS_Subset
  <2> QED
    BY <1>0, <2>1, <2>2
<1> QED
  BY <1>8, <1>15, <1>16 DEF fr2, pg, c, PutBack

\* sys_free gives an arena back none of whose blocks is in use.
LEMMA Drop ==
  ASSUME NEW h \in Heaps, NEW v, NEW ar, NEW fr, NEW gi, NEW al,
         HeapType(v, ar, fr, gi), HeapOK(h, v, ar, fr, gi, al),
         NEW pg \in Pages, ar[pg] # NULL, ~ar[pg].large, ar[pg].desc = h,
         Of(pg, gi) = {}, NEW c, c = ar[pg].class
  PROVE  /\ HeapType(v \ {pg}, [ar EXCEPT ![pg] = NULL], [fr EXCEPT ![c] = Without(fr[c], pg)], gi)
         /\ HeapOK(h, v \ {pg}, [ar EXCEPT ![pg] = NULL], [fr EXCEPT ![c] = Without(fr[c], pg)], gi, al)
<1> DEFINE ar2 == [ar EXCEPT ![pg] = NULL]
           fr2 == [fr EXCEPT ![c] = Without(fr[c], pg)]
<1>1. PageOK(h, pg, ar[pg], fr, gi, al)
  BY DEF HeapOK
<1>2. c \in Classes /\ Listed(pg, fr, {c})
  BY <1>1 DEF PageOK
<1>3. /\ Without(fr[c], pg) \in Seq(Block)
      /\ Elems(Without(fr[c], pg)) = {b \in Elems(fr[c]) : b[1] # pg}
      /\ Once(Without(fr[c], pg))
  <2>1. fr[c] \in Seq(Block) /\ Once(fr[c])
    BY <1>2 DEF HeapType, HeapOK
  <2> QED
    BY <2>1, WithoutElems
<1>4. HeapType(v \ {pg}, ar2, fr2, gi)
  <2>1. fr2 \in [Classes -> Seq(Block)]
    BY <1>3 DEF HeapType
  <2> QED
    BY <2>1 DEF HeapType
<1>5. Regions(v \ {pg}, ar2)
  <2>1. Takes(ar, pg) = {pg} /\ Takes(ar2, pg) = {}
    <3>1. pg \in Nat /\ pg + 1 - 1 = pg
      BY ArenaAssumption
    <3>2. ar2[pg] = NULL
      BY DEF HeapType
    <3> QED
      BY <3>1, <3>2 DEF Takes, Run
  <2>2. Regions((v \ Takes(ar, pg)) \cup Takes(ar2, pg), ar2)
    <3>1. Takes(ar2, pg) \cap (v \ Takes(ar, pg)) = {}
      BY <2>1
    <3>2. ar \in [Pages -> ArenaT \cup {NULL}] /\ Regions(v, ar)
      BY DEF HeapType, HeapOK
    <3> QED
      BY <3>1, <3>2, Retake, Zenon
  <2>3. (v \ Takes(ar, pg)) \cup Takes(ar2, pg) = v \ {pg}
    BY <2>1
  <2> QED
    BY <2>2, <2>3
<1>6. \A d \in Classes : fr2[d] = IF d = c THEN Without(fr[c], pg) ELSE fr[d]
  BY DEF HeapType
<1> HIDE DEF fr2
<1>7. \A d \in Classes : Once(fr2[d])
  BY <1>3, <1>6 DEF HeapOK
<1>8. \A q : Of(q, {b \in Elems(fr[c]) : b[1] # pg}) = IF q = pg THEN {} ELSE Of(q, Elems(fr[c]))
  BY DEF Of
<1>9. \A q \in Pages \ {pg} :
        /\ Of(q, gi) = Of(q, gi)
        /\ \A d \in Classes : Of(q, Elems(fr2[d])) = Of(q, Elems(fr[d]))
  BY <1>3, <1>6, <1>8
<1>10. PageOK(h, pg, NULL, fr2, gi, al)
  <2>1. Listed(pg, fr2, {})
    BY <1>2, <1>3, <1>6, <1>8 DEF Listed
  <2> QED
    BY <2>1 DEF PageOK
<1>11. HeapOK(h, v \ {pg}, ar2, fr2, gi, al)
  BY <1>5, <1>7, <1>9, <1>10, Local
<1> QED
  BY <1>4, <1>11 DEF fr2

\* A large request takes a run of free pages.
LEMMA TakeLarge ==
  ASSUME NEW h \in Heaps, NEW v, NEW ar, NEW fr, NEW gi, NEW al,
         HeapType(v, ar, fr, gi), HeapOK(h, v, ar, fr, gi, al),
         NEW n \in Nat \ {0}, NEW pg \in Pages, Run(pg, n) \subseteq Pages \ v,
         NEW x \in ArenaT, x.large, x.cnt = n
  PROVE  /\ HeapType(v \cup Run(pg, n), [ar EXCEPT ![pg] = x], fr, gi \cup {<<pg, 0>>})
         /\ HeapOK(h, v \cup Run(pg, n), [ar EXCEPT ![pg] = x], fr, gi \cup {<<pg, 0>>}, al)
         /\ ar[pg] = NULL
<1> DEFINE ar2 == [ar EXCEPT ![pg] = x]
           gi2 == gi \cup {<<pg, 0>>}
<1>1. pg \in Nat /\ pg \in Run(pg, n)
  BY ArenaAssumption DEF Run
<1>2. ar[pg] = NULL
  <2>1. pg \notin v
    BY <1>1
  <2> QED
    BY <2>1, FreePage
<1>3. PageOK(h, pg, NULL, fr, gi, al)
  BY <1>2 DEF HeapOK
<1>4. x # NULL
  BY ArenaAssumption DEF ArenaT
<1>5. HeapType(v \cup Run(pg, n), ar2, fr, gi2)
  BY DEF HeapType, Block
<1>6. Regions(v \cup Run(pg, n), ar2)
  <2>1. Takes(ar, pg) = {} /\ Takes(ar2, pg) = Run(pg, n)
    <3>1. ar2[pg] = x
      BY DEF HeapType
    <3> QED
      BY <1>2, <1>4, <3>1 DEF Takes
  <2>2. Regions((v \ Takes(ar, pg)) \cup Takes(ar2, pg), ar2)
    <3>1. Takes(ar2, pg) \cap (v \ Takes(ar, pg)) = {}
      BY <2>1
    <3>2. ar \in [Pages -> ArenaT \cup {NULL}] /\ Regions(v, ar)
      BY DEF HeapType, HeapOK
    <3> QED
      BY <3>1, <3>2, Retake, Zenon
  <2>3. (v \ Takes(ar, pg)) \cup Takes(ar2, pg) = v \cup Run(pg, n)
    BY <2>1
  <2> QED
    BY <2>2, <2>3
<1>7. \A q \in Pages \ {pg} :
        /\ Of(q, gi2) = Of(q, gi)
        /\ \A d \in Classes : Of(q, Elems(fr[d])) = Of(q, Elems(fr[d]))
  BY DEF Of
<1>8. PageOK(h, pg, x, fr, gi2, al)
  <2>1. Of(pg, gi2) = Of(pg, gi) \cup {<<pg, 0>>}
    BY DEF Of
  <2> HIDE DEF gi2
  <2> QED
    BY <1>3, <1>4, <2>1 DEF PageOK
<1>9. HeapOK(h, v \cup Run(pg, n), ar2, fr, gi2, al)
  <2>1. \A d \in Classes : Once(fr[d])
    BY DEF HeapOK
  <2> HIDE DEF gi2
  <2> QED
    BY <1>6, <1>7, <1>8, <2>1, Local
<1> QED
  BY <1>2, <1>5, <1>9

\* mfree_page of a large request gives back the pages it took.
LEMMA FreeLarge ==
  ASSUME NEW h \in Heaps, NEW v, NEW ar, NEW fr, NEW gi, NEW al,
         HeapType(v, ar, fr, gi), HeapOK(h, v, ar, fr, gi, al),
         NEW b \in gi, NEW pg, pg = b[1], ar[pg].large
  PROVE  /\ HeapType(v \ Run(pg, ar[pg].cnt), [ar EXCEPT ![pg] = NULL], fr, gi \ {b})
         /\ HeapOK(h, v \ Run(pg, ar[pg].cnt), [ar EXCEPT ![pg] = NULL], fr, gi \ {b}, al)
<1> DEFINE ar2 == [ar EXCEPT ![pg] = NULL]
           gi2 == gi \ {b}
<1>1. pg \in Pages /\ ar[pg] # NULL /\ Of(pg, gi) = {b}
  BY GivenBlock
<1>2. PageOK(h, pg, ar[pg], fr, gi, al)
  BY <1>1 DEF HeapOK
<1>3. HeapType(v \ Run(pg, ar[pg].cnt), ar2, fr, gi2)
  BY DEF HeapType
<1>4. Regions(v \ Run(pg, ar[pg].cnt), ar2)
  <2>1. Takes(ar, pg) = Run(pg, ar[pg].cnt) /\ Takes(ar2, pg) = {}
    <3>1. ar2[pg] = NULL
      BY <1>1 DEF HeapType
    <3> QED
      BY <1>1, <3>1 DEF Takes
  <2>2. Regions((v \ Takes(ar, pg)) \cup Takes(ar2, pg), ar2)
    <3>1. Takes(ar2, pg) \cap (v \ Takes(ar, pg)) = {}
      BY <2>1
    <3>2. ar \in [Pages -> ArenaT \cup {NULL}] /\ Regions(v, ar)
      BY DEF HeapType, HeapOK
    <3> QED
      BY <1>1, <3>1, <3>2, Retake, Zenon
  <2>3. (v \ Takes(ar, pg)) \cup Takes(ar2, pg) = v \ Run(pg, ar[pg].cnt)
    BY <2>1
  <2> QED
    BY <2>2, <2>3
<1>5. \A q \in Pages \ {pg} :
        /\ Of(q, gi2) = Of(q, gi)
        /\ \A d \in Classes : Of(q, Elems(fr[d])) = Of(q, Elems(fr[d]))
  BY DEF Of
<1>6. PageOK(h, pg, NULL, fr, gi2, al)
  <2>1. Of(pg, gi2) = {}
    BY <1>1 DEF Of
  <2>2. Listed(pg, fr, {})
    BY <1>1, <1>2 DEF PageOK
  <2> QED
    BY <2>1, <2>2 DEF PageOK
<1>7. HeapOK(h, v \ Run(pg, ar[pg].cnt), ar2, fr, gi2, al)
  <2>1. \A d \in Classes : Once(fr[d])
    BY DEF HeapOK
  <2> HIDE DEF gi2
  <2> QED
    BY <1>1, <1>4, <1>5, <1>6, <2>1, Local
<1> QED
  BY <1>3, <1>7

\* sys_fork: a copy with empty lists, in which no arena is the child's own.
LEMMA ForkHeap ==
  ASSUME NEW h \in Heaps, NEW v, NEW ar, NEW fr, NEW gi, NEW al,
         HeapType(v, ar, fr, gi), HeapOK(h, v, ar, fr, gi, al),
         NEW k \in Heaps, k \notin al, NEW fr2, fr2 = [c \in Classes |-> <<>>]
  PROVE  HeapOK(k, v, ar, fr2, gi, al \cup {k}) /\ Busy(k, ar, gi)
<1>1. \A c \in Classes : Once(fr2[c]) /\ Elems(fr2[c]) = {}
  BY DEF Once, Elems
<1>2. \A pg, cs : Listed(pg, fr2, cs)
  BY <1>1 DEF Listed, Of
<1>3. ASSUME NEW pg \in Pages
      PROVE  /\ PageOK(k, pg, ar[pg], fr2, gi, al \cup {k})
             /\ ar[pg] # NULL /\ ~ar[pg].large => ar[pg].desc # k
  <2>1. PageOK(h, pg, ar[pg], fr, gi, al)
    BY DEF HeapOK
  <2> QED
    BY <1>2, <2>1 DEF PageOK
<1> QED
  BY <1>1, <1>3 DEF HeapOK, Busy

\* One more heap changes nothing for the others.
LEMMA OtherHeap ==
  ASSUME NEW h, NEW v, NEW ar, NEW fr, NEW gi, NEW al, HeapOK(h, v, ar, fr, gi, al), NEW k
  PROVE  HeapOK(h, v, ar, fr, gi, al \cup {k})
<1>1. ASSUME NEW pg \in Pages PROVE PageOK(h, pg, ar[pg], fr, gi, al \cup {k})
  <2>1. PageOK(h, pg, ar[pg], fr, gi, al)
    BY DEF HeapOK
  <2> QED
    BY <2>1 DEF PageOK
<1> QED
  BY <1>1 DEF HeapOK

----------------------------------------------------------------------------
(* The actions. *)

\* malloc_page finds a run of free pages.
LEMMA FirstRun ==
  ASSUME NEW h \in Heaps, NEW n, FreeRuns(h, n) # {}
  PROVE  /\ Min(FreeRuns(h, n)) \in Pages
         /\ Run(Min(FreeRuns(h, n)), n) \subseteq Pages \ vused[h]
<1>1. FreeRuns(h, n) \subseteq Nat
  BY ArenaAssumption DEF FreeRuns
<1>2. \E x \in FreeRuns(h, n) : \A y \in FreeRuns(h, n) : x <= y
  BY <1>1, LeastOfNat
<1>3. Min(FreeRuns(h, n)) \in FreeRuns(h, n)
  BY <1>2 DEF Min
<1> QED
  BY <1>3 DEF FreeRuns

\* The invariant of one heap that exists.
LEMMA HeapFacts ==
  ASSUME IInv, ~broken, NEW h \in alive
  PROVE  /\ h \in Heaps
         /\ HeapType(vused[h], arena[h], free[h], given[h])
         /\ HeapOK(h, vused[h], arena[h], free[h], given[h], alive)
         /\ Busy(h, arena[h], given[h])
<1>1. h \in Heaps
  BY DEF IInv, TypeInv
<1> QED
  BY <1>1 DEF IInv, TypeInv, HeapType

\* A call that changes one heap and keeps its invariant.
LEMMA Change ==
  ASSUME IInv, ~broken, NEW h \in alive,
         NEW v, NEW ar, NEW fr, NEW gi,
         vused' = [vused EXCEPT ![h] = v],
         arena' = [arena EXCEPT ![h] = ar],
         free' = [free EXCEPT ![h] = fr],
         given' = [given EXCEPT ![h] = gi],
         UNCHANGED <<alive, broken>>,
         HeapType(v, ar, fr, gi), HeapOK(h, v, ar, fr, gi, alive), Busy(h, ar, gi)
  PROVE  IInv'
<1>1. TypeInv'
  <2>1. vused' \in [Heaps -> SUBSET Pages] /\ given' \in [Heaps -> SUBSET Block]
    BY DEF IInv, TypeInv, HeapType
  <2>2. arena' \in [Heaps -> [Pages -> ArenaT \cup {NULL}]]
    BY DEF IInv, TypeInv, HeapType
  <2>3. free' \in [Heaps -> [Classes -> Seq(Block)]]
    BY DEF IInv, TypeInv, HeapType
  <2> QED
    BY <2>1, <2>2, <2>3 DEF IInv, TypeInv
<1>2. /\ vused'[h] = v /\ arena'[h] = ar /\ free'[h] = fr /\ given'[h] = gi
      /\ \A g \in Heaps : g # h =>
           /\ vused'[g] = vused[g] /\ arena'[g] = arena[g]
           /\ free'[g] = free[g] /\ given'[g] = given[g]
  BY DEF IInv, TypeInv
<1>3. alive \subseteq Heaps /\ alive' = alive /\ broken' = broken
  BY DEF IInv, TypeInv
<1>4. ASSUME NEW g \in alive
      PROVE  /\ HeapOK(g, vused'[g], arena'[g], free'[g], given'[g], alive)
             /\ Busy(g, arena'[g], given'[g])
  <2>1. CASE g = h
    BY <1>2, <2>1
  <2>2. CASE g # h
    <3>1. HeapOK(g, vused[g], arena[g], free[g], given[g], alive) /\ Busy(g, arena[g], given[g])
      BY HeapFacts
    <3> QED
      BY <1>2, <1>3, <2>2, <3>1
  <2> QED
    BY <2>1, <2>2
<1>5. \A g \in Heaps \ alive : given'[g] = {} /\ free'[g] = [c \in Classes |-> <<>>]
  BY <1>2 DEF IInv
<1> QED
  BY <1>1, <1>3, <1>4, <1>5 DEF IInv

\* A request of up to 1024 bytes.
LEMMA MallocStep ==
  ASSUME IInv, ~broken, NEW h \in Heaps, NEW c \in Classes, sys_malloc(h, c)
  PROVE  IInv'
<1> DEFINE fill == free[h][c] = <<>>
           new == Min(FreeRuns(h, 1))
           a0 == [desc |-> h, class |-> c, cnt |-> PerArena[c], large |-> FALSE]
           v1 == IF fill THEN vused[h] \cup {new} ELSE vused[h]
           ar1 == IF fill THEN [arena[h] EXCEPT ![new] = a0] ELSE arena[h]
           fr1 == IF fill THEN [free[h] EXCEPT ![c] = Blocks(new, c)] ELSE free[h]
           list == IF fill THEN Blocks(new, c) ELSE free[h][c]
           b == Head(list)
           ar2 == [ar1 EXCEPT ![b[1]].cnt = @ - 1]
           fr2 == [fr1 EXCEPT ![c] = Tail(list)]
           gi2 == given[h] \cup {b}
<1>1. /\ h \in alive
      /\ fill => FreeRuns(h, 1) # {}
      /\ vused' = [vused EXCEPT ![h] = v1]
      /\ UNCHANGED <<alive, broken>>
  BY DEF sys_malloc, IInv, TypeInv
<1>2. /\ HeapType(vused[h], arena[h], free[h], given[h])
      /\ HeapOK(h, vused[h], arena[h], free[h], given[h], alive)
      /\ Busy(h, arena[h], given[h])
  BY <1>1, HeapFacts
<1>3. /\ HeapType(v1, ar1, fr1, given[h])
      /\ HeapOK(h, v1, ar1, fr1, given[h], alive)
      /\ fr1[c] = list /\ list # <<>>
      /\ fill => new \in Pages
      /\ \A q \in Pages : ~fill \/ q # new => ar1[q] = arena[h][q]
  <2>1. CASE ~fill
    BY <1>2, <2>1
  <2>2. CASE fill
    <3>1. new \in Pages /\ new \notin vused[h]
      <4>1. new \in Pages /\ Run(new, 1) \subseteq Pages \ vused[h]
        BY <1>1, <2>2, FirstRun
      <4>2. new \in Run(new, 1)
        BY <4>1, ArenaAssumption DEF Run
      <4> QED
        BY <4>1, <4>2
    <3>2. a0 \in ArenaT /\ ~a0.large /\ a0.class = c /\ a0.desc = h /\ a0.cnt = PerArena[c]
      <4>1. PerArena[c] \in Nat
        BY ArenaAssumption
      <4> QED
        BY <4>1 DEF ArenaT
    <3> HIDE DEF a0, new
    <3>3. /\ HeapType(v1, ar1, fr1, given[h])
          /\ HeapOK(h, v1, ar1, fr1, given[h], alive)
      BY <1>1, <1>2, <2>2, <3>1, <3>2, Fill
    <3>4. fr1[c] = list /\ list # <<>>
      BY <1>2, <2>2, <3>1, BlocksElems DEF HeapType
    <3>5. \A q \in Pages : q # new => ar1[q] = arena[h][q]
      BY <1>2, <2>2 DEF HeapType
    <3> QED
      BY <2>2, <3>1, <3>3, <3>4, <3>5
  <2> QED
    BY <2>1, <2>2
<1>4. /\ arena' = [arena EXCEPT ![h] = [ar1 EXCEPT ![b[1]].cnt = @ - 1]]
      /\ free' = [free EXCEPT ![h][c] = Tail(list)]
      /\ given' = [given EXCEPT ![h] = @ \cup {b}]
  BY DEF sys_malloc
<1> HIDE DEF fill, v1, ar1, fr1, list, new
<1>5. /\ b \in Block /\ b[1] \in Pages /\ ar1[b[1]] # NULL
      /\ HeapType(v1, ar2, fr2, gi2)
      /\ HeapOK(h, v1, ar2, fr2, gi2, alive)
  <2>1. b = Head(fr1[c]) /\ fr1[c] # <<>> /\ fr2 = [fr1 EXCEPT ![c] = Tail(fr1[c])]
    BY <1>3
  <2> HIDE DEF b, fr2
  <2>2. Popped(h, v1, ar1, fr1, given[h], alive, c, b)
    BY <1>3, <2>1, Pop
  <2> QED
    BY <2>1, <2>2 DEF Popped
<1>6. given' = [given EXCEPT ![h] = gi2] /\ arena' = [arena EXCEPT ![h] = ar2]
  BY <1>4
<1>7. free' = [free EXCEPT ![h] = fr2]
  <2>1. fr2 = [free[h] EXCEPT ![c] = Tail(list)]
    BY <1>2 DEF HeapType, fr1
  <2> QED
    BY <1>4, <2>1
<1>8. Busy(h, ar2, gi2)
  <2> SUFFICES ASSUME NEW q \in Pages, ar2[q] # NULL, ~ar2[q].large, ar2[q].desc = h
               PROVE  Of(q, gi2) # {}
    BY DEF Busy
  <2>1. CASE q = b[1]
    BY <2>1 DEF Of
  <2>2. CASE q # b[1]
    <3>1. ar2[q] = ar1[q]
      BY <1>3, <2>2 DEF HeapType
    <3>2. ~ (fill /\ q = new)
      <4>1. fill => b[1] = new
        BY <1>3, BlocksElems DEF list
      <4> QED
        BY <2>2, <4>1
    <3>3. ar1[q] = arena[h][q]
      BY <1>3, <3>2
    <3>4. Of(q, given[h]) # {}
      BY <1>2, <3>1, <3>3 DEF Busy
    <3> QED
      BY <3>4 DEF Of
  <2> QED
    BY <2>1, <2>2
<1> HIDE DEF ar2, fr2, gi2
<1> QED
  BY <1>1, <1>5, <1>6, <1>7, <1>8, Change

\* A request of whole pages.
LEMMA MallocLargeStep ==
  ASSUME IInv, ~broken, NEW h \in Heaps, NEW n \in Large, sys_malloc_large(h, n)
  PROVE  IInv'
<1> DEFINE new == Min(FreeRuns(h, n))
           x == [desc |-> NULL, class |-> NULL, cnt |-> n, large |-> TRUE]
           ar2 == [arena[h] EXCEPT ![new] = x]
           v2 == vused[h] \cup Run(new, n)
           gi2 == given[h] \cup {<<new, 0>>}
<1>1. n \in Nat \ {0}
  BY ArenaAssumption
<1>2. /\ h \in alive /\ FreeRuns(h, n) # {}
      /\ vused' = [vused EXCEPT ![h] = v2]
      /\ arena' = [arena EXCEPT ![h] = ar2]
      /\ free' = [free EXCEPT ![h] = free[h]]
      /\ given' = [given EXCEPT ![h] = gi2]
      /\ UNCHANGED <<alive, broken>>
  BY DEF sys_malloc_large, IInv, TypeInv
<1>3. /\ HeapType(vused[h], arena[h], free[h], given[h])
      /\ HeapOK(h, vused[h], arena[h], free[h], given[h], alive)
      /\ Busy(h, arena[h], given[h])
  BY <1>2, HeapFacts
<1>4. new \in Pages /\ Run(new, n) \subseteq Pages \ vused[h]
  BY <1>2, FirstRun
<1>5. x \in ArenaT /\ x.large /\ x.cnt = n
  BY <1>1 DEF ArenaT
<1> HIDE DEF new, x
<1>6. /\ HeapType(v2, ar2, free[h], gi2)
      /\ HeapOK(h, v2, ar2, free[h], gi2, alive)
  BY <1>1, <1>3, <1>4, <1>5, TakeLarge
<1>7. Busy(h, ar2, gi2)
  <2> SUFFICES ASSUME NEW q \in Pages, ar2[q] # NULL, ~ar2[q].large, ar2[q].desc = h
               PROVE  Of(q, gi2) # {}
    BY DEF Busy
  <2>1. ar2[q] = arena[h][q]
    BY <1>3, <1>5 DEF HeapType
  <2>2. Of(q, given[h]) # {}
    BY <1>3, <2>1 DEF Busy
  <2> QED
    BY <2>2 DEF Of
<1> HIDE DEF ar2, v2, gi2
<1> QED
  BY <1>2, <1>6, <1>7, Change

\* A block is freed by a heap that exists.
LEMMA FreeAlive ==
  ASSUME IInv, ~broken, NEW h \in Heaps, NEW b \in given[h]
  PROVE  h \in alive
BY DEF IInv

\* sys_free of a large request.
LEMMA FreeLargeStep ==
  ASSUME IInv, ~broken, NEW h \in Heaps, NEW b \in given[h], sys_free_large(h, b)
  PROVE  IInv'
<1> DEFINE pg == b[1]
           ar2 == [arena[h] EXCEPT ![pg] = NULL]
           v2 == vused[h] \ Run(pg, arena[h][pg].cnt)
           gi2 == given[h] \ {b}
<1>1. /\ arena[h][pg].large
      /\ vused' = [vused EXCEPT ![h] = v2]
      /\ arena' = [arena EXCEPT ![h] = ar2]
      /\ free' = [free EXCEPT ![h] = free[h]]
      /\ given' = [given EXCEPT ![h] = gi2]
      /\ UNCHANGED <<alive, broken>>
  BY DEF sys_free_large, IInv, TypeInv
<1>2. /\ h \in alive
      /\ HeapType(vused[h], arena[h], free[h], given[h])
      /\ HeapOK(h, vused[h], arena[h], free[h], given[h], alive)
      /\ Busy(h, arena[h], given[h])
  BY FreeAlive, HeapFacts
<1>3. /\ HeapType(v2, ar2, free[h], gi2)
      /\ HeapOK(h, v2, ar2, free[h], gi2, alive)
  <2>1. pg = b[1]
    OBVIOUS
  <2> HIDE DEF pg
  <2> QED
    BY <1>1, <1>2, <2>1, FreeLarge
<1>4. Busy(h, ar2, gi2)
  <2> SUFFICES ASSUME NEW q \in Pages, ar2[q] # NULL, ~ar2[q].large, ar2[q].desc = h
               PROVE  Of(q, gi2) # {}
    BY DEF Busy
  <2>1. q # pg /\ ar2[q] = arena[h][q]
    BY <1>2 DEF HeapType
  <2>2. Of(q, given[h]) # {}
    BY <1>2, <2>1 DEF Busy
  <2> QED
    BY <2>1, <2>2 DEF Of
<1> HIDE DEF ar2, v2, gi2
<1> QED
  BY <1>1, <1>2, <1>3, <1>4, Change

\* sys_free of a block of an arena the heap made itself.
LEMMA FreeStep ==
  ASSUME IInv, ~broken, NEW h \in Heaps, NEW b \in given[h], sys_free(h, b)
  PROVE  IInv'
<1> DEFINE pg == b[1]
           a == arena[h][pg]
           c == a.class
           full == a.cnt + 1 = PerArena[c]
           x == [a EXCEPT !.cnt = @ + 1]
           list == Append(free[h][c], b)
           ar1 == [arena[h] EXCEPT ![pg] = x]
           fr1 == [free[h] EXCEPT ![c] = list]
           gi2 == given[h] \ {b}
           ar2 == [arena[h] EXCEPT ![pg] = IF full THEN NULL ELSE x]
           v2 == IF full THEN vused[h] \ {pg} ELSE vused[h]
           fr2 == [free[h] EXCEPT ![c] = IF full THEN Without(list, pg) ELSE list]
<1>1. /\ ~a.large /\ a.desc = h
      /\ vused' = [vused EXCEPT ![h] = v2]
      /\ arena' = [arena EXCEPT ![h] = ar2]
      /\ free' = [free EXCEPT ![h] = fr2]
      /\ given' = [given EXCEPT ![h] = gi2]
      /\ UNCHANGED <<alive, broken>>
  BY DEF sys_free, IInv, TypeInv
<1>2. /\ h \in alive
      /\ HeapType(vused[h], arena[h], free[h], given[h])
      /\ HeapOK(h, vused[h], arena[h], free[h], given[h], alive)
      /\ Busy(h, arena[h], given[h])
  BY FreeAlive, HeapFacts
<1>3. pg \in Pages /\ a \in ArenaT /\ a # NULL /\ c \in Classes
  BY <1>1, <1>2, GivenBlock
<1>4. /\ x \in ArenaT /\ ~x.large /\ x.class = c /\ x.desc = h /\ x.cnt = a.cnt + 1
      /\ x # NULL
  <2>1. a.cnt + 1 \in Nat
    BY <1>3 DEF ArenaT
  <2>2. x \in ArenaT /\ ~x.large /\ x.class = c /\ x.desc = h /\ x.cnt = a.cnt + 1
    BY <1>1, <1>3, <2>1 DEF ArenaT
  <2> QED
    BY <2>2, ArenaAssumption DEF ArenaT
<1>5. /\ HeapType(vused[h], ar1, fr1, gi2)
      /\ HeapOK(h, vused[h], ar1, fr1, gi2, alive)
      /\ Of(pg, gi2) = {} <=> full
  <2>1. /\ x \in ArenaT /\ ~x.large /\ x.class = arena[h][b[1]].class /\ x.desc = h
        /\ ~arena[h][b[1]].large /\ arena[h][b[1]].desc = h
        /\ x.cnt = arena[h][b[1]].cnt + 1
    BY <1>1, <1>4
  <2>2. x.class = c /\ (full <=> x.cnt = PerArena[c])
    BY <1>4
  <2>3. PutBack(h, vused[h], arena[h], free[h], given[h], alive, b, x)
    <3> HIDE DEF x
    <3> QED
      BY <1>2, <2>1, Put
  <2> HIDE DEF x, c, full
  <2> QED
    BY <2>2, <2>3 DEF PutBack
<1>6. ar1[pg] = x /\ fr1[c] = list
  BY <1>2, <1>3 DEF HeapType
<1>7. /\ HeapType(v2, ar2, fr2, gi2)
      /\ HeapOK(h, v2, ar2, fr2, gi2, alive)
  <2>1. CASE ~full
    BY <1>5, <2>1
  <2>2. CASE full
    <3>1. /\ HeapType(vused[h] \ {pg}, [ar1 EXCEPT ![pg] = NULL],
                      [fr1 EXCEPT ![c] = Without(fr1[c], pg)], gi2)
          /\ HeapOK(h, vused[h] \ {pg}, [ar1 EXCEPT ![pg] = NULL],
                    [fr1 EXCEPT ![c] = Without(fr1[c], pg)], gi2, alive)
      <4>1. ar1[pg] # NULL /\ ~ar1[pg].large /\ ar1[pg].desc = h /\ ar1[pg].class = c
            /\ Of(pg, gi2) = {}
        BY <1>4, <1>5, <1>6, <2>2
      <4> HIDE DEF pg, a, x, c, full, ar1, fr1, gi2
      <4> QED
        BY <1>3, <1>5, <4>1, Drop
    <3>2. [ar1 EXCEPT ![pg] = NULL] = [arena[h] EXCEPT ![pg] = NULL]
      BY <1>2 DEF HeapType
    <3>3. [fr1 EXCEPT ![c] = Without(fr1[c], pg)] = [free[h] EXCEPT ![c] = Without(list, pg)]
      BY <1>2, <1>6 DEF HeapType
    <3> QED
      BY <2>2, <3>1, <3>2, <3>3
  <2> QED
    BY <2>1, <2>2
<1>8. Busy(h, ar2, gi2)
  <2> SUFFICES ASSUME NEW q \in Pages, ar2[q] # NULL, ~ar2[q].large, ar2[q].desc = h
               PROVE  Of(q, gi2) # {}
    BY DEF Busy
  <2>1. CASE q = pg
    <3>1. ~full
      BY <1>2, <2>1 DEF HeapType
    <3> QED
      BY <1>5, <2>1, <3>1
  <2>2. CASE q # pg
    <3>1. ar2[q] = arena[h][q]
      BY <1>2, <2>2 DEF HeapType
    <3>2. Of(q, given[h]) # {}
      BY <1>2, <3>1 DEF Busy
    <3> QED
      BY <2>2, <3>2 DEF Of
  <2> QED
    BY <2>1, <2>2
<1> HIDE DEF ar2, v2, fr2, gi2
<1> QED
  BY <1>1, <1>2, <1>7, <1>8, Change

\* sys_fork.
LEMMA ForkStep ==
  ASSUME IInv, ~broken, NEW h \in Heaps, NEW k \in Heaps, sys_fork(h, k)
  PROVE  IInv'
<1>1. /\ h \in alive /\ k \notin alive
      /\ alive' = alive \cup {k}
      /\ vused' = [vused EXCEPT ![k] = vused[h]]
      /\ arena' = [arena EXCEPT ![k] = arena[h]]
      /\ given' = [given EXCEPT ![k] = given[h]]
      /\ free' = free /\ broken' = broken
  BY DEF sys_fork
<1>2. /\ HeapType(vused[h], arena[h], free[h], given[h])
      /\ HeapOK(h, vused[h], arena[h], free[h], given[h], alive)
      /\ Busy(h, arena[h], given[h])
  BY <1>1, HeapFacts
<1>3. free[k] = [c \in Classes |-> <<>>]
  BY <1>1 DEF IInv
<1>4. HeapOK(k, vused[h], arena[h], free[k], given[h], alive \cup {k}) /\ Busy(k, arena[h], given[h])
  BY <1>1, <1>2, <1>3, ForkHeap
<1>5. TypeInv'
  <2>1. vused' \in [Heaps -> SUBSET Pages] /\ given' \in [Heaps -> SUBSET Block]
    BY <1>1 DEF IInv, TypeInv
  <2>2. arena' \in [Heaps -> [Pages -> ArenaT \cup {NULL}]]
    BY <1>1 DEF IInv, TypeInv
  <2> QED
    BY <1>1, <2>1, <2>2 DEF IInv, TypeInv
<1>6. ASSUME NEW g \in Heaps
      PROVE  /\ vused'[g] = IF g = k THEN vused[h] ELSE vused[g]
             /\ arena'[g] = IF g = k THEN arena[h] ELSE arena[g]
             /\ given'[g] = IF g = k THEN given[h] ELSE given[g]
  BY <1>1 DEF IInv, TypeInv
<1>7. ASSUME NEW g \in alive'
      PROVE  /\ HeapOK(g, vused'[g], arena'[g], free'[g], given'[g], alive')
             /\ Busy(g, arena'[g], given'[g])
  <2>1. g \in Heaps
    BY <1>1 DEF IInv, TypeInv
  <2>2. CASE g = k
    BY <1>1, <1>4, <1>6, <2>2
  <2>3. CASE g # k
    <3>1. g \in alive
      BY <1>1, <2>3
    <3>2. HeapOK(g, vused[g], arena[g], free[g], given[g], alive) /\ Busy(g, arena[g], given[g])
      BY <3>1, HeapFacts
    <3>3. HeapOK(g, vused[g], arena[g], free[g], given[g], alive \cup {k})
      BY <3>2, OtherHeap
    <3> QED
      BY <1>1, <1>6, <2>1, <2>3, <3>2, <3>3
  <2> QED
    BY <2>2, <2>3
<1>8. \A g \in Heaps \ alive' : given'[g] = {} /\ free'[g] = [c \in Classes |-> <<>>]
  BY <1>1, <1>6 DEF IInv
<1> QED
  BY <1>5, <1>7, <1>8 DEF IInv

----------------------------------------------------------------------------
(* The theorems. *)

LEMMA InitIInv == Init => IInv
<1> SUFFICES ASSUME Init PROVE IInv
  OBVIOUS
<1>1. TypeInv
  <2>1. \A g \in Classes : <<>> \in Seq(Block)
    OBVIOUS
  <2>2. free \in [Heaps -> [Classes -> Seq(Block)]]
    BY <2>1 DEF Init
  <2>3. arena \in [Heaps -> [Pages -> ArenaT \cup {NULL}]]
    BY DEF Init
  <2> QED
    BY <2>2, <2>3, ArenaAssumption DEF Init, TypeInv
<1>2. ASSUME NEW h \in alive
      PROVE  /\ HeapOK(h, vused[h], arena[h], free[h], given[h], alive)
             /\ Busy(h, arena[h], given[h])
  <2>1. /\ h \in Heaps
        /\ vused[h] = {} /\ given[h] = {}
        /\ \A pg \in Pages : arena[h][pg] = NULL
        /\ \A c \in Classes : free[h][c] = <<>>
    BY ArenaAssumption DEF Init
  <2>2. Regions(vused[h], arena[h])
    BY <2>1 DEF Regions, Takes
  <2>3. \A c \in Classes : Once(free[h][c]) /\ Elems(free[h][c]) = {}
    BY <2>1 DEF Once, Elems
  <2>4. \A pg \in Pages : PageOK(h, pg, arena[h][pg], free[h], given[h], alive)
    BY <2>1, <2>3 DEF PageOK, Listed, Of
  <2> QED
    BY <2>1, <2>2, <2>3, <2>4 DEF HeapOK, Busy
<1>3. \A h \in Heaps \ alive : given[h] = {} /\ free[h] = [c \in Classes |-> <<>>]
  BY DEF Init
<1> QED
  BY <1>1, <1>2, <1>3 DEF IInv

\* The heap's invariant holds in every execution, for every set of heaps, pages
\* and block sizes.
THEOREM SpecIInv == Spec => []IInv
<1>1. IInv /\ [Next]_vars => IInv'
  <2> SUFFICES ASSUME IInv, [Next]_vars PROVE IInv'
    OBVIOUS
  <2>1. CASE UNCHANGED vars
    BY <2>1 DEF vars, IInv, TypeInv
  <2>2. CASE Next
    <3>1. ~broken
      BY <2>2 DEF Next
    <3>2. PICK h \in Heaps :
            \/ \E c \in Classes : sys_malloc(h, c)
            \/ \E n \in Large : sys_malloc_large(h, n)
            \/ \E b \in given[h] : sys_free(h, b) \/ sys_free_large(h, b) \/ sys_free_forked(h, b)
            \/ \E k \in Heaps : sys_fork(h, k)
      BY <2>2 DEF Next
    <3>3. CASE \E c \in Classes : sys_malloc(h, c)
      BY <3>1, <3>3, MallocStep
    <3>4. CASE \E n \in Large : sys_malloc_large(h, n)
      BY <3>1, <3>4, MallocLargeStep
    <3>5. CASE \E b \in given[h] : sys_free(h, b)
      BY <3>1, <3>5, FreeStep
    <3>6. CASE \E b \in given[h] : sys_free_large(h, b)
      BY <3>1, <3>6, FreeLargeStep
    <3>7. CASE \E b \in given[h] : sys_free_forked(h, b)
      BY <3>7 DEF sys_free_forked, IInv
    <3>8. CASE \E k \in Heaps : sys_fork(h, k)
      BY <3>1, <3>8, ForkStep
    <3> QED
      BY <3>2, <3>3, <3>4, <3>5, <3>6, <3>7, <3>8
  <2> QED
    BY <2>1, <2>2
<1> QED
  BY <1>1, InitIInv, PTL DEF Spec

\* The pages of a heap are those of its arenas and large requests, which do not
\* overlap: sys_malloc and sys_free with malloc_page and mfree_page, in parents
\* and children, up to the first block a child frees of its parent's arena.
THEOREM PagesOfRequests == Spec => []PagesExact
<1>1. ASSUME IInv PROVE PagesExact
  <2> SUFFICES ASSUME NEW h \in alive, ~broken PROVE PagesExact!(h)
    BY DEF PagesExact
  <2> DEFINE heads == {pg \in Pages : arena[h][pg] # NULL}
             size(pg) == IF arena[h][pg].large THEN arena[h][pg].cnt ELSE 1
  <2>1. Regions(vused[h], arena[h])
    BY <1>1 DEF IInv, HeapOK
  <2>2. \A pg \in heads : Takes(arena[h], pg) = Run(pg, size(pg))
    BY DEF Takes
  <2>3. \A pg \in Pages \ heads : Takes(arena[h], pg) = {}
    BY DEF Takes
  <2>4. heads \subseteq Pages
    OBVIOUS
  <2> HIDE DEF heads, size
  <2>5. vused[h] = UNION {Run(pg, size(pg)) : pg \in heads}
    <3>1. ASSUME NEW y \in vused[h] PROVE \E pg \in heads : y \in Run(pg, size(pg))
      <4>1. PICK pg \in Pages : y \in Takes(arena[h], pg)
        BY <2>1 DEF Regions
      <4> QED
        BY <2>2, <2>3, <4>1
    <3>2. ASSUME NEW pg \in heads PROVE Run(pg, size(pg)) \subseteq vused[h]
      BY <2>1, <2>2, <2>4 DEF Regions
    <3> QED
      BY <3>1, <3>2
  <2>6. \A p, q \in heads : p # q => Run(p, size(p)) \cap Run(q, size(q)) = {}
    BY <2>1, <2>2, <2>4 DEF Regions
  <2> QED
    BY <2>5, <2>6 DEF heads, size
<1> QED
  BY <1>1, SpecIInv, PTL

\* No block is handed out twice: one that is in use is on no free list, and a
\* list has a block once and in the arena of its size (sys_malloc's list_pop,
\* sys_free's list_append and list_remove), up to the first block a child frees
\* of its parent's arena.
THEOREM BlocksExclusive == Spec => []BlockExclusive
<1>1. ASSUME IInv PROVE BlockExclusive
  <2> SUFFICES ASSUME NEW h \in alive, NEW c \in Classes, ~broken PROVE BlockExclusive!(h, c)
    BY DEF BlockExclusive
  <2>1. /\ h \in Heaps
        /\ HeapType(vused[h], arena[h], free[h], given[h])
        /\ HeapOK(h, vused[h], arena[h], free[h], given[h], alive)
    BY <1>1, HeapFacts
  <2>2. OnList(h, c) = Elems(free[h][c])
    BY DEF OnList, Elems
  <2>3. Cardinality(Elems(free[h][c])) = Len(free[h][c])
    <3>1. free[h][c] \in Seq(Block) /\ Once(free[h][c])
      BY <2>1 DEF HeapType, HeapOK
    <3> QED
      BY <3>1, OnceCard
  <2>4. ASSUME NEW b \in Elems(free[h][c])
        PROVE  /\ b \notin given[h]
               /\ arena[h][b[1]] # NULL /\ arena[h][b[1]].class = c
    <3>1. /\ b[1] \in Pages
          /\ arena[h][b[1]] # NULL /\ ~arena[h][b[1]].large
          /\ arena[h][b[1]].class = c /\ arena[h][b[1]].desc = h
          /\ b \in Of(b[1], Elems(free[h][c]))
      BY <2>1, ListedBlock
    <3>2. PageOK(h, b[1], arena[h][b[1]], free[h], given[h], alive)
      BY <2>1, <3>1 DEF HeapOK
    <3>3. b \notin Of(b[1], given[h])
      BY <3>1, <3>2 DEF PageOK
    <3> QED
      BY <3>1, <3>3 DEF Of
  <2> QED
    BY <2>2, <2>3, <2>4
<1> QED
  BY <1>1, SpecIInv, PTL

\* cnt of an arena counts its free blocks, the others are in use, and an arena
\* whose blocks are all free has been given back (the end of sys_free), up to
\* the first block a child frees of its parent's arena.
THEOREM ArenasExact == Spec => []ArenaExact
<1>1. ASSUME IInv PROVE ArenaExact
  <2> SUFFICES ASSUME NEW h \in alive, NEW pg \in Pages PROVE ArenaExact!(h, pg)
    BY DEF ArenaExact
  <2> DEFINE a == arena[h][pg]
             idle == {b \in OnList(h, a.class) : b[1] = pg}
             used == {b \in given[h] : b[1] = pg}
  <2> SUFFICES ASSUME ~broken, a # NULL, ~a.large, a.desc = h
               PROVE  /\ a.cnt = Cardinality(idle)
                      /\ a.cnt + Cardinality(used) = PerArena[a.class]
                      /\ used # {}
    OBVIOUS
  <2>1. /\ HeapOK(h, vused[h], arena[h], free[h], given[h], alive)
        /\ Busy(h, arena[h], given[h])
    BY <1>1, HeapFacts
  <2>2. idle = Of(pg, Elems(free[h][a.class])) /\ used = Of(pg, given[h])
    BY DEF OnList, Elems, Of
  <2>3. PageOK(h, pg, a, free[h], given[h], alive)
    BY <2>1 DEF HeapOK
  <2> HIDE DEF idle, used
  <2>4. /\ a.class \in Classes
        /\ idle \cup used = AllBlocks(pg, a.class)
        /\ idle \cap used = {}
        /\ a.cnt = Cardinality(idle)
    BY <2>2, <2>3 DEF PageOK
  <2>5. used # {}
    BY <2>1, <2>2 DEF Busy
  <2>6. Cardinality(idle) + Cardinality(used) = PerArena[a.class]
    <3>1. IsFiniteSet(idle \cup used) /\ Cardinality(idle \cup used) = PerArena[a.class]
      BY <2>4, AllBlocksCard
    <3>2. IsFiniteSet(idle) /\ IsFiniteSet(used)
      BY <3>1, FS_Subset
    <3>3. Cardinality(idle \cup used) = Cardinality(idle) + Cardinality(used) - Cardinality(idle \cap used)
      BY <3>2, FS_Union
    <3>4. Cardinality(idle) \in Nat /\ Cardinality(used) \in Nat /\ Cardinality({}) = 0
      BY <3>2, FS_CardinalityType, FS_EmptySet
    <3>5. Cardinality(idle \cap used) = 0
      BY <2>4, <3>4
    <3> QED
      BY <3>1, <3>3, <3>4, <3>5
  <2> QED
    BY <2>4, <2>5, <2>6
<1> QED
  BY <1>1, SpecIInv, PTL

=============================================================================
