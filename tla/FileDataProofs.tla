--------------------------- MODULE FileDataProofs ---------------------------
(***************************************************************************)
(* Proofs about file_write, file_read and inode_release, for every number  *)
(* of processes and files, every size of a block, of the inode and of the  *)
(* table, and every order of the calls and of their steps until two calls  *)
(* of file_write to one file overlap: what file_read returns is what was   *)
(* written at that place (ReadsBack), no block is in two files or lost     *)
(* (BlocksExact), and no address is missing or there too early             *)
(* (SectorsHold).                                                          *)
(*                                                                         *)
(* The invariant looks at a file through Addrs(f), the addresses that it   *)
(* will have once the table that file_write holds in memory is on the      *)
(* disk.  An allocation sets one address from 0 to a free block, and       *)
(* inode_release clears those of one file, whose blocks then go back one   *)
(* by one: no other step changes any.                                      *)
(***************************************************************************)
EXTENDS FileData, WellFoundedInduction, TLAPS

Addr == Blocks \cup {0}
Slots == 0..Total    \* the indices of Addrs(f); Total stands for the table
Byte == (Files \X Nat) \cup {NULL}

Allocates == {"alloc", "table"}
Fills == {"chunk", "size"}
Writing == Allocates \cup Fills

JobT == [op : Writing \cup {"none", "first", "read"}, left : Nat, idx : Nat, will : Nat,
         all : [Idx -> Addr], start : Nat, got : Seq(Byte)]

TypeOK ==
  /\ size \in [Files -> Nat]
  /\ sect \in [Files -> [0..Direct -> Addr]]
  /\ bits \in SUBSET Blocks /\ going \subseteq bits
  /\ writer \in [Files -> Procs]
  /\ disk \in [Addr -> [Bytes -> Byte]]
  /\ table \in [Addr -> [Idx -> Addr]]
  /\ of \in [Procs -> Files \cup {NULL}]
  /\ pos \in [Procs -> Nat]
  /\ job \in [Procs -> JobT]
  /\ last \in [Procs -> [start : Nat, got : Seq(Byte)]]

\* What the last writer of a file does to it.
Phase(f) == IF of[writer[f]] = f THEN job[writer[f]].op ELSE "none"

TableOf(f) == IF Phase(f) \in Allocates THEN job[writer[f]].all
              ELSE table[sect[f][Direct]]

Addrs(f) == [i \in Slots |-> IF i = Total THEN sect[f][Direct]
                             ELSE IF i < Direct THEN sect[f][i]
                             ELSE TableOf(f)[i]]

AddrMap == [f \in Files |-> Addrs(f)]

\* No address occurs twice in the files, and the blocks in u are those that
\* occur.
Exact(M, u) ==
  /\ \A f, g \in Files : \A i, j \in Slots :
       M[f][i] # 0 /\ M[f][i] = M[g][j] => f = g /\ i = j
  /\ \A b \in Blocks : b \in u <=> \E f \in Files : \E i \in Slots : M[f][i] = b

(* For a file of n bytes with the addresses a, whose writer is in phase ph *)
(* of the call j.                                                          *)

\* How many blocks of data it has.
Count(n, a, ph, j) ==
  IF ph \notin Writing THEN (IF a[0] = 0 THEN 0 ELSE n \div BlockSize + 1)
  ELSE IF ph = "alloc" THEN j.idx ELSE j.will

\* How many it will have after the call.
Needs(n, a, ph, j) == IF ph \in Writing THEN j.will ELSE Count(n, a, ph, j)

\* They have the first addresses, and there is a table when they need one.
Shape(n, a, ph, j) ==
  /\ \A i \in Idx : a[i] # 0 <=> i < Count(n, a, ph, j)
  /\ a[Total] # 0 <=> Needs(n, a, ph, j) > Direct
  /\ a[0] = 0 => n = 0
  /\ n < BlockSize * Total

\* What file_write goes on with; tb is the table on the disk.
Call(n, a, ph, j, tb) ==
  /\ j.left > 0
  /\ n + j.left <= BlockSize * Total
  /\ j.will = (n + j.left) \div BlockSize + 1
  /\ ph = "alloc" => n \div BlockSize + 1 <= j.idx /\ j.idx < j.will
  /\ ph = "table" => j.will > Direct
  /\ \A i \in Idx : n \div BlockSize <= i /\ i < Count(n, a, ph, j) => j.all[i] = a[i]
  /\ ph \in Allocates =>
       /\ \A i \in Idx : i < Direct => j.all[i] \in {0, a[i]}
       /\ \A i \in Idx : Direct <= i /\ i <= n \div BlockSize => tb[i] = j.all[i]

\* The bytes on the disk are those that were written.
Filled(n, ph, j) == IF ph = "size" THEN n + Chunk(n, j.left) ELSE n
Stored(f, n, a, ph, j, d) ==
  \A x \in 0..Filled(n, ph, j) - 1 :
    d[a[x \div BlockSize]][x % BlockSize] = <<f, x>>

FileOK(f) ==
  /\ Shape(size[f], Addrs(f), Phase(f), job[writer[f]])
  /\ Phase(f) \in Writing =>
       /\ Call(size[f], Addrs(f), Phase(f), job[writer[f]], table[sect[f][Direct]])
       /\ panic = "none" => job[writer[f]].will <= Total
  /\ Stored(f, size[f], Addrs(f), Phase(f), job[writer[f]], disk)

(* For a process with the file f open, at position q, in the call j.       *)

\* The bytes it has got are those from the place where it began.
Got(f, r) == \A k \in 1..Len(r.got) : r.got[k] = <<f, r.start + k - 1>>

Reading(f, n, a, q, j) ==
  /\ j.left > 0
  /\ q + j.left <= n
  /\ \A x \in q..q + j.left - 1 : j.all[x \div BlockSize] = a[x \div BlockSize]
  /\ j.start + Len(j.got) = q
  /\ Got(f, j)

ProcOK(p) ==
  /\ of[p] = NULL => job[p].op = "none" /\ last[p] = NoRead
  /\ job[p].op \in InWrite => writer[of[p]] = p
  /\ job[p].op = "first" =>
       /\ size[of[p]] = 0 /\ Addrs(of[p])[0] # 0
       /\ job[p].left <= BlockSize * Total
  /\ of[p] # NULL => pos[p] <= size[of[p]] \/ pos[p] = Width - 1
  /\ job[p].op = "read" => Reading(of[p], size[of[p]], Addrs(of[p]), pos[p], job[p])
  /\ Got(of[p], last[p])

IInv ==
  /\ TypeOK
  /\ table[0] = NoAddr
  /\ Exact(AddrMap, bits \ going)
  /\ \A f \in Files : FileOK(f)
  /\ \A p \in Procs : ProcOK(p)
  /\ panic # "sector"

----------------------------------------------------------------------------
(* Numbers.                                                                *)

\* The order of numbers as the relation of which the library has proved that
\* it is well founded.
LEMMA LessThanRel ==
  ASSUME NEW a \in Nat, NEW b \in Nat
  PROVE  <<a, b>> \in OpToRel(<, Nat) <=> a < b
BY Zenon DEF OpToRel

\* A set of numbers that is not empty has a least member, which is Min of it.
LEMMA MinOfNat ==
  ASSUME NEW S, S \subseteq Nat, S # {}
  PROVE  Min(S) \in S /\ \A y \in S : Min(S) <= y
<1>1. PICK x \in S : \A y \in S : ~ (<<y, x>> \in OpToRel(<, Nat))
  BY NatLessThanWellFounded, WFMin
<1>2. \A y \in S : ~ (y < x)
  BY <1>1, LessThanRel, Zenon
<1>3. \A y \in S : x <= y
  BY <1>2
<1> QED
  BY <1>3 DEF Min

\* block_bitmap_alloc gives a block that is free.
LEMMA AllocFree ==
  ASSUME NEW S, Available(S)
  PROVE  block_bitmap_alloc(S) \in Blocks \ S
BY DataAssumption, MinOfNat DEF block_bitmap_alloc, Available

\* Block and offset of a byte.
LEMMA Place ==
  ASSUME NEW n \in Nat
  PROVE  n \div BlockSize \in Nat /\ n % BlockSize \in Bytes
BY DataAssumption DEF Bytes

\* Later bytes are in the same block or in a later one.
LEMMA PlaceMonotone ==
  ASSUME NEW m \in Nat, NEW n \in Nat, m <= n
  PROVE  m \div BlockSize <= n \div BlockSize
BY DataAssumption

\* The bytes of the first k blocks.
LEMMA PlaceBelow ==
  ASSUME NEW n \in Nat, NEW k \in Nat
  PROVE  n < BlockSize * k <=> n \div BlockSize < k
BY DataAssumption

\* A block and an offset belong to one byte.
LEMMA PlaceUnique ==
  ASSUME NEW m \in Nat, NEW n \in Nat,
         m \div BlockSize = n \div BlockSize
  PROVE  m - n = (m % BlockSize) - (n % BlockSize)
BY DataAssumption

\* What is written or read at once is not empty and stays in a block.
LEMMA ChunkSize ==
  ASSUME NEW n \in Nat, NEW l \in Nat, l > 0
  PROVE  /\ Chunk(n, l) \in Nat
         /\ Chunk(n, l) > 0
         /\ Chunk(n, l) <= l
         /\ (n % BlockSize) + Chunk(n, l) <= BlockSize
         /\ Chunk(n, l) # l => (n % BlockSize) + Chunk(n, l) = BlockSize
<1> DEFINE r == BlockSize - (n % BlockSize)
<1>1. r \in Nat /\ r > 0 /\ r + (n % BlockSize) = BlockSize
  BY DataAssumption
<1>2. {l, r} \subseteq Nat /\ {l, r} # {}
  BY <1>1
<1>3. Chunk(n, l) \in {l, r} /\ Chunk(n, l) <= l /\ Chunk(n, l) <= r
  <2> HIDE DEF r
  <2>1. Min({l, r}) \in {l, r} /\ \A y \in {l, r} : Min({l, r}) <= y
    BY <1>2, MinOfNat
  <2> QED
    BY <2>1 DEF Chunk, r
<1>4. n % BlockSize \in Nat /\ BlockSize \in Nat
  BY DataAssumption
<1> HIDE DEF r
<1> QED
  BY <1>1, <1>3, <1>4

\* The bytes of a chunk are in the block it begins in, one after the other.
LEMMA ChunkPlace ==
  ASSUME NEW n \in Nat, NEW l \in Nat, l > 0,
         NEW x \in Nat, n <= x, x < n + Chunk(n, l)
  PROVE  /\ x \div BlockSize = n \div BlockSize
         /\ x % BlockSize = (n % BlockSize) + (x - n)
<1>1. x < n + (BlockSize - (n % BlockSize))
  <2>1. /\ Chunk(n, l) \in Nat /\ (n % BlockSize) + Chunk(n, l) <= BlockSize
        /\ n % BlockSize \in Nat
    BY ChunkSize, DataAssumption
  <2> QED
    BY <2>1, DataAssumption
<1>2. /\ n \div BlockSize \in Nat /\ n % BlockSize \in Nat
      /\ n = BlockSize * (n \div BlockSize) + (n % BlockSize)
  BY DataAssumption
<1> DEFINE r == (n % BlockSize) + (x - n)
           q == n \div BlockSize
<1>3. r \in 0..BlockSize - 1 /\ x = BlockSize * q + r
  BY <1>1, <1>2, DataAssumption
<1>4. q \in Nat
  BY <1>2
<1> HIDE DEF r, q
<1>5. (BlockSize * q + r) \div BlockSize = q /\ (BlockSize * q + r) % BlockSize = r
  BY <1>3, <1>4, DataAssumption
<1> QED
  BY <1>3, <1>5 DEF r, q

----------------------------------------------------------------------------
(* Addresses.                                                              *)

AddrsT == [Slots -> Addr]

\* A free block becomes the address that was missing.
LEMMA ExactSet ==
  ASSUME NEW M \in [Files -> AddrsT], NEW N \in [Files -> AddrsT], NEW u, Exact(M, u),
         NEW f \in Files, NEW i \in Slots, M[f][i] = 0, NEW b \in Blocks, b \notin u,
         N[f][i] = b,
         \A g \in Files : \A j \in Slots : (g # f \/ j # i) => N[g][j] = M[g][j]
  PROVE  Exact(N, u \cup {b})
<1>1. \A g \in Files : \A j \in Slots : M[g][j] # b
  BY DEF Exact
<1>2. b # 0
  BY DataAssumption
<1>3. ASSUME NEW g \in Files, NEW h \in Files, NEW j \in Slots, NEW k \in Slots,
             N[g][j] # 0, N[g][j] = N[h][k]
      PROVE  g = h /\ j = k
  BY <1>1, <1>2, <1>3 DEF Exact
<1>4. ASSUME NEW c \in Blocks
      PROVE  c \in u \cup {b} <=> \E g \in Files : \E j \in Slots : N[g][j] = c
  <2>1. c \in u => \E g \in Files : \E j \in Slots : N[g][j] = c
    <3> SUFFICES ASSUME c \in u PROVE \E g \in Files : \E j \in Slots : N[g][j] = c
      OBVIOUS
    <3>1. PICK g \in Files, j \in Slots : M[g][j] = c
      BY DEF Exact
    <3>2. c # 0
      BY DataAssumption
    <3> QED
      BY <3>1, <3>2
  <2>2. ASSUME NEW g \in Files, NEW j \in Slots, N[g][j] = c
        PROVE  c \in u \cup {b}
    BY <2>2 DEF Exact
  <2> QED
    BY <2>1, <2>2
<1> QED
  BY <1>3, <1>4 DEF Exact

\* The addresses of a file are cleared, and its blocks are free.
LEMMA ExactClear ==
  ASSUME NEW M \in [Files -> AddrsT], NEW N \in [Files -> AddrsT], NEW u, Exact(M, u),
         NEW f \in Files, \A i \in Slots : N[f][i] = 0,
         \A g \in Files : g # f => \A j \in Slots : N[g][j] = M[g][j]
  PROVE  Exact(N, u \ {M[f][i] : i \in Slots})
<1> DEFINE R == {M[f][i] : i \in Slots}
<1>1. ASSUME NEW g \in Files, NEW h \in Files, NEW j \in Slots, NEW k \in Slots,
             N[g][j] # 0, N[g][j] = N[h][k]
      PROVE  g = h /\ j = k
  BY <1>1 DEF Exact
<1>2. ASSUME NEW c \in Blocks
      PROVE  c \in u \ R <=> \E g \in Files : \E j \in Slots : N[g][j] = c
  <2>1. c # 0
    BY DataAssumption
  <2>2. ASSUME c \in u, c \notin R
        PROVE  \E g \in Files : \E j \in Slots : N[g][j] = c
    <3>1. PICK g \in Files, j \in Slots : M[g][j] = c
      BY <2>2 DEF Exact
    <3> QED
      BY <3>1, <2>2
  <2>3. ASSUME NEW g \in Files, NEW j \in Slots, N[g][j] = c
        PROVE  c \in u /\ c \notin R
    <3>1. g # f /\ M[g][j] = c
      BY <2>1, <2>3
    <3> QED
      BY <2>1, <3>1 DEF Exact
  <2> QED
    BY <2>2, <2>3
<1> QED
  BY <1>1, <1>2 DEF Exact

\* The addresses of a file are typed as the state is.
LEMMA AddrsType ==
  ASSUME TypeOK
  PROVE  /\ AddrMap \in [Files -> AddrsT]
         /\ \A f \in Files : Addrs(f) \in AddrsT
<1> SUFFICES ASSUME NEW f \in Files PROVE Addrs(f) \in AddrsT
  BY DEF AddrMap
<1>1. writer[f] \in Procs /\ job[writer[f]] \in JobT
  BY DEF TypeOK
<1>2. sect[f] \in [0..Direct -> Addr]
  BY DEF TypeOK
<1>3. sect[f][Direct] \in Addr
  BY <1>2, DataAssumption
<1>4. TableOf(f) \in [Idx -> Addr]
  BY <1>1, <1>3 DEF TableOf, TypeOK, JobT
<1>5. ASSUME NEW i \in Slots
      PROVE  (IF i = Total THEN sect[f][Direct]
              ELSE IF i < Direct THEN sect[f][i] ELSE TableOf(f)[i]) \in Addr
  <2>1. i < Direct => i \in 0..Direct
    BY DataAssumption DEF Slots
  <2>2. i # Total => i \in Idx
    BY DataAssumption DEF Slots, Idx
  <2> QED
    BY <1>2, <1>3, <1>4, <2>1, <2>2
<1> QED
  BY <1>5 DEF Addrs, AddrsT

\* An address by its place.
LEMMA AddrsAt ==
  ASSUME NEW f \in Files
  PROVE  /\ \A i \in Idx : i \in Slots /\ i # Total
         /\ \A i \in 0..Direct - 1 : i \in Idx /\ Addrs(f)[i] = sect[f][i]
         /\ \A i \in Direct..Total - 1 : i \in Idx /\ Addrs(f)[i] = TableOf(f)[i]
         /\ Total \in Slots /\ Addrs(f)[Total] = sect[f][Direct]
         /\ Idx = (0..Direct - 1) \cup (Direct..Total - 1)
         /\ Slots = Idx \cup {Total}
<1>1. /\ \A i \in Idx : i \in Slots /\ i # Total
      /\ \A i \in 0..Direct - 1 : i \in Idx /\ i < Direct
      /\ \A i \in Direct..Total - 1 : i \in Idx /\ ~ (i < Direct)
      /\ Total \in Slots
      /\ Idx = (0..Direct - 1) \cup (Direct..Total - 1)
      /\ Slots = Idx \cup {Total}
  BY DataAssumption DEF Idx, Slots
<1> QED
  BY <1>1 DEF Addrs

\* The blocks that inode_release finds.
LEMMA ReachedAddrs ==
  ASSUME TypeOK, table[0] = NoAddr, NEW f \in Files, Phase(f) \notin Allocates
  PROVE  Reached(f) = {Addrs(f)[i] : i \in Slots} \ {0}
<1> DEFINE t == sect[f][Direct]
<1>1. TableOf(f) = table[t]
  BY DEF TableOf
<1>2. 0..Direct = (0..Direct - 1) \cup {Direct}
  BY DataAssumption
<1>3. {sect[f][i] : i \in 0..Direct} = {Addrs(f)[i] : i \in 0..Direct - 1} \cup {Addrs(f)[Total]}
  BY <1>2, AddrsAt
<1>4. {table[t][i] : i \in Direct..Total - 1} = {Addrs(f)[i] : i \in Direct..Total - 1}
  BY <1>1, AddrsAt
<1>5. t = 0 => \A i \in Direct..Total - 1 : Addrs(f)[i] = 0
  BY <1>1, AddrsAt DEF NoAddr
<1>6. {Addrs(f)[i] : i \in Slots} = {Addrs(f)[i] : i \in 0..Direct - 1}
        \cup {Addrs(f)[i] : i \in Direct..Total - 1} \cup {Addrs(f)[Total]}
  <2> DEFINE a == Addrs(f)
  <2>1. Slots = (0..Direct - 1) \cup (Direct..Total - 1) \cup {Total}
    BY AddrsAt
  <2> HIDE DEF a
  <2>2. {a[i] : i \in Slots} = {a[i] : i \in 0..Direct - 1}
          \cup {a[i] : i \in Direct..Total - 1} \cup {a[Total]}
    BY <2>1
  <2> QED
    BY <2>2 DEF a
<1> QED
  BY <1>3, <1>4, <1>5, <1>6 DEF Reached

\* The blocks that BlocksExact speaks of.
LEMMA HeldAddrs ==
  ASSUME IInv, NEW f \in Files
  PROVE  Held(f) = {Addrs(f)[i] : i \in Slots} \ {0}
<1>1. Allocating(f) <=> Phase(f) \in Allocates
  BY DEF Allocating, Phase, Allocates
<1>2. CASE Phase(f) \notin Allocates
  BY <1>1, <1>2, ReachedAddrs DEF Held, IInv
<1>3. CASE Phase(f) \in Allocates
  <2> DEFINE all == job[writer[f]].all
  <2>1. TableOf(f) = all
    BY <1>3 DEF TableOf
  <2>2. \A i \in Idx : i < Direct => all[i] \in {0, Addrs(f)[i]}
    BY <1>3 DEF IInv, FileOK, Call, Writing
  <2>3. \A i \in 0..Direct - 1 : i < Direct
    BY DataAssumption
  <2>4. {Addrs(f)[i] : i \in Slots} \ {0} \subseteq
          ({sect[f][i] : i \in 0..Direct} \cup {all[i] : i \in Idx}) \ {0}
    <3>1. 0..Direct = (0..Direct - 1) \cup {Direct}
      BY DataAssumption
    <3> QED
      BY <2>1, <3>1, AddrsAt
  <2>5. ({sect[f][i] : i \in 0..Direct} \cup {all[i] : i \in Idx}) \ {0} \subseteq
          {Addrs(f)[i] : i \in Slots} \ {0}
    <3>1. 0..Direct = (0..Direct - 1) \cup {Direct}
      BY DataAssumption
    <3>2. \A i \in 0..Direct : sect[f][i] \in {Addrs(f)[k] : k \in Slots}
      BY <3>1, AddrsAt
    <3>3. \A i \in Idx : all[i] # 0 => all[i] \in {Addrs(f)[k] : k \in Slots}
      BY <2>1, <2>2, <2>3, AddrsAt
    <3> QED
      BY <3>2, <3>3
  <2> QED
    BY <1>1, <1>3, <2>4, <2>5 DEF Held
<1> QED
  BY <1>2, <1>3

\* The invariant has the three properties that the run checks.
LEMMA IInvBlocks ==
  ASSUME IInv
  PROVE  BlocksExact
<1> DEFINE u == bits \ going
<1>1. Exact(AddrMap, u) /\ \A f \in Files : AddrMap[f] = Addrs(f)
  BY DEF IInv, AddrMap
<1>2. ASSUME NEW f \in Files, NEW g \in Files, f # g
      PROVE  Held(f) \cap Held(g) = {}
  BY <1>1, <1>2, HeldAddrs DEF Exact
<1>3. u \subseteq UNION {Held(f) : f \in Files}
  <2> SUFFICES ASSUME NEW b \in u PROVE \E f \in Files : b \in Held(f)
    OBVIOUS
  <2>1. b \in Blocks /\ b # 0
    BY DataAssumption DEF IInv, TypeOK
  <2> HIDE DEF u
  <2>2. PICK f \in Files, i \in Slots : Addrs(f)[i] = b
    BY <1>1, <2>1 DEF Exact
  <2> QED
    BY <2>1, <2>2, HeldAddrs
<1>4. ASSUME NEW f \in Files, NEW b \in Held(f)
      PROVE  b \in bits /\ b \notin going
  <2>1. PICK i \in Slots : b = Addrs(f)[i] /\ b # 0
    BY HeldAddrs
  <2>2. b \in Blocks
    BY <2>1, AddrsType DEF IInv, AddrsT, Addr
  <2>3. b \in u
    <3> HIDE DEF u
    <3> QED
      BY <1>1, <2>1, <2>2 DEF Exact
  <2> QED
    BY <2>3
<1>5. going \subseteq bits
  BY DEF IInv, TypeOK
<1> QED
  BY <1>2, <1>3, <1>4, <1>5 DEF BlocksExact

\* What file_read returned is right, and no ASSERT about an address has failed.
LEMMA IInvReads ==
  ASSUME IInv
  PROVE  ReadsBack /\ SectorsHold
BY DEF IInv, ProcOK, Got, ReadsBack, SectorsHold

----------------------------------------------------------------------------
(* What a step leaves alone.                                               *)

\* Files without data.
LEMMA InitInv ==
  ASSUME Init
  PROVE  IInv
<1> USE DataAssumption
<1>1. TypeOK
  <2>1. 0 \in Addr /\ NoAddr \in [Idx -> Addr] /\ Empty \in [Bytes -> Byte]
    BY DEF Addr, NoAddr, Empty, Byte
  <2>2. NoJob \in JobT /\ NoRead \in [start : Nat, got : Seq(Byte)]
    BY <2>1 DEF NoJob, NoRead, JobT
  <2>3. writer \in [Files -> Procs]
    BY DEF Init
  <2> QED
    BY <2>1, <2>2, <2>3 DEF Init, TypeOK, Addr
<1>2. table[0] = NoAddr
  BY DEF Init
<1>3. \A f \in Files : Phase(f) = "none"
  <2>1. \A f \in Files : writer[f] \in Procs
    BY <1>1 DEF TypeOK
  <2> QED
    BY <2>1 DEF Init, Phase, NoJob
<1>4. ASSUME NEW f \in Files, NEW i \in Slots
      PROVE  Addrs(f)[i] = 0
  <2>1. TableOf(f) = NoAddr
    BY <1>3 DEF TableOf, Allocates, Init
  <2>2. \A k \in 0..Direct : sect[f][k] = 0
    BY DEF Init
  <2>3. i = Total \/ i \in 0..Direct - 1 \/ i \in Direct..Total - 1
    BY AddrsAt
  <2>4. \A k \in 0..Direct - 1 : k \in 0..Direct
    OBVIOUS
  <2>5. Direct \in 0..Direct
    OBVIOUS
  <2> QED
    BY <2>1, <2>2, <2>3, <2>4, <2>5, AddrsAt DEF NoAddr
<1>5. Exact(AddrMap, bits \ going)
  <2>1. \A f \in Files : \A i \in Slots : AddrMap[f][i] = 0
    BY <1>4 DEF AddrMap
  <2>2. bits \ going = {}
    BY DEF Init
  <2> QED
    BY <2>1, <2>2 DEF Exact
<1>6. ASSUME NEW f \in Files
      PROVE  FileOK(f)
  <2>1. size[f] = 0 /\ Phase(f) = "none" /\ "none" \notin Writing
    BY <1>3 DEF Init, Writing, Allocates, Fills
  <2>2. \A i \in Slots : Addrs(f)[i] = 0
    BY <1>4
  <2>3. 0 \in Slots /\ Total \in Slots
    BY DEF Slots
  <2>4. Count(size[f], Addrs(f), Phase(f), job[writer[f]]) = 0
    BY <2>1, <2>2, <2>3 DEF Count
  <2>5. \A i \in Idx : i \in Slots /\ ~ (i < 0)
    BY DEF Idx, Slots
  <2>6. Needs(size[f], Addrs(f), Phase(f), job[writer[f]]) = 0 /\ ~ (0 > Direct)
    BY <2>1, <2>4 DEF Needs
  <2>7. 0 < BlockSize * Total
    OBVIOUS
  <2>8. Shape(size[f], Addrs(f), Phase(f), job[writer[f]])
    BY <2>1, <2>2, <2>3, <2>4, <2>5, <2>6, <2>7 DEF Shape
  <2>9. Stored(f, size[f], Addrs(f), Phase(f), job[writer[f]], disk)
    BY <2>1 DEF Stored, Filled
  <2> QED
    BY <2>1, <2>8, <2>9 DEF FileOK
<1>7. \A p \in Procs : ProcOK(p)
  BY DEF Init, ProcOK, NoJob, NoRead, InWrite, Writing, Allocates, Fills, Got
<1>8. panic # "sector"
  BY DEF Init
<1> QED
  BY <1>1, <1>2, <1>5, <1>6, <1>7, <1>8 DEF IInv

\* The bytes on the disk reach to the size of the file, or past it by at
\* most what the call has left to write.
LEMMA FilledBounds ==
  ASSUME NEW n \in Nat, NEW ph, NEW j, j.left \in Nat, ph = "size" => j.left > 0
  PROVE  /\ Filled(n, ph, j) \in Nat
         /\ n <= Filled(n, ph, j)
         /\ Filled(n, ph, j) <= n + j.left
<1> DEFINE l == j.left
<1>1. l \in Nat /\ (ph = "size" => l > 0)
  OBVIOUS
<1> HIDE DEF l
<1>2. ph = "size" => Chunk(n, l) \in Nat /\ Chunk(n, l) <= l
  BY <1>1, ChunkSize
<1> QED
  BY <1>1, <1>2 DEF Filled, l

\* The block of a byte of the file, or of one that was just written, has an
\* address.
LEMMA StoredPlace ==
  ASSUME IInv, panic = "none", NEW f \in Files,
         NEW x \in 0..Filled(size[f], Phase(f), job[writer[f]]) - 1
  PROVE  x \div BlockSize \in Idx /\ Addrs(f)[x \div BlockSize] # 0
<1> DEFINE n == size[f]  ph == Phase(f)  j == job[writer[f]]  a == Addrs(f)
<1>1. n \in Nat /\ j \in JobT /\ j.left \in Nat /\ j.will \in Nat /\ j.idx \in Nat
  BY DataAssumption DEF IInv, TypeOK, JobT
<1>2. Shape(n, a, ph, j) /\ (ph \in Writing => Call(n, a, ph, j, table[sect[f][Direct]]) /\ j.will <= Total)
  BY DEF IInv, FileOK
<1>3. Filled(n, ph, j) \in Nat /\ Filled(n, ph, j) <= n + j.left
  <2>1. ph = "size" => j.left > 0
    BY <1>2 DEF Call, Writing, Fills
  <2> HIDE DEF n, ph, j
  <2> QED
    BY <1>1, <2>1, FilledBounds
<1>4. x \in Nat
  BY <1>3
<1>5. CASE ph \notin Writing
  <2>1. x < n
    BY <1>1, <1>5, <1>3 DEF Filled, Writing, Fills
  <2>2. a[0] # 0
    BY <1>1, <1>2, <1>4, <2>1 DEF Shape
  <2>3. Count(n, a, ph, j) = n \div BlockSize + 1
    BY <1>5, <2>2 DEF Count
  <2>4. x \div BlockSize \in Nat /\ n \div BlockSize \in Nat /\ x \div BlockSize <= n \div BlockSize
    BY <1>1, <1>4, <2>1, Place, PlaceMonotone
  <2>5. n \div BlockSize < Total
    BY <1>1, <1>2, PlaceBelow, DataAssumption DEF Shape
  <2>6. x \div BlockSize \in Idx
    BY <2>4, <2>5, DataAssumption DEF Idx
  <2> QED
    BY <1>2, <2>3, <2>4, <2>6 DEF Shape
<1>6. CASE ph \in Writing
  <2>1. /\ j.left > 0 /\ j.will <= Total /\ j.will = (n + j.left) \div BlockSize + 1
        /\ ph = "alloc" => n \div BlockSize + 1 <= j.idx /\ j.idx < j.will
    BY <1>2, <1>6 DEF Call
  <2>2. /\ n \div BlockSize \in Nat /\ (n + j.left) \div BlockSize \in Nat
        /\ x \div BlockSize \in Nat
    BY <1>1, <1>4, Place
  <2>3. ph = "alloc" => x \div BlockSize < j.idx
    <3> SUFFICES ASSUME ph = "alloc" PROVE x \div BlockSize < j.idx
      OBVIOUS
    <3>1. x <= n
      BY <1>1, <1>3 DEF Filled
    <3>2. x \div BlockSize <= n \div BlockSize
      BY <1>1, <1>4, <3>1, PlaceMonotone
    <3> QED
      BY <1>1, <2>1, <2>2, <3>2
  <2>4. x \div BlockSize < j.will
    <3>2. x <= n + j.left
      BY <1>1, <1>3, <1>4
    <3>3. x \div BlockSize <= (n + j.left) \div BlockSize
      BY <1>1, <1>4, <3>2, PlaceMonotone
    <3> QED
      BY <1>1, <2>1, <2>2, <3>3
  <2>5. x \div BlockSize \in Idx
    BY <1>1, <2>1, <2>2, <2>4, DataAssumption DEF Idx
  <2>6. x \div BlockSize < Count(n, a, ph, j)
    BY <1>6, <2>3, <2>4 DEF Count
  <2> QED
    BY <1>2, <2>5, <2>6 DEF Shape
<1> QED
  BY <1>5, <1>6

\* A byte of the file is one of those.
LEMMA BytePlace ==
  ASSUME IInv, panic = "none", NEW f \in Files, NEW x \in 0..size[f] - 1
  PROVE  x \div BlockSize \in Idx /\ Addrs(f)[x \div BlockSize] # 0
<1> DEFINE j == job[writer[f]]
<1>1. size[f] \in Nat /\ j.left \in Nat
  BY DataAssumption DEF IInv, TypeOK, JobT
<1>2. Phase(f) = "size" => j.left > 0
  BY DEF IInv, FileOK, Call, Writing, Fills
<1>3. Filled(size[f], Phase(f), j) \in Nat /\ size[f] <= Filled(size[f], Phase(f), j)
  BY <1>1, <1>2, FilledBounds
<1>4. x \in 0..Filled(size[f], Phase(f), j) - 1
  BY <1>1, <1>3
<1> QED
  BY <1>4, StoredPlace

\* A step that changes neither the inode nor the table, on the disk or in the
\* hands of the writer, changes no address.
LEMMA SameAddrs ==
  ASSUME NEW f \in Files, sect'[f] = sect[f],
         Phase(f) \in Allocates <=> Phase(f)' \in Allocates,
         Phase(f) \in Allocates => job'[writer'[f]].all = job[writer[f]].all,
         table'[sect[f][Direct]] = table[sect[f][Direct]]
  PROVE  Addrs(f)' = Addrs(f)
<1>1. TableOf(f)' = TableOf(f)
  BY DEF TableOf
<1> QED
  BY <1>1 DEF Addrs

\* The same for all files.
LEMMA SameMap ==
  ASSUME \A f \in Files : Addrs(f)' = Addrs(f)
  PROVE  AddrMap' = AddrMap
BY DEF AddrMap

\* A file is as it was when its size, its addresses and the blocks they lead
\* to are, and its writer is where it was.
LEMMA FileKept ==
  ASSUME IInv, panic = "none", NEW f \in Files,
         size'[f] = size[f], Addrs(f)' = Addrs(f),
         \/ Phase(f)' = Phase(f) /\ job'[writer'[f]] = job[writer[f]]
         \/ Phase(f) \notin Writing /\ Phase(f)' \notin Writing,
         Phase(f) \in Writing => table'[sect'[f][Direct]] = table[sect[f][Direct]],
         \A i \in Idx : Addrs(f)[i] # 0 => disk'[Addrs(f)[i]] = disk[Addrs(f)[i]]
  PROVE  FileOK(f)'
<1> DEFINE n == size[f]  a == Addrs(f)  ph == Phase(f)  j == job[writer[f]]
           phn == Phase(f)'  jn == job'[writer'[f]]
<1>1. /\ Shape(n, a, ph, j)
      /\ ph \in Writing => Call(n, a, ph, j, table[sect[f][Direct]]) /\ j.will <= Total
      /\ Stored(f, n, a, ph, j, disk)
  BY DEF IInv, FileOK
<1>2. Count(n, a, phn, jn) = Count(n, a, ph, j) /\ Needs(n, a, phn, jn) = Needs(n, a, ph, j)
  BY DEF Count, Needs
<1>3. Shape(n, a, phn, jn)
  BY <1>1, <1>2 DEF Shape
<1>4. Filled(n, phn, jn) = Filled(n, ph, j)
  BY DEF Filled, Writing, Fills
<1>5. Stored(f, n, a, phn, jn, disk')
  <2> SUFFICES ASSUME NEW x \in 0..Filled(n, ph, j) - 1
               PROVE  disk'[a[x \div BlockSize]][x % BlockSize] = <<f, x>>
    BY <1>4 DEF Stored
  <2>1. x \div BlockSize \in Idx /\ a[x \div BlockSize] # 0
    BY StoredPlace
  <2>2. disk[a[x \div BlockSize]][x % BlockSize] = <<f, x>>
    BY <1>1 DEF Stored
  <2> QED
    BY <2>1, <2>2
<1>6. phn \in Writing => ph = phn /\ jn = j
  OBVIOUS
<1>7. phn \in Writing => Call(n, a, phn, jn, table'[sect'[f][Direct]]) /\ jn.will <= Total
  BY <1>1, <1>6
<1> QED
  BY <1>3, <1>5, <1>7 DEF FileOK

\* A process is where it was when its call is, and the file it has open has
\* lost nothing.
LEMMA ProcKept ==
  ASSUME IInv, panic = "none", NEW p \in Procs,
         of'[p] = of[p], pos'[p] = pos[p], job'[p] = job[p], last'[p] = last[p],
         of[p] # NULL =>
           /\ size'[of[p]] \in Nat /\ size[of[p]] <= size'[of[p]]
           /\ job[p].op \in InWrite => writer'[of[p]] = p
           /\ job[p].op = "first" => size'[of[p]] = size[of[p]]
           /\ \A i \in Idx : Addrs(of[p])[i] # 0 => Addrs(of[p])'[i] = Addrs(of[p])[i]
  PROVE  ProcOK(p)'
<1> DEFINE f == of[p]  j == job[p]
<1>1. ProcOK(p)
  BY DEF IInv
<1>2. pos[p] \in Nat /\ j.left \in Nat /\ (f # NULL => f \in Files /\ size[f] \in Nat)
  BY DEF IInv, TypeOK, JobT
<1>3. f # NULL => pos[p] <= size'[f] \/ pos[p] = Width - 1
  BY <1>1, <1>2 DEF ProcOK
<1>4. j.op = "read" => Reading(f, size'[f], Addrs(f)', pos[p], j)
  <2> SUFFICES ASSUME j.op = "read" PROVE Reading(f, size'[f], Addrs(f)', pos[p], j)
    OBVIOUS
  <2>1. f # NULL /\ Reading(f, size[f], Addrs(f), pos[p], j)
    BY <1>1 DEF ProcOK
  <2>2. pos[p] + j.left <= size'[f]
    BY <1>2, <2>1 DEF Reading
  <2>3. ASSUME NEW x \in pos[p]..pos[p] + j.left - 1
        PROVE  j.all[x \div BlockSize] = Addrs(f)'[x \div BlockSize]
    <3>1. x \in 0..size[f] - 1
      BY <1>2, <2>1 DEF Reading
    <3>2. x \div BlockSize \in Idx /\ Addrs(f)[x \div BlockSize] # 0
      BY <1>2, <2>1, <3>1, BytePlace
    <3> QED
      BY <2>1, <3>2 DEF Reading
  <2> QED
    BY <2>1, <2>2, <2>3 DEF Reading
<1>5. j.op \in InWrite => f # NULL /\ writer'[f] = p
  BY <1>1 DEF ProcOK, InWrite
<1>6. j.op = "first" => /\ size'[f] = 0 /\ Addrs(f)'[0] # 0
                        /\ j.left <= BlockSize * Total
  <2>1. 0 \in Idx
    BY DataAssumption DEF Idx
  <2> QED
    BY <1>1, <1>5, <2>1 DEF ProcOK, InWrite
<1> QED
  BY <1>1, <1>3, <1>4, <1>5, <1>6 DEF ProcOK

----------------------------------------------------------------------------
(* The steps that change no file.                                          *)

\* A step of a process that writes nothing, before and after it.
Local(p) ==
  /\ UNCHANGED <<size, sect, bits, disk, table, going, writer>>
  /\ \A q \in Procs \ {p} : of'[q] = of[q] /\ pos'[q] = pos[q]
                            /\ job'[q] = job[q] /\ last'[q] = last[q]
  /\ job[p].op \notin Writing /\ job'[p].op \notin Writing

\* Such a step changes no address and no writer's phase.
LEMMA LocalAddrs ==
  ASSUME IInv, NEW p \in Procs, Local(p), NEW f \in Files
  PROVE  /\ Addrs(f)' = Addrs(f)
         /\ \/ Phase(f)' = Phase(f) /\ job'[writer'[f]] = job[writer[f]]
            \/ Phase(f) \notin Writing /\ Phase(f)' \notin Writing
<1>1. writer[f] \in Procs
  BY DEF IInv, TypeOK
<1>2. \/ Phase(f)' = Phase(f) /\ job'[writer'[f]] = job[writer[f]]
      \/ Phase(f) \notin Writing /\ Phase(f)' \notin Writing
  <2>1. CASE writer[f] = p
    BY <2>1 DEF Local, Phase, Writing, Allocates, Fills
  <2>2. CASE writer[f] # p
    BY <1>1, <2>2 DEF Local, Phase
  <2> QED
    BY <2>1, <2>2
<1>3. Addrs(f)' = Addrs(f)
  BY <1>2, SameAddrs DEF Local, Writing
<1> QED
  BY <1>2, <1>3

\* It preserves the invariant when it does so for the process itself.
LEMMA LocalStep ==
  ASSUME IInv, panic = "none", NEW p \in Procs, Local(p),
         TypeOK', ProcOK(p)', panic' # "sector"
  PROVE  IInv'
<1>1. table'[0] = NoAddr
  BY DEF IInv, Local
<1>2. Exact(AddrMap, bits \ going)'
  <2>1. AddrMap' = AddrMap
    BY LocalAddrs, SameMap
  <2> QED
    BY <2>1 DEF IInv, Local, Exact
<1>3. ASSUME NEW f \in Files PROVE FileOK(f)'
  BY LocalAddrs, FileKept DEF Local
<1>4. ASSUME NEW q \in Procs, q # p PROVE ProcOK(q)'
  <2>1. of[q] # NULL => of[q] \in Files /\ size[of[q]] \in Nat
    BY DEF IInv, TypeOK
  <2>2. of'[q] = of[q] /\ pos'[q] = pos[q] /\ job'[q] = job[q] /\ last'[q] = last[q]
    BY <1>4 DEF Local
  <2>3. of[q] # NULL => Addrs(of[q])' = Addrs(of[q])
    <3>1. \A f \in Files : Addrs(f)' = Addrs(f)
      BY LocalAddrs
    <3> QED
      BY <2>1, <2>2, <3>1 DEF Addrs, TableOf, Phase
  <2>4. job[q].op \in InWrite => writer'[of[q]] = q
    BY DEF IInv, ProcOK, Local
  <2> QED
    BY <2>1, <2>2, <2>3, <2>4, ProcKept DEF Local
<1> QED
  BY <1>1, <1>2, <1>3, <1>4 DEF IInv

\* sys_open begins at position 0.
LEMMA OpenStep ==
  ASSUME IInv, panic = "none", NEW p \in Procs, NEW f \in Uses[p], sys_open(p, f)
  PROVE  IInv'
<1>1. f \in Files /\ f # NULL
  BY DataAssumption
<1>2. /\ of[p] = NULL /\ job[p].op = "none" /\ of' = [of EXCEPT ![p] = f]
      /\ pos' = [pos EXCEPT ![p] = 0]
      /\ UNCHANGED <<size, sect, bits, disk, table, job, last, going, writer, panic>>
  BY DEF sys_open, Free
<1>3. TypeOK'
  BY <1>1, <1>2 DEF IInv, TypeOK
<1>4. of'[p] = f /\ pos'[p] = 0
  BY <1>2 DEF IInv, TypeOK
<1>5. Local(p)
  BY <1>2 DEF Local, Writing, Allocates, Fills, IInv, TypeOK
<1>6. ProcOK(p)'
  <2>1. last[p] = NoRead /\ size[f] \in Nat
    BY <1>1, <1>2 DEF IInv, ProcOK, TypeOK
  <2> QED
    BY <1>1, <1>2, <1>4, <2>1 DEF ProcOK, InWrite, Writing, Allocates, Fills, Got, NoRead
<1> QED
  BY <1>2, <1>3, <1>5, <1>6, LocalStep DEF IInv

\* sys_close forgets what was read.
LEMMA CloseStep ==
  ASSUME IInv, panic = "none", NEW p \in Procs, sys_close(p)
  PROVE  IInv'
<1>1. /\ of[p] # NULL /\ job[p].op = "none" /\ of' = [of EXCEPT ![p] = NULL]
      /\ pos' = [pos EXCEPT ![p] = 0] /\ last' = [last EXCEPT ![p] = NoRead]
      /\ UNCHANGED <<size, sect, bits, disk, table, job, going, writer, panic>>
  BY DEF sys_close, Free
<1>2. TypeOK'
  BY <1>1 DEF IInv, TypeOK, NoRead
<1>3. of'[p] = NULL /\ last'[p] = NoRead
  BY <1>1 DEF IInv, TypeOK
<1>4. Local(p)
  BY <1>1 DEF Local, Writing, Allocates, Fills, IInv, TypeOK
<1>5. ProcOK(p)'
  BY <1>1, <1>3 DEF ProcOK, InWrite, Writing, Allocates, Fills, Got, NoRead
<1> QED
  BY <1>1, <1>2, <1>4, <1>5, LocalStep DEF IInv

\* sys_lseek stays inside the file.
LEMMA SeekStep ==
  ASSUME IInv, panic = "none", NEW p \in Procs, NEW new, sys_lseek(p, new)
  PROVE  IInv'
<1>1. /\ of[p] # NULL /\ job[p].op = "none" /\ new \in 0..size[of[p]] - 1
      /\ pos' = [pos EXCEPT ![p] = new] /\ last' = [last EXCEPT ![p] = NoRead]
      /\ UNCHANGED <<size, sect, bits, disk, table, of, job, going, writer, panic>>
  BY DEF sys_lseek, Free
<1>2. of[p] \in Files /\ size[of[p]] \in Nat
  BY <1>1 DEF IInv, TypeOK
<1>3. new \in Nat /\ new <= size[of[p]]
  BY <1>1, <1>2
<1>4. TypeOK'
  BY <1>1, <1>3 DEF IInv, TypeOK, NoRead
<1>5. pos'[p] = new /\ last'[p] = NoRead
  BY <1>1 DEF IInv, TypeOK
<1>6. Local(p)
  BY <1>1 DEF Local, Writing, Allocates, Fills, IInv, TypeOK
<1>7. ProcOK(p)'
  BY <1>1, <1>3, <1>5 DEF ProcOK, InWrite, Writing, Allocates, Fills, Got, NoRead
<1> QED
  BY <1>1, <1>4, <1>6, <1>7, LocalStep DEF IInv

\* The addresses of the bytes of a file are on the disk, also while more are
\* being allocated.
LEMMA TableSeen ==
  ASSUME IInv, NEW f \in Files, NEW i \in Idx, Direct <= i, i <= size[f] \div BlockSize
  PROVE  table[sect[f][Direct]][i] = Addrs(f)[i]
<1>1. i \in Direct..Total - 1
  BY DataAssumption DEF Idx
<1>2. Addrs(f)[i] = TableOf(f)[i]
  BY <1>1, AddrsAt
<1>3. Phase(f) \in Allocates =>
        table[sect[f][Direct]][i] = job[writer[f]].all[i]
  BY DEF IInv, FileOK, Call, Writing
<1> QED
  BY <1>2, <1>3 DEF TableOf

\* A file that needs a table has one.
LEMMA TableThere ==
  ASSUME IInv, NEW f \in Files, size[f] > 0, Direct <= size[f] \div BlockSize
  PROVE  sect[f][Direct] # 0
<1> DEFINE n == size[f]  a == Addrs(f)  ph == Phase(f)  j == job[writer[f]]
<1>1. n \in Nat /\ j \in JobT /\ j.left \in Nat /\ j.will \in Nat
  BY DataAssumption DEF IInv, TypeOK, JobT
<1>2. Shape(n, a, ph, j) /\ (ph \in Writing => Call(n, a, ph, j, table[sect[f][Direct]]))
  BY DEF IInv, FileOK
<1>3. a[0] # 0
  BY <1>1, <1>2 DEF Shape
<1>4. n \div BlockSize \in Nat
  BY <1>1, Place
<1>5. ph \in Writing => j.will >= n \div BlockSize + 1
  <2> SUFFICES ASSUME ph \in Writing PROVE j.will >= n \div BlockSize + 1
    OBVIOUS
  <2>1. j.will = (n + j.left) \div BlockSize + 1
    BY <1>2 DEF Call
  <2>2. n + j.left \in Nat /\ n <= n + j.left
    BY <1>1
  <2>3. n \div BlockSize <= (n + j.left) \div BlockSize /\ (n + j.left) \div BlockSize \in Nat
    BY <1>1, <2>2, Place, PlaceMonotone
  <2> QED
    BY <1>4, <2>1, <2>3
<1>6. ph \notin Writing => Needs(n, a, ph, j) = n \div BlockSize + 1
  BY <1>3 DEF Needs, Count
<1>7. ph \in Writing => Needs(n, a, ph, j) = j.will
  BY DEF Needs
<1>8. Needs(n, a, ph, j) > Direct
  <2>1. Direct \in Nat /\ Direct <= n \div BlockSize
    BY DataAssumption
  <2> HIDE DEF n, a, ph, j
  <2> QED
    BY <1>1, <1>4, <1>5, <1>6, <1>7, <2>1
<1>9. a[Total] # 0
  BY <1>2, <1>8 DEF Shape
<1> QED
  BY <1>9, AddrsAt

\* The record of no call is typed as the others.
LEMMA NoJobType ==
  NoJob \in JobT /\ NoJob.op = "none"
<1>1. NoAddr \in [Idx -> Addr]
  BY DEF NoAddr, Addr
<1> QED
  BY <1>1 DEF NoJob, JobT

\* file_read collects the addresses of the bytes that it will read: the ones
\* in the inode between its first and its last block, and the table.
LEMMA ReadStep ==
  ASSUME IInv, panic = "none", NEW p \in Procs, NEW c \in Reads, file_read(p, c)
  PROVE  IInv'
<1> DEFINE f == of[p]
           q == pos[p]
           n == size[f]
           m == IF (q + c) % Width > n THEN (n - q) % Width ELSE c
           start == q \div BlockSize
           end   == ((q + m) % Width) \div BlockSize
           all   == [i \in Idx |-> CASE i < Direct /\ i \in start..end -> sect[f][i]
                                     [] i >= Direct /\ end >= Direct -> table[sect[f][Direct]][i]
                                     [] OTHER -> 0]
           fails == ~(start < Total - 1 /\ end < Total - 1)
           call == [NoJob EXCEPT !.op = "read", !.left = m, !.all = all, !.start = q]
<1>1. /\ job[p].op = "none" /\ f # NULL /\ m > 0
      /\ panic' = CASE fails -> "read"
                    [] ~fails /\ start # end /\ end >= Direct /\ sect[f][Direct] = 0 -> "sector"
                    [] OTHER -> panic
      /\ job' = [job EXCEPT ![p] = IF fails THEN NoJob ELSE call]
      /\ last' = [last EXCEPT ![p] = NoRead]
      /\ UNCHANGED <<size, sect, bits, disk, table, of, pos, going, writer>>
  BY DEF file_read, Free
<1>2. f \in Files /\ n \in Nat /\ q \in Nat /\ c \in Nat
  BY <1>1, DataAssumption DEF IInv, TypeOK
<1>3. n < BlockSize * Total /\ (q <= n \/ q = Width - 1)
  BY <1>1, <1>2 DEF IInv, FileOK, Shape, ProcOK
<1>4. ~fails => q <= n
  <2>1. Width - 1 \in Nat /\ ~ (Width - 1 < BlockSize * Total)
    <3>1. BlockSize * Total \in Nat /\ 2 * BlockSize * Total = 2 * (BlockSize * Total)
      BY DataAssumption
    <3> DEFINE z == BlockSize * Total
    <3>2. z \in Nat /\ Width \in Nat /\ Width > 2 * z
      BY <3>1, DataAssumption
    <3> HIDE DEF z
    <3>3. Width - 1 \in Nat /\ ~ (Width - 1 < z)
      BY <3>2
    <3> QED
      BY <3>3 DEF z
  <2>2. ~ ((Width - 1) \div BlockSize < Total)
    BY <2>1, PlaceBelow, DataAssumption
  <2>3. (Width - 1) \div BlockSize \in Nat
    BY <2>1, Place
  <2>4. q = Width - 1 => fails
    BY <2>2, <2>3, DataAssumption
  <2> QED
    BY <1>3, <2>4
<1>5. q <= n => m \in Nat /\ q + m <= n /\ (q + m) % Width = q + m
  <2> DEFINE z == BlockSize * Total
  <2>1. c + z < Width /\ z \in Nat /\ n < z
    BY <1>3, DataAssumption
  <2>2. Width \in Nat
    BY DataAssumption
  <2> HIDE DEF z
  <2> SUFFICES ASSUME q <= n PROVE m \in Nat /\ q + m <= n /\ (q + m) % Width = q + m
    OBVIOUS
  <2>3. q + c \in Nat /\ q + c < Width /\ n - q \in Nat /\ n - q < Width /\ n < Width
    BY <1>2, <2>1, <2>2
  <2>4. (q + c) % Width = q + c /\ (n - q) % Width = n - q
    BY <2>2, <2>3
  <2>5. m \in Nat /\ q + m <= n
    BY <1>2, <2>3, <2>4
  <2>6. q + m \in Nat /\ q + m < Width
    BY <1>2, <2>2, <2>3, <2>5
  <2> HIDE DEF m
  <2> QED
    BY <2>2, <2>5, <2>6
<1>6. all \in [Idx -> Addr]
  <2>1. sect[f] \in [0..Direct -> Addr] /\ sect[f][Direct] \in Addr
    BY <1>2, DataAssumption DEF IInv, TypeOK
  <2>2. table[sect[f][Direct]] \in [Idx -> Addr]
    BY <2>1 DEF IInv, TypeOK
  <2>3. ASSUME NEW i \in Idx PROVE all[i] \in Addr
    <3>1. i < Direct => i \in 0..Direct
      BY DataAssumption DEF Idx
    <3>2. 0 \in Addr
      BY DEF Addr
    <3> HIDE DEF start, end
    <3> QED
      BY <2>1, <2>2, <3>1, <3>2
  <2> QED
    BY <2>3
<1>7. ~fails => call \in JobT /\ call.op = "read" /\ call.left = m /\ call.all = all
                /\ call.start = q /\ call.got = <<>>
  <2>1. ~fails => m \in Nat
    BY <1>4, <1>5
  <2>2. all \in [Idx -> Addr]
    BY <1>6
  <2> HIDE DEF all, m, fails, q
  <2>3. /\ call.op = "read" /\ call.left = m /\ call.all = all
        /\ call.start = q /\ call.got = <<>>
    BY DEF NoJob
  <2>4. q \in Nat
    BY <1>2 DEF q
  <2>5. ~fails => call \in JobT
    BY <2>1, <2>2, <2>4, NoJobType DEF JobT
  <2> QED
    BY <2>3, <2>5
<1>8. NoJob \in JobT /\ NoJob.op = "none"
  BY NoJobType
<1> HIDE DEF call
<1>9. /\ job'[p] = (IF fails THEN NoJob ELSE call) /\ last'[p] = NoRead
      /\ \A r \in Procs \ {p} : job'[r] = job[r] /\ last'[r] = last[r]
  <2> HIDE DEF fails
  <2> QED
    BY <1>1 DEF IInv, TypeOK
<1>10. TypeOK'
  <2>1. job' \in [Procs -> JobT]
    <3> HIDE DEF fails
    <3> QED
      BY <1>1, <1>7, <1>8 DEF IInv, TypeOK
  <2>2. last' \in [Procs -> [start : Nat, got : Seq(Byte)]]
    BY <1>1 DEF IInv, TypeOK, NoRead
  <2> QED
    BY <1>1, <2>1, <2>2 DEF IInv, TypeOK
<1>11. Local(p)
  <2>1. job'[p].op \notin Writing
    <3> HIDE DEF fails
    <3> QED
      BY <1>7, <1>8, <1>9 DEF Writing, Allocates, Fills
  <2> QED
    BY <1>1, <1>9, <2>1 DEF Local, Writing, Allocates, Fills
<1>12. ~fails => \A x \in q..q + m - 1 : all[x \div BlockSize] = Addrs(f)[x \div BlockSize]
  <2> SUFFICES ASSUME ~fails, NEW x \in q..q + m - 1
               PROVE  all[x \div BlockSize] = Addrs(f)[x \div BlockSize]
    OBVIOUS
  <2> DEFINE i == x \div BlockSize
  <2>1. q <= n /\ m \in Nat /\ q + m <= n /\ end = (q + m) \div BlockSize
    BY <1>4, <1>5
  <2>2. x \in Nat /\ x <= q + m /\ q <= x /\ q + m \in Nat /\ x \in 0..n - 1
    <3> HIDE DEF m, n, q
    <3> QED
      BY <1>2, <2>1
  <2>3. i \in Nat /\ start \in Nat /\ start <= i /\ end \in Nat /\ i <= end
    BY <1>2, <2>1, <2>2, Place, PlaceMonotone
  <2>4. i \in Idx
    BY <1>2, <2>2, BytePlace
  <2>5. n \div BlockSize \in Nat /\ end <= n \div BlockSize
    BY <1>2, <2>1, <2>2, Place, PlaceMonotone
  <2>6. i \in start..end
    BY <2>3
  <2> HIDE DEF start, end, i
  <2>7. CASE i < Direct
    <3>1. all[i] = sect[f][i]
      BY <2>3, <2>4, <2>6, <2>7, DataAssumption
    <3>2. i \in 0..Direct - 1
      BY <2>3, <2>7, DataAssumption
    <3>3. Addrs(f)[i] = sect[f][i]
      BY <1>2, <3>2, AddrsAt
    <3> QED
      BY <3>1, <3>3 DEF i
  <2>8. CASE ~ (i < Direct)
    <3>1. i >= Direct /\ end >= Direct /\ i <= n \div BlockSize
      BY <2>3, <2>5, <2>8, DataAssumption
    <3>2. all[i] = table[sect[f][Direct]][i]
      BY <2>4, <2>8, <3>1
    <3>3. table[sect[f][Direct]][i] = Addrs(f)[i]
      BY <1>2, <2>4, <3>1, TableSeen
    <3> QED
      BY <3>2, <3>3 DEF i
  <2> QED
    BY <2>7, <2>8
<1>13. ProcOK(p)'
  <2>1. CASE fails
    <3>1. job'[p].op = "none"
      BY <1>8, <1>9, <2>1
    <3> QED
      BY <1>1, <1>2, <1>3, <1>9, <3>1 DEF ProcOK, InWrite, Writing, Allocates, Fills, Got, NoRead
  <2>2. CASE ~fails
    <3>1. job'[p] = call /\ call.op = "read" /\ call.left = m /\ call.all = all
          /\ call.start = q /\ call.got = <<>>
      BY <1>7, <1>9, <2>2
    <3>2. m > 0 /\ q + m <= n
      BY <1>1, <1>4, <1>5, <2>2
    <3>3. \A x \in q..q + m - 1 : all[x \div BlockSize] = Addrs(f)[x \div BlockSize]
      BY <1>12, <2>2
    <3> HIDE DEF m, all, fails
    <3>4. Reading(f, n, Addrs(f), q, call)
      BY <1>2, <3>1, <3>2, <3>3 DEF Reading, Got
    <3>5. Addrs(f)' = Addrs(f)
      <4>1. \A g \in Files : Addrs(g)' = Addrs(g)
        BY <1>11, LocalAddrs
      <4> QED
        BY <1>1, <1>2, <4>1 DEF Addrs, TableOf, Phase
    <3> QED
      BY <1>1, <1>2, <1>3, <1>9, <3>1, <3>4, <3>5
         DEF ProcOK, InWrite, Writing, Allocates, Fills, Got, NoRead
  <2> QED
    BY <2>1, <2>2
<1>14. panic' # "sector"
  <2>1. ~fails /\ end >= Direct => sect[f][Direct] # 0
    <3> SUFFICES ASSUME ~fails, end >= Direct PROVE sect[f][Direct] # 0
      OBVIOUS
    <3>1. q <= n /\ m \in Nat /\ q + m <= n /\ end = (q + m) \div BlockSize
      BY <1>4, <1>5
    <3>2. n > 0 /\ q + m \in Nat
      <4> HIDE DEF m, n, q
      <4> QED
        BY <1>1, <1>2, <3>1
    <3>3. end \in Nat /\ n \div BlockSize \in Nat /\ end <= n \div BlockSize
      BY <1>2, <3>1, <3>2, Place, PlaceMonotone
    <3>4. Direct <= n \div BlockSize
      BY <3>3, DataAssumption
    <3> QED
      BY <1>2, <3>2, <3>4, TableThere
  <2> HIDE DEF fails, end, start
  <2> QED
    BY <1>1, <2>1
<1> QED
  BY <1>10, <1>11, <1>13, <1>14, LocalStep

\* Sequences of bytes.
LEMMA ByteSeq ==
  ASSUME NEW c \in Nat, NEW s \in [1..c -> Byte]
  PROVE  s \in Seq(Byte) /\ Len(s) = c
OBVIOUS

\* Bytes that are read are put behind those read before.
LEMMA ByteConcat ==
  ASSUME NEW s \in Seq(Byte), NEW t \in Seq(Byte)
  PROVE  /\ s \o t \in Seq(Byte)
         /\ Len(s \o t) = Len(s) + Len(t)
         /\ \A k \in 1..Len(s) : (s \o t)[k] = s[k]
         /\ \A k \in 1..Len(t) : (s \o t)[Len(s) + k] = t[k]
OBVIOUS

\* A round of file_read's loop takes the right bytes from the right block.
LEMMA ReadChunkStep ==
  ASSUME IInv, panic = "none", NEW p \in Procs, read_chunk(p)
  PROVE  IInv'
<1> DEFINE f == of[p]
           q == pos[p]
           n == size[f]
           j == job[p]
           c == Chunk(q, j.left)
           off == q % BlockSize
           lba == j.all[q \div BlockSize]
           piece == [k \in 1..c |-> disk[lba][off + k - 1]]
           got == j.got \o piece
           ret == [start |-> j.start, got |-> got]
           rest == [j EXCEPT !.left = @ - c, !.got = got]
<1>1. /\ j.op = "read"
      /\ pos' = [pos EXCEPT ![p] = q + c]
      /\ j.left = c => last' = [last EXCEPT ![p] = ret] /\ job' = [job EXCEPT ![p] = NoJob]
      /\ j.left # c => job' = [job EXCEPT ![p] = rest] /\ last' = last
      /\ UNCHANGED <<size, sect, bits, disk, table, of, going, writer, panic>>
  BY DEF read_chunk
<1>2. f # NULL /\ Reading(f, n, Addrs(f), q, j)
  BY <1>1 DEF IInv, ProcOK
<1>3. /\ f \in Files /\ n \in Nat /\ q \in Nat /\ j \in JobT
      /\ j.left \in Nat /\ j.start \in Nat /\ j.got \in Seq(Byte) /\ j.all \in [Idx -> Addr]
  BY <1>2 DEF IInv, TypeOK, JobT
<1>4. j.left > 0 /\ q + j.left <= n /\ j.start + Len(j.got) = q /\ Len(j.got) \in Nat
  BY <1>2, <1>3 DEF Reading
<1>5. c \in Nat /\ c > 0 /\ c <= j.left
  <2> HIDE DEF q, j
  <2> QED
    BY <1>3, <1>4, ChunkSize
<1>6. ASSUME NEW k \in 1..c
      PROVE  disk[lba][off + k - 1] = <<f, q + k - 1>>
  <2> DEFINE x == q + (k - 1)
  <2>1. x \in Nat /\ q <= x /\ x < q + c /\ x \in 0..n - 1 /\ x - q = k - 1
        /\ x \in q..q + j.left - 1
    <3> HIDE DEF c, n, j, q
    <3> QED
      BY <1>3, <1>4, <1>5
  <2>2. x \div BlockSize = q \div BlockSize /\ x % BlockSize = off + (x - q)
    <3> HIDE DEF x, j, q
    <3> QED
      BY <1>3, <1>4, <2>1, ChunkPlace DEF c
  <2>3. lba = Addrs(f)[x \div BlockSize]
    <3> HIDE DEF x
    <3> QED
      BY <1>2, <2>1, <2>2 DEF Reading
  <2>4. disk[Addrs(f)[x \div BlockSize]][x % BlockSize] = <<f, x>>
    <3> DEFINE h == job[writer[f]]
    <3>1. h.left \in Nat
      BY <1>3, DataAssumption DEF IInv, TypeOK, JobT
    <3>2. Phase(f) = "size" => h.left > 0
      BY <1>3 DEF IInv, FileOK, Call, Writing, Fills
    <3>3. Filled(n, Phase(f), h) \in Nat /\ n <= Filled(n, Phase(f), h)
      <4> HIDE DEF h, n
      <4> QED
        BY <1>3, <3>1, <3>2, FilledBounds
    <3>4. x \in 0..Filled(n, Phase(f), h) - 1
      <4> HIDE DEF x
      <4> QED
        BY <1>3, <2>1, <3>3
    <3>5. Stored(f, n, Addrs(f), Phase(f), h, disk)
      BY <1>3 DEF IInv, FileOK
    <3> HIDE DEF x
    <3> QED
      BY <3>4, <3>5 DEF Stored
  <2>5. off + k - 1 = off + (x - q) /\ q + k - 1 = x
    <3>1. off \in Nat
      BY <1>3, DataAssumption
    <3> HIDE DEF off, q
    <3> QED
      BY <1>3, <3>1
  <2> HIDE DEF x, lba, off
  <2> QED
    BY <2>2, <2>3, <2>4, <2>5
<1>7. piece \in Seq(Byte) /\ Len(piece) = c /\ \A k \in 1..c : piece[k] = <<f, q + k - 1>>
  <2>1. \A k \in 1..c : <<f, q + k - 1>> \in Byte
    <3> HIDE DEF q, f
    <3> QED
      BY <1>3, <1>5 DEF Byte
  <2>2. \A k \in 1..c : disk[lba][off + k - 1] = <<f, q + k - 1>>
    BY <1>6
  <2> HIDE DEF q, f, c, lba, off
  <2>3. piece \in [1..c -> Byte] /\ \A k \in 1..c : piece[k] = <<f, q + k - 1>>
    BY <2>1, <2>2
  <2> HIDE DEF piece
  <2> QED
    BY <1>5, <2>3, ByteSeq
<1>8. /\ got \in Seq(Byte) /\ Len(got) = Len(j.got) + c
      /\ \A k \in 1..Len(j.got) : got[k] = j.got[k]
      /\ \A k \in 1..c : got[Len(j.got) + k] = piece[k]
  <2> DEFINE s == j.got
  <2>1. s \in Seq(Byte) /\ piece \in Seq(Byte) /\ Len(piece) = c
    BY <1>3, <1>7
  <2> HIDE DEF piece, s, c
  <2>2. /\ s \o piece \in Seq(Byte) /\ Len(s \o piece) = Len(s) + c
        /\ \A k \in 1..Len(s) : (s \o piece)[k] = s[k]
        /\ \A k \in 1..c : (s \o piece)[Len(s) + k] = piece[k]
    BY <2>1, ByteConcat
  <2> QED
    BY <2>2 DEF s
<1> HIDE DEF got, piece
<1>9. \A k \in 1..Len(got) : got[k] = <<f, j.start + k - 1>>
  <2> SUFFICES ASSUME NEW k \in 1..Len(got) PROVE got[k] = <<f, j.start + k - 1>>
    OBVIOUS
  <2>1. CASE k <= Len(j.got)
    <3>1. k \in 1..Len(j.got)
      BY <1>4, <1>5, <1>8, <2>1
    <3> QED
      BY <1>2, <1>8, <3>1 DEF Reading, Got
  <2>2. CASE ~ (k <= Len(j.got))
    <3> DEFINE len == Len(j.got)
               i == k - len
               b == j.start
    <3>1. len \in Nat /\ b \in Nat /\ b + len = q /\ k \in 1..len + c /\ ~ (k <= len)
      BY <1>3, <1>4, <1>8, <2>2
    <3> HIDE DEF len, b, c, q, f
    <3>2. i \in 1..c /\ q + i - 1 = b + k - 1 /\ len + i = k
      BY <1>5, <3>1
    <3>3. got[k] = piece[i]
      <4>1. \A h \in 1..c : got[len + h] = piece[h]
        BY <1>8 DEF len
      <4> HIDE DEF i
      <4> QED
        BY <3>2, <4>1
    <3>4. piece[i] = <<f, q + i - 1>>
      <4> HIDE DEF i
      <4> QED
        BY <1>7, <3>2
    <3> QED
      BY <3>2, <3>3, <3>4 DEF b
  <2> QED
    BY <2>1, <2>2
<1>10. /\ rest \in JobT /\ rest.op = "read" /\ rest.left = j.left - c /\ rest.got = got
       /\ rest.start = j.start /\ rest.all = j.all
  <2>1. j.left - c \in Nat
    <3> HIDE DEF j, c
    <3> QED
      BY <1>3, <1>5
  <2> HIDE DEF j, c
  <2> QED
    BY <1>1, <1>3, <1>8, <2>1 DEF JobT
<1>11. /\ pos'[p] = q + c
       /\ j.left = c => last'[p] = ret /\ job'[p] = NoJob
       /\ j.left # c => last'[p] = last[p] /\ job'[p] = rest
       /\ \A r \in Procs \ {p} : job'[r] = job[r] /\ last'[r] = last[r] /\ pos'[r] = pos[r]
  <2> HIDE DEF rest, ret, c
  <2> QED
    BY <1>1 DEF IInv, TypeOK
<1>12. TypeOK'
  <2>1. ret \in [start : Nat, got : Seq(Byte)]
    BY <1>3, <1>8
  <2>2. q + c \in Nat
    BY <1>3, <1>5
  <2>3. pos' \in [Procs -> Nat]
    <3> HIDE DEF c, q
    <3> QED
      BY <1>1, <2>2 DEF IInv, TypeOK
  <2>4. job' \in [Procs -> JobT] /\ last' \in [Procs -> [start : Nat, got : Seq(Byte)]]
    <3> DEFINE L == [start : Nat, got : Seq(Byte)]
    <3>1. /\ job \in [Procs -> JobT] /\ last \in [Procs -> L] /\ ret \in L /\ rest \in JobT
          /\ NoJob \in JobT
      BY <1>10, <2>1, NoJobType DEF IInv, TypeOK
    <3>2. /\ j.left = c => last' = [last EXCEPT ![p] = ret] /\ job' = [job EXCEPT ![p] = NoJob]
          /\ j.left # c => job' = [job EXCEPT ![p] = rest] /\ last' = last
      BY <1>1
    <3> HIDE DEF rest, ret, c, q, j, L
    <3>3. job' \in [Procs -> JobT] /\ last' \in [Procs -> L]
      BY <3>1, <3>2
    <3> QED
      BY <3>3 DEF L
  <2> QED
    BY <1>1, <2>3, <2>4 DEF IInv, TypeOK
<1>13. Local(p)
  <2>1. job'[p].op \notin Writing /\ j.op \notin Writing
    BY <1>1, <1>10, <1>11, NoJobType DEF Writing, Allocates, Fills
  <2> QED
    BY <1>1, <1>11, <2>1 DEF Local
<1>14. ProcOK(p)'
  <2>1. Addrs(f)' = Addrs(f)
    <3>1. \A g \in Files : Addrs(g)' = Addrs(g)
      BY <1>13, LocalAddrs
    <3> QED
      BY <1>1, <1>3, <3>1 DEF Addrs, TableOf, Phase
  <2>2. q + c <= n
    <3> HIDE DEF q, c, n, j
    <3> QED
      BY <1>3, <1>4, <1>5
  <2>3. CASE j.left = c
    <3>1. job'[p].op = "none" /\ last'[p] = ret /\ pos'[p] = q + c
      BY <1>11, <2>3, NoJobType
    <3>2. Got(f, ret)
      BY <1>9 DEF Got
    <3> HIDE DEF ret, c
    <3> QED
      BY <1>1, <1>2, <2>2, <3>1, <3>2 DEF ProcOK, InWrite, Writing, Allocates, Fills
  <2>4. CASE j.left # c
    <3>1. job'[p] = rest /\ last'[p] = last[p] /\ pos'[p] = q + c
      BY <1>11, <2>4
    <3>2. Got(f, last[p])
      BY DEF IInv, ProcOK
    <3>3. Got(f, rest)
      BY <1>9, <1>10 DEF Got
    <3>4. rest.left > 0 /\ q + c + rest.left <= n /\ rest.start + Len(rest.got) = q + c
          /\ \A x \in q + c..q + c + rest.left - 1 : x \in q..q + j.left - 1
      <4>1. rest.left = j.left - c /\ rest.start = j.start /\ Len(rest.got) = Len(j.got) + c
        BY <1>8, <1>10
      <4> DEFINE len == Len(j.got)
                 b == j.start
                 l == j.left
      <4>2. /\ len \in Nat /\ b \in Nat /\ b + len = q /\ l \in Nat /\ l > 0 /\ q + l <= n
            /\ c \in Nat /\ c <= l /\ c # l /\ q \in Nat /\ n \in Nat
        BY <1>3, <1>4, <1>5, <2>4
      <4> HIDE DEF q, c, n, l, b, len
      <4>3. l - c > 0 /\ q + c + (l - c) <= n /\ b + (len + c) = q + c
            /\ \A x \in q + c..q + c + (l - c) - 1 : x \in q..q + l - 1
        BY <4>2
      <4>4. rest.left = l - c /\ rest.start = b /\ Len(rest.got) = len + c
        BY <4>1 DEF l, b, len
      <4> HIDE DEF rest
      <4> QED
        BY <4>3, <4>4 DEF l
    <3>5. \A x \in q + c..q + c + rest.left - 1 :
            rest.all[x \div BlockSize] = Addrs(f)[x \div BlockSize]
      <4>1. \A x \in q..q + j.left - 1 : rest.all[x \div BlockSize] = Addrs(f)[x \div BlockSize]
        BY <1>2, <1>10 DEF Reading
      <4> HIDE DEF rest, q, c, n, j
      <4> QED
        BY <3>4, <4>1
    <3>6. Reading(f, n, Addrs(f), q + c, rest)
      <4> HIDE DEF rest, q, c, n, j
      <4> QED
        BY <3>3, <3>4, <3>5 DEF Reading
    <3>7. rest.op = "read"
      BY <1>10
    <3> HIDE DEF rest, c
    <3> QED
      BY <1>1, <1>2, <2>1, <2>2, <3>1, <3>2, <3>6, <3>7 DEF ProcOK, InWrite, Writing, Allocates, Fills
  <2> QED
    BY <2>3, <2>4
<1> QED
  BY <1>1, <1>12, <1>13, <1>14, LocalStep DEF IInv

----------------------------------------------------------------------------
(* The steps of a writer.                                                  *)

\* A step of process p on the file f that it writes: other processes and
\* files are left alone.
WriterAt(p, f) ==
  /\ f \in Files /\ of[p] = f /\ of' = of
  /\ writer'[f] = p /\ \A g \in Files \ {f} : writer'[g] = writer[g]
  /\ \A q \in Procs \ {p} : of[q] = f => job[q].op \notin InWrite
  /\ \A q \in Procs \ {p} : pos'[q] = pos[q] /\ job'[q] = job[q] /\ last'[q] = last[q]
  /\ \A g \in Files \ {f} :
       /\ size'[g] = size[g] /\ sect'[g] = sect[g]
       /\ table'[sect[g][Direct]] = table[sect[g][Direct]]
       /\ \A i \in Idx : Addrs(g)[i] # 0 => disk'[Addrs(g)[i]] = disk[Addrs(g)[i]]

\* The writer of a file is in the phase of its call.
LEMMA WriterPhase ==
  ASSUME NEW p \in Procs, NEW f, WriterAt(p, f)
  PROVE  Phase(f)' = job'[p].op
BY DEF WriterAt, Phase

\* A step of a writer leaves the other files alone.
LEMMA WriterOthers ==
  ASSUME TypeOK, NEW p \in Procs, NEW f, WriterAt(p, f), NEW g \in Files, g # f
  PROVE  /\ Addrs(g)' = Addrs(g)
         /\ Phase(g)' = Phase(g)
         /\ Phase(g) \in Writing => job'[writer'[g]] = job[writer[g]]
<1>1. writer[g] \in Procs /\ writer'[g] = writer[g]
  BY DEF TypeOK, WriterAt
<1>2. CASE writer[g] = p
  <2>1. Phase(g) = "none" /\ Phase(g)' = "none"
    BY <1>1, <1>2 DEF WriterAt, Phase
  <2> QED
    BY <2>1, SameAddrs DEF WriterAt, Writing, Allocates, Fills
<1>3. CASE writer[g] # p
  <2>1. Phase(g)' = Phase(g) /\ job'[writer'[g]] = job[writer[g]]
    BY <1>1, <1>3 DEF WriterAt, Phase
  <2> QED
    BY <2>1, SameAddrs DEF WriterAt
<1> QED
  BY <1>2, <1>3

\* A step of a writer preserves the invariant when it does so for its file and
\* for the writer itself.
LEMMA WriterStep ==
  ASSUME IInv, panic = "none", NEW p \in Procs, NEW f, WriterAt(p, f),
         TypeOK', table'[0] = NoAddr, Exact(AddrMap, bits \ going)',
         size[f] <= size'[f],
         \A i \in Idx : Addrs(f)[i] # 0 => Addrs(f)'[i] = Addrs(f)[i],
         FileOK(f)', ProcOK(p)', panic' # "sector"
  PROVE  IInv'
<1>1. ASSUME NEW g \in Files, g # f PROVE FileOK(g)'
  <2>1. /\ Addrs(g)' = Addrs(g) /\ Phase(g)' = Phase(g)
        /\ Phase(g) \in Writing => job'[writer'[g]] = job[writer[g]]
    BY <1>1, WriterOthers DEF IInv
  <2>2. /\ size'[g] = size[g] /\ sect'[g] = sect[g]
        /\ table'[sect[g][Direct]] = table[sect[g][Direct]]
        /\ \A i \in Idx : Addrs(g)[i] # 0 => disk'[Addrs(g)[i]] = disk[Addrs(g)[i]]
    BY <1>1 DEF WriterAt
  <2> QED
    BY <2>1, <2>2, FileKept
<1>2. ASSUME NEW q \in Procs, q # p PROVE ProcOK(q)'
  <2> DEFINE g == of[q]
  <2>1. of'[q] = g /\ pos'[q] = pos[q] /\ job'[q] = job[q] /\ last'[q] = last[q]
    BY <1>2 DEF WriterAt
  <2>2. g # NULL => g \in Files /\ size[g] \in Nat /\ size'[g] \in Nat
    BY DEF IInv, TypeOK
  <2>3. \A h \in Files : /\ size[h] <= size'[h]
                         /\ \A i \in Idx : Addrs(h)[i] # 0 => Addrs(h)'[i] = Addrs(h)[i]
    <3>1. \A h \in Files : size[h] \in Nat
      BY DEF IInv, TypeOK
    <3> QED
      BY <3>1, WriterOthers DEF WriterAt, IInv
  <2>4. g # NULL => \A i \in Idx : Addrs(g)[i] # 0 => Addrs(g)'[i] = Addrs(g)[i]
    <3> SUFFICES ASSUME g # NULL
                 PROVE  \A i \in Idx : Addrs(g)[i] # 0 => Addrs(g)'[i] = Addrs(g)[i]
      OBVIOUS
    <3>1. PICK h \in Files : h = of[q]
      BY <2>2
    <3>2. Addrs(of[q])' = Addrs(h)'
      BY <2>1, <3>1 DEF Addrs, TableOf, Phase
    <3>3. Addrs(of[q]) = Addrs(h)
      BY <3>1
    <3>4. \A i \in Idx : Addrs(h)[i] # 0 => Addrs(h)'[i] = Addrs(h)[i]
      BY <2>3
    <3> QED
      BY <3>2, <3>3, <3>4
  <2>5. g # NULL => size[g] <= size'[g]
    BY <2>2, <2>3
  <2>6. job[q].op \in InWrite => g \in Files \ {f} /\ writer'[g] = q /\ size'[g] = size[g]
    <3> SUFFICES ASSUME job[q].op \in InWrite
                 PROVE  g \in Files \ {f} /\ writer'[g] = q /\ size'[g] = size[g]
      OBVIOUS
    <3>1. g # NULL /\ writer[g] = q
      BY DEF IInv, ProcOK, InWrite
    <3>2. g \in Files \ {f}
      BY <1>2, <2>2, <3>1 DEF WriterAt
    <3> HIDE DEF g
    <3> QED
      BY <3>1, <3>2 DEF WriterAt
  <2>7. job[q].op = "first" => job[q].op \in InWrite
    BY DEF InWrite
  <2> QED
    BY <2>1, <2>2, <2>4, <2>5, <2>6, <2>7, ProcKept
<1> QED
  BY <1>1, <1>2 DEF IInv, WriterAt

\* What is known of the writer's file in the middle of a call.
LEMMA InCall ==
  ASSUME IInv, panic = "none", NEW p \in Procs, job[p].op \in Writing
  PROVE  /\ of[p] \in Files /\ writer[of[p]] = p /\ Phase(of[p]) = job[p].op
         /\ size[of[p]] \in Nat /\ size[of[p]] < BlockSize * Total
         /\ job[p] \in JobT /\ job[p].will <= Total
         /\ Shape(size[of[p]], Addrs(of[p]), job[p].op, job[p])
         /\ Call(size[of[p]], Addrs(of[p]), job[p].op, job[p], table[sect[of[p]][Direct]])
         /\ Stored(of[p], size[of[p]], Addrs(of[p]), job[p].op, job[p], disk)
<1>1. of[p] \in Files /\ writer[of[p]] = p
  BY DEF IInv, ProcOK, TypeOK, InWrite, Writing, Allocates, Fills
<1>2. Phase(of[p]) = job[p].op
  BY <1>1 DEF Phase
<1>3. FileOK(of[p])
  BY <1>1 DEF IInv
<1> QED
  BY <1>1, <1>2, <1>3 DEF IInv, TypeOK, FileOK, Shape

\* Nobody else is in a call of file_write to that file.
LEMMA OnlyWriter ==
  ASSUME IInv, NEW p \in Procs, job[p].op \in Writing
  PROVE  \A q \in Procs \ {p} : of[q] = of[p] => job[q].op \notin InWrite
BY DEF IInv, ProcOK, InWrite, Writing, Allocates, Fills

\* The writer itself, after its step.
LEMMA WriterProc ==
  ASSUME IInv, NEW p \in Procs, NEW f, WriterAt(p, f), job'[p].op \notin {"read", "first"},
         pos'[p] <= size'[f] \/ pos'[p] = Width - 1, Got(f, last'[p])
  PROVE  ProcOK(p)'
BY DataAssumption DEF WriterAt, ProcOK

\* With the table on the disk, the addresses are those that were in memory.
LEMMA WriteTableStep ==
  ASSUME IInv, panic = "none", NEW p \in Procs, write_table(p)
  PROVE  IInv'
<1> DEFINE j == job[p]
           jn == [j EXCEPT !.op = "chunk"]
<1>1. PICK f \in Files :
        /\ f = of[p] /\ writer[f] = p /\ Phase(f) = "table" /\ size[f] \in Nat
        /\ j \in JobT /\ j.will <= Total
        /\ Shape(size[f], Addrs(f), "table", j)
        /\ Call(size[f], Addrs(f), "table", j, table[sect[f][Direct]])
        /\ Stored(f, size[f], Addrs(f), "table", j, disk)
  BY InCall DEF write_table, Writing, Allocates
<1> DEFINE t == sect[f][Direct]
<1>2. /\ j.op = "table"
      /\ table' = [table EXCEPT ![t] = j.all]
      /\ job' = [job EXCEPT ![p] = jn]
      /\ UNCHANGED <<size, sect, bits, disk, of, pos, last, going, writer, panic>>
  BY <1>1 DEF write_table
<1>3. t \in Addr /\ t # 0 /\ Addrs(f)[Total] = t
  <2>1. Needs(size[f], Addrs(f), "table", j) > Direct
    BY <1>1 DEF Needs, Writing, Allocates, Call
  <2>2. Addrs(f)[Total] = t /\ Addrs(f)[Total] # 0
    BY <1>1, <2>1, AddrsAt DEF Shape
  <2> QED
    BY <2>2, DataAssumption DEF IInv, TypeOK
<1>4. /\ jn \in JobT /\ jn.op = "chunk" /\ jn.left = j.left /\ jn.idx = j.idx
      /\ jn.will = j.will /\ jn.all = j.all
  <2> HIDE DEF j
  <2> QED
    BY <1>1 DEF JobT, Writing, Fills
<1> HIDE DEF jn
<1>5. job'[p] = jn /\ \A q \in Procs \ {p} : job'[q] = job[q]
  BY <1>2 DEF IInv, TypeOK
<1>6. table'[t] = j.all /\ \A b \in Addr : b # t => table'[b] = table[b]
  BY <1>2, <1>3 DEF IInv, TypeOK
<1>7. WriterAt(p, f)
  <2>1. ASSUME NEW g \in Files, g # f
        PROVE  table'[sect[g][Direct]] = table[sect[g][Direct]]
    <3>1. sect[g][Direct] \in Addr
      BY DataAssumption DEF IInv, TypeOK
    <3>2. Addrs(g)[Total] = sect[g][Direct] /\ Total \in Slots
      BY AddrsAt
    <3>3. sect[g][Direct] # t
      BY <1>3, <2>1, <3>2 DEF IInv, Exact, AddrMap
    <3> QED
      BY <1>6, <3>1, <3>3
  <2>2. \A q \in Procs \ {p} : of[q] = f => job[q].op \notin InWrite
    BY <1>1, <1>2, OnlyWriter DEF Writing, Allocates, Fills
  <2> QED
    BY <1>1, <1>2, <1>5, <2>1, <2>2 DEF WriterAt
<1>8. Addrs(f)' = Addrs(f)
  <2>1. Phase(f)' = "chunk"
    BY <1>4, <1>5, <1>7, WriterPhase
  <2>2. TableOf(f)' = TableOf(f)
    BY <1>1, <1>2, <1>6, <2>1 DEF TableOf, Allocates
  <2> QED
    BY <1>2, <2>2 DEF Addrs
<1>9. TypeOK'
  <2>1. j.all \in [Idx -> Addr]
    BY <1>1 DEF JobT
  <2> HIDE DEF j
  <2> QED
    BY <1>2, <1>4, <2>1 DEF IInv, TypeOK
<1>10. table'[0] = NoAddr
  BY <1>3, <1>6 DEF IInv, Addr
<1>11. Exact(AddrMap, bits \ going)'
  <2>1. AddrMap' = AddrMap
    BY <1>7, <1>8, WriterOthers, SameMap DEF IInv
  <2> QED
    BY <1>2, <2>1 DEF IInv, Exact
<1>12. FileOK(f)'
  <2> DEFINE n == size[f]  a == Addrs(f)
  <2>1. /\ Count(n, a, "chunk", jn) = Count(n, a, "table", j)
        /\ Needs(n, a, "chunk", jn) = Needs(n, a, "table", j)
        /\ Filled(n, "chunk", jn) = Filled(n, "table", j)
    BY <1>4 DEF Count, Needs, Filled, Writing, Allocates, Fills
  <2>2. Shape(n, a, "chunk", jn)
    BY <1>1, <2>1 DEF Shape
  <2>3. Call(n, a, "chunk", jn, table'[t])
    BY <1>1, <1>4, <2>1 DEF Call, Allocates
  <2>4. Stored(f, n, a, "chunk", jn, disk)
    BY <1>1, <2>1 DEF Stored
  <2>5. Phase(f)' = "chunk" /\ job'[writer'[f]] = jn /\ jn.will <= Total
    BY <1>1, <1>2, <1>4, <1>5, <1>7, WriterPhase
  <2> QED
    BY <1>2, <1>8, <2>2, <2>3, <2>4, <2>5 DEF FileOK
<1>13. ProcOK(p)'
  <2>1. (pos[p] <= size[f] \/ pos[p] = Width - 1) /\ Got(f, last[p])
    BY <1>1, DataAssumption DEF IInv, ProcOK
  <2> QED
    BY <1>2, <1>4, <1>5, <1>7, <2>1, WriterProc
<1>14. size[f] <= size'[f] /\ panic' # "sector"
  BY <1>1, <1>2 DEF IInv
<1> QED
  BY <1>7, <1>8, <1>9, <1>10, <1>11, <1>12, <1>13, <1>14, WriterStep

\* A block is written: the bytes it had stay, and the new ones follow them.
LEMMA WriteChunkStep ==
  ASSUME IInv, panic = "none", NEW p \in Procs, write_chunk(p)
  PROVE  IInv'
<1> DEFINE j == job[p]
           jn == [j EXCEPT !.op = "size"]
           n == size[of[p]]
           off == n % BlockSize
           c == Chunk(n, j.left)
           lba == j.all[n \div BlockSize]
           new == [k \in Bytes |-> CASE k < off -> disk[lba][k]
                                     [] k \in off..off + c - 1 -> <<of[p], n + k - off>>
                                     [] OTHER -> NULL]
<1>1. /\ j.op = "chunk"
      /\ disk' = [disk EXCEPT ![lba] = new]
      /\ job' = [job EXCEPT ![p] = jn]
      /\ UNCHANGED <<size, sect, bits, table, of, pos, last, going, writer, panic>>
  BY DEF write_chunk
<1>2. PICK f \in Files :
        /\ f = of[p] /\ writer[f] = p /\ Phase(f) = "chunk" /\ n \in Nat /\ n = size[f]
        /\ j \in JobT /\ j.will <= Total
        /\ Shape(n, Addrs(f), "chunk", j)
        /\ Call(n, Addrs(f), "chunk", j, table[sect[f][Direct]])
        /\ Stored(f, n, Addrs(f), "chunk", j, disk)
  BY InCall DEF write_chunk, Writing, Fills
<1> HIDE DEF n
<1> DEFINE a == Addrs(f)
<1>3. j.left \in Nat /\ j.left > 0 /\ j.will \in Nat /\ j.will = (n + j.left) \div BlockSize + 1
  BY <1>2 DEF JobT, Call
<1>4. n \div BlockSize \in Idx /\ n \div BlockSize < j.will
  <2>1. n + j.left \in Nat /\ n <= n + j.left
    BY <1>2, <1>3
  <2>2. /\ n \div BlockSize \in Nat /\ (n + j.left) \div BlockSize \in Nat
        /\ n \div BlockSize <= (n + j.left) \div BlockSize
    BY <1>2, <2>1, Place, PlaceMonotone
  <2> QED
    BY <1>2, <1>3, <2>2, DataAssumption DEF Idx
<1>5. lba = a[n \div BlockSize] /\ lba # 0 /\ lba \in Addr
  <2>1. Count(n, a, "chunk", j) = j.will
    BY DEF Count, Writing, Fills
  <2>2. n \div BlockSize <= n \div BlockSize
    BY <1>2, Place
  <2>3. lba = a[n \div BlockSize] /\ lba # 0
    BY <1>2, <1>4, <2>1, <2>2 DEF Call, Shape
  <2>4. a \in AddrsT /\ n \div BlockSize \in Slots
    BY <1>4, AddrsType, AddrsAt DEF IInv
  <2> QED
    BY <2>3, <2>4 DEF AddrsT
<1>6. c \in Nat /\ c > 0 /\ c <= j.left /\ off \in Nat /\ off + c <= BlockSize
  <2>1. off \in Nat
    BY <1>2, DataAssumption
  <2> DEFINE l == j.left
  <2> HIDE DEF l
  <2>2. Chunk(n, l) \in Nat /\ Chunk(n, l) > 0 /\ Chunk(n, l) <= l /\ off + Chunk(n, l) <= BlockSize
    BY <1>2, <1>3, ChunkSize DEF l
  <2> QED
    BY <2>1, <2>2 DEF l
<1>7. new \in [Bytes -> Byte]
  <2>1. ASSUME NEW k \in Bytes PROVE new[k] \in Byte
    <3>1. disk[lba][k] \in Byte
      BY <1>5 DEF IInv, TypeOK
    <3>2. k \in Nat
      BY DEF Bytes
    <3> HIDE DEF off, c, lba
    <3>3. k \in off..off + c - 1 => n + k - off \in Nat
      BY <1>2, <1>6, <3>2
    <3>4. k \in off..off + c - 1 => <<of[p], n + k - off>> \in Byte
      BY <1>2, <3>3 DEF Byte
    <3>5. NULL \in Byte
      BY DEF Byte
    <3>6. new[k] = CASE k < off -> disk[lba][k]
                      [] k \in off..off + c - 1 -> <<of[p], n + k - off>>
                      [] OTHER -> NULL
      OBVIOUS
    <3> HIDE DEF new
    <3>7. k < off \/ k \in off..off + c - 1 \/ (~ (k < off) /\ k \notin off..off + c - 1)
      OBVIOUS
    <3>8. k < off => k \notin off..off + c - 1
      BY <1>6, <3>2
    <3> QED
      BY <3>1, <3>4, <3>5, <3>6, <3>7, <3>8
  <2> QED
    BY <2>1
<1>8. /\ jn \in JobT /\ jn.op = "size" /\ jn.left = j.left /\ jn.idx = j.idx
      /\ jn.will = j.will /\ jn.all = j.all
  <2> HIDE DEF j
  <2> QED
    BY <1>2 DEF JobT, Writing, Fills
<1> HIDE DEF jn
<1>9. job'[p] = jn /\ \A q \in Procs \ {p} : job'[q] = job[q]
  BY <1>1 DEF IInv, TypeOK
<1>10. disk'[lba] = new /\ \A b \in Addr : b # lba => disk'[b] = disk[b]
  <2> HIDE DEF new, lba
  <2> QED
    BY <1>1, <1>5 DEF IInv, TypeOK
<1>11. \A g \in Files : \A i \in Idx :
         Addrs(g)[i] # 0 /\ (g # f \/ i # n \div BlockSize) =>
           disk'[Addrs(g)[i]] = disk[Addrs(g)[i]]
  <2> SUFFICES ASSUME NEW g \in Files, NEW i \in Idx, Addrs(g)[i] # 0,
                      g # f \/ i # n \div BlockSize
               PROVE  disk'[Addrs(g)[i]] = disk[Addrs(g)[i]]
    OBVIOUS
  <2>1. i \in Slots /\ n \div BlockSize \in Slots
    BY <1>4, AddrsAt
  <2>2. Addrs(g)[i] \in Addr
    BY <2>1, AddrsType DEF IInv, AddrsT
  <2>3. Addrs(g)[i] # lba
    BY <1>5, <2>1 DEF IInv, Exact, AddrMap
  <2> QED
    BY <1>10, <2>2, <2>3
<1>12. WriterAt(p, f)
  <2>1. \A q \in Procs \ {p} : of[q] = f => job[q].op \notin InWrite
    BY <1>1, <1>2, OnlyWriter DEF Writing, Allocates, Fills
  <2> QED
    BY <1>1, <1>2, <1>9, <1>11, <2>1 DEF WriterAt
<1>13. Phase(f)' = "size"
  BY <1>8, <1>9, <1>12, WriterPhase
<1>14. Addrs(f)' = a
  BY <1>1, <1>2, <1>13, SameAddrs DEF Allocates
<1>15. TypeOK'
  <2> HIDE DEF new, lba, j
  <2> QED
    BY <1>1, <1>7, <1>8 DEF IInv, TypeOK
<1>16. Exact(AddrMap, bits \ going)'
  <2>1. AddrMap' = AddrMap
    BY <1>12, <1>14, WriterOthers, SameMap DEF IInv
  <2> QED
    BY <1>1, <2>1 DEF IInv, Exact
<1>17. Stored(f, n, a, "size", jn, disk')
  <2> DEFINE e == n + c
  <2>1. Filled(n, "size", jn) = e
    BY <1>8 DEF Filled
  <2> SUFFICES ASSUME NEW x \in 0..e - 1
               PROVE  disk'[a[x \div BlockSize]][x % BlockSize] = <<f, x>>
    <3> HIDE DEF a, c, e
    <3> QED
      BY <2>1 DEF Stored
  <2>2. x \in Nat
    BY <1>2, <1>6
  <2>3. x % BlockSize \in Bytes /\ x % BlockSize \in Nat
    BY <2>2, Place DEF Bytes
  <2>4. CASE x < n
    <3>1. x \in 0..n - 1
      BY <1>2, <2>2, <2>4
    <3>2. disk[a[x \div BlockSize]][x % BlockSize] = <<f, x>>
      BY <1>2, <3>1 DEF Stored, Filled
    <3>3. x \div BlockSize \in Idx /\ a[x \div BlockSize] # 0
      BY <1>2, <3>1, BytePlace
    <3>4. CASE x \div BlockSize = n \div BlockSize
      <4>1. x - n = (x % BlockSize) - off
        BY <1>2, <2>2, <3>4, PlaceUnique
      <4>2. x % BlockSize < off
        BY <1>2, <1>6, <2>2, <2>3, <2>4, <4>1
      <4>3. new[x % BlockSize] = disk[lba][x % BlockSize]
        <5> DEFINE k == x % BlockSize
        <5>1. k \in Bytes /\ k < off /\ k \notin off..off + c - 1
          BY <1>6, <2>3, <4>2
        <5> HIDE DEF k, off, c, lba
        <5>2. new[k] = disk[lba][k]
          BY <5>1
        <5> QED
          BY <5>2 DEF k
      <4> HIDE DEF new, lba
      <4> QED
        BY <1>5, <1>10, <3>2, <3>4, <4>3
    <3>5. CASE x \div BlockSize # n \div BlockSize
      BY <1>11, <3>2, <3>3, <3>5
    <3> QED
      BY <3>4, <3>5
  <2>5. CASE ~ (x < n)
    <3>1. n <= x /\ x < n + c
      BY <1>2, <1>6, <2>2, <2>5
    <3>2. x \div BlockSize = n \div BlockSize /\ x % BlockSize = off + (x - n)
      <4> DEFINE l == j.left
      <4>1. l \in Nat /\ l > 0 /\ x < n + Chunk(n, l)
        BY <1>3, <3>1
      <4> HIDE DEF l
      <4> QED
        BY <1>2, <2>2, <3>1, <4>1, ChunkPlace
    <3> DEFINE k == x % BlockSize
    <3>3. k \in Bytes /\ k \in off..off + c - 1 /\ ~ (k < off) /\ n + k - off = x
      <4> HIDE DEF off, c
      <4> QED
        BY <1>2, <1>6, <2>2, <2>3, <3>1, <3>2
    <3>4. new[k] = <<f, x>>
      <4> HIDE DEF k, off, c, lba
      <4> QED
        BY <1>2, <3>3
    <3> HIDE DEF new, lba
    <3> QED
      BY <1>5, <1>10, <3>2, <3>4
  <2> QED
    BY <2>4, <2>5
<1>18. FileOK(f)'
  <2>1. /\ Count(n, a, "size", jn) = Count(n, a, "chunk", j)
        /\ Needs(n, a, "size", jn) = Needs(n, a, "chunk", j)
    BY <1>8 DEF Count, Needs, Writing, Allocates, Fills
  <2>2. Shape(n, a, "size", jn)
    BY <1>2, <2>1 DEF Shape
  <2>3. Call(n, a, "size", jn, table[sect[f][Direct]])
    BY <1>2, <1>8, <2>1 DEF Call, Allocates
  <2>4. job'[writer'[f]] = jn /\ jn.will <= Total
    BY <1>1, <1>2, <1>8, <1>9
  <2> QED
    BY <1>1, <1>2, <1>13, <1>14, <1>17, <2>2, <2>3, <2>4 DEF FileOK
<1>19. ProcOK(p)'
  <2>1. (pos[p] <= size[f] \/ pos[p] = Width - 1) /\ Got(f, last[p])
    BY <1>2, DataAssumption DEF IInv, ProcOK
  <2> QED
    BY <1>1, <1>8, <1>9, <1>12, <2>1, WriterProc
<1> HIDE DEF new, lba, off, c, j
<1>20. table'[0] = NoAddr /\ panic' # "sector" /\ size[f] <= size'[f]
  BY <1>1, <1>2 DEF IInv
<1> QED
  BY <1>12, <1>14, <1>15, <1>16, <1>18, <1>19, <1>20, WriterStep

\* The size takes in the bytes that are already on the disk.
LEMMA GrowStep ==
  ASSUME IInv, panic = "none", NEW p \in Procs, grow_file(p)
  PROVE  IInv'
<1> DEFINE j == job[p]
           n == size[of[p]]
           c == Chunk(n, j.left)
           jn == IF j.left = c THEN NoJob ELSE [j EXCEPT !.left = @ - c, !.op = "chunk"]
<1>1. /\ j.op = "size"
      /\ size' = [size EXCEPT ![of[p]] = n + c]
      /\ pos' = [pos EXCEPT ![p] = (pos[p] + c) % Width]
      /\ job' = [job EXCEPT ![p] = jn]
      /\ UNCHANGED <<sect, bits, disk, table, of, last, going, writer, panic>>
  BY DEF grow_file
<1>2. PICK f \in Files :
        /\ f = of[p] /\ writer[f] = p /\ Phase(f) = "size" /\ n \in Nat /\ n = size[f]
        /\ j \in JobT /\ j.will <= Total
        /\ Shape(n, Addrs(f), "size", j)
        /\ Call(n, Addrs(f), "size", j, table[sect[f][Direct]])
        /\ Stored(f, n, Addrs(f), "size", j, disk)
  BY InCall DEF grow_file, Writing, Fills
<1> HIDE DEF n
<1> DEFINE a == Addrs(f)
<1>3. /\ j.left \in Nat /\ j.left > 0 /\ j.will \in Nat
      /\ j.will = (n + j.left) \div BlockSize + 1
  BY <1>2 DEF JobT, Call
<1>4. c \in Nat /\ c > 0 /\ c <= j.left
  <2> DEFINE l == j.left
  <2> HIDE DEF l
  <2>1. Chunk(n, l) \in Nat /\ Chunk(n, l) > 0 /\ Chunk(n, l) <= l
    BY <1>2, <1>3, ChunkSize DEF l
  <2> QED
    BY <2>1 DEF l
<1>5. n + j.left < BlockSize * Total
  <2>1. n + j.left \in Nat /\ (n + j.left) \div BlockSize < Total
    <3>1. n + j.left \in Nat
      BY <1>2, <1>3
    <3>2. (n + j.left) \div BlockSize \in Nat
      BY <3>1, Place
    <3> QED
      BY <1>2, <1>3, <3>1, <3>2, DataAssumption
  <2> QED
    BY <2>1, PlaceBelow, DataAssumption
<1>6. n + c \in Nat /\ n + c <= n + j.left /\ n <= n + c /\ n + c < BlockSize * Total
  <2> DEFINE z == BlockSize * Total
             l == j.left
  <2>1. z \in Nat /\ n + l < z /\ l \in Nat /\ c \in Nat /\ c <= l
    BY <1>3, <1>4, <1>5, DataAssumption
  <2> HIDE DEF z, l, c
  <2>2. n + c \in Nat /\ n + c <= n + l /\ n <= n + c /\ n + c < z
    BY <1>2, <2>1
  <2> QED
    BY <2>2 DEF z, l
<1>7. j.left # c => /\ jn \in JobT /\ jn.op = "chunk" /\ jn.left = j.left - c
                    /\ jn.will = j.will /\ jn.all = j.all /\ j.left - c \in Nat
  <2>1. j.left - c \in Nat
    <3> HIDE DEF c, j
    <3> QED
      BY <1>3, <1>4
  <2> HIDE DEF j, c
  <2> QED
    BY <1>2, <2>1 DEF JobT, Writing, Fills
<1>8. j.left = c => jn \in JobT /\ jn.op = "none"
  <2> HIDE DEF j, c
  <2> QED
    BY NoJobType
<1> HIDE DEF jn
<1>9. /\ job'[p] = jn /\ \A q \in Procs \ {p} : job'[q] = job[q] /\ pos'[q] = pos[q]
      /\ size'[f] = n + c /\ \A g \in Files \ {f} : size'[g] = size[g]
      /\ pos'[p] = (pos[p] + c) % Width
  <2> HIDE DEF c
  <2> QED
    BY <1>1, <1>2 DEF IInv, TypeOK
<1>10. WriterAt(p, f)
  <2>1. \A q \in Procs \ {p} : of[q] = f => job[q].op \notin InWrite
    BY <1>1, <1>2, OnlyWriter DEF Writing, Allocates, Fills
  <2> QED
    BY <1>1, <1>2, <1>9, <2>1 DEF WriterAt
<1>11. Phase(f)' = jn.op
  BY <1>9, <1>10, WriterPhase
<1>12. Addrs(f)' = a
  <2>1. jn.op \notin Allocates /\ "size" \notin Allocates
    BY <1>7, <1>8 DEF Allocates
  <2> QED
    BY <1>1, <1>2, <1>11, <2>1, SameAddrs
<1>13. pos'[p] \in Nat /\ (pos'[p] <= size'[f] \/ pos'[p] = Width - 1)
  <2> DEFINE q == pos[p]
             z == BlockSize * Total
  <2>1. q \in Nat /\ (q <= n \/ q = Width - 1)
    BY <1>2, DataAssumption DEF IInv, ProcOK, TypeOK
  <2>2. z \in Nat /\ n + c < z /\ n \in Nat
    BY <1>2, <1>6, DataAssumption
  <2>3. Width \in Nat /\ Width > z
    <3>1. 2 * BlockSize * Total = 2 * z
      BY DataAssumption
    <3>2. Width \in Nat /\ Width > 2 * z
      BY <3>1, DataAssumption
    <3> HIDE DEF z
    <3> QED
      BY <2>2, <3>2
  <2> HIDE DEF q, z, c
  <2>4. q <= n => (q + c) % Width = q + c /\ q + c <= n + c
    BY <1>4, <2>1, <2>2, <2>3
  <2>5. q = Width - 1 => (q + c) % Width = c - 1 /\ c - 1 <= n + c
    <3> SUFFICES ASSUME q = Width - 1 PROVE (q + c) % Width = c - 1 /\ c - 1 <= n + c
      OBVIOUS
    <3>1. c - 1 \in 0..Width - 1 /\ q + c = Width * 1 + (c - 1)
      BY <1>4, <2>1, <2>2, <2>3
    <3>2. (Width * 1 + (c - 1)) % Width = c - 1
      BY <2>3, <3>1
    <3> QED
      BY <1>4, <2>2, <3>1, <3>2
  <2>6. (q + c) % Width \in Nat /\ (q + c) % Width <= n + c
    BY <1>4, <2>1, <2>2, <2>4, <2>5
  <2> QED
    BY <1>9, <2>6 DEF q
<1>14. TypeOK'
  <2>1. jn \in JobT
    BY <1>7, <1>8
  <2>2. size' \in [Files -> Nat]
    <3> HIDE DEF c
    <3> QED
      BY <1>1, <1>2, <1>6 DEF IInv, TypeOK
  <2>3. pos' \in [Procs -> Nat]
    <3>1. (pos[p] + c) % Width \in Nat
      BY <1>9, <1>13
    <3> HIDE DEF c
    <3> QED
      BY <1>1, <3>1 DEF IInv, TypeOK
  <2> QED
    BY <1>1, <2>1, <2>2, <2>3 DEF IInv, TypeOK
<1>15. Exact(AddrMap, bits \ going)'
  <2>1. AddrMap' = AddrMap
    BY <1>10, <1>12, WriterOthers, SameMap DEF IInv
  <2> QED
    BY <1>1, <2>1 DEF IInv, Exact
<1>16. Count(n, a, "size", j) = j.will /\ Needs(n, a, "size", j) = j.will
       /\ Filled(n, "size", j) = n + c
  BY DEF Count, Needs, Filled, Writing, Fills
<1>17. a[0] # 0
  <2>1. 0 \in Idx /\ 0 < j.will
    <3>1. (n + j.left) \div BlockSize \in Nat
      BY <1>2, <1>3, Place
    <3> QED
      BY <1>3, <3>1, DataAssumption DEF Idx
  <2> QED
    BY <1>2, <1>16, <2>1 DEF Shape
<1>18. Filled(n + c, jn.op, jn) = n + c /\ Stored(f, n + c, a, jn.op, jn, disk)
  <2>1. jn.op # "size"
    BY <1>7, <1>8
  <2>2. Filled(n + c, jn.op, jn) = n + c
    BY <2>1 DEF Filled
  <2> QED
    BY <1>2, <1>16, <2>2 DEF Stored
<1>19. FileOK(f)'
  <2> DEFINE m == n + c
  <2>1. /\ Count(m, a, jn.op, jn) = j.will /\ Needs(m, a, jn.op, jn) = j.will
    <3>1. CASE j.left = c
      <4>1. jn.op \notin Writing
        BY <1>8, <3>1 DEF Writing, Allocates, Fills
      <4>2. Count(m, a, jn.op, jn) = m \div BlockSize + 1
        BY <1>17, <4>1 DEF Count
      <4> QED
        BY <1>3, <3>1, <4>1, <4>2 DEF Needs
    <3>2. CASE j.left # c
      BY <1>7, <3>2 DEF Count, Needs, Writing, Fills
    <3> QED
      BY <3>1, <3>2
  <2>2. Shape(m, a, jn.op, jn)
    BY <1>2, <1>6, <1>16, <1>17, <2>1 DEF Shape
  <2>3. jn.op \in Writing =>
          Call(m, a, jn.op, jn, table[sect[f][Direct]]) /\ jn.will <= Total
    <3> SUFFICES ASSUME jn.op \in Writing
                 PROVE  Call(m, a, jn.op, jn, table[sect[f][Direct]]) /\ jn.will <= Total
      OBVIOUS
    <3>1. j.left # c
      BY <1>8 DEF Writing, Allocates, Fills
    <3>2. jn.op = "chunk" /\ jn.left = j.left - c /\ jn.will = j.will /\ jn.all = j.all
      BY <1>7, <3>1
    <3>3. jn.left > 0 /\ m + jn.left = n + j.left
      <4> DEFINE l == j.left
      <4>1. l \in Nat /\ c # l /\ c <= l /\ jn.left = l - c
        BY <1>3, <1>4, <3>1, <3>2
      <4> HIDE DEF l, c
      <4>2. l - c > 0 /\ n + c + (l - c) = n + l
        BY <1>2, <1>4, <4>1
      <4> QED
        BY <4>1, <4>2 DEF l
    <3>4. \A i \in Idx : m \div BlockSize <= i /\ i < j.will => j.all[i] = a[i]
      <4>1. n \div BlockSize \in Nat /\ m \div BlockSize \in Nat
            /\ n \div BlockSize <= m \div BlockSize
        BY <1>2, <1>6, Place, PlaceMonotone
      <4>2. \A i \in Idx : m \div BlockSize <= i => n \div BlockSize <= i
        BY <4>1 DEF Idx
      <4> QED
        BY <1>2, <1>16, <4>2 DEF Call
    <3>5. n + j.left <= BlockSize * Total
      BY <1>2 DEF Call
    <3> HIDE DEF m
    <3>6. Call(m, a, jn.op, jn, table[sect[f][Direct]])
      BY <1>3, <2>1, <3>2, <3>3, <3>4, <3>5 DEF Call, Allocates
    <3> QED
      BY <1>2, <3>2, <3>6
  <2>4. job'[writer'[f]] = jn
    BY <1>1, <1>2, <1>9
  <2> QED
    BY <1>1, <1>9, <1>11, <1>12, <1>18, <2>2, <2>3, <2>4 DEF FileOK
<1>20. ProcOK(p)'
  <2>1. Got(f, last[p])
    BY <1>2, DataAssumption DEF IInv, ProcOK
  <2>2. jn.op \notin {"read", "first"}
    BY <1>7, <1>8
  <2> QED
    BY <1>1, <1>9, <1>10, <1>13, <2>1, <2>2, WriterProc
<1> HIDE DEF c, j
<1>21. table'[0] = NoAddr /\ panic' # "sector" /\ size[f] <= size'[f]
  BY <1>1, <1>2, <1>6, <1>9 DEF IInv
<1> QED
  BY <1>10, <1>12, <1>14, <1>15, <1>19, <1>20, <1>21, WriterStep

\* A round of the allocation sets the next address to a free block.
LEMMA AllocStep ==
  ASSUME IInv, panic = "none", NEW p \in Procs, alloc_block(p)
  PROVE  IInv'
<1> DEFINE j == job[p]
           b == block_bitmap_alloc(bits)
           done == j.idx + 1 = j.will
           next == CASE ~done -> "alloc"
                     [] done /\ j.will > Direct -> "table"
                     [] OTHER -> "chunk"
           jn == [j EXCEPT !.idx = @ + 1, !.all[j.idx] = b, !.op = next]
<1>1. /\ j.op = "alloc" /\ Available(bits)
      /\ bits' = bits \cup {b}
      /\ sect' = IF j.idx < Direct THEN [sect EXCEPT ![of[p]][j.idx] = b] ELSE sect
      /\ panic' = IF j.idx < Direct /\ sect[of[p]][j.idx] # 0 THEN "sector" ELSE panic
      /\ UNCHANGED <<size, disk, table, of, pos, last, going, writer>>
  BY DEF alloc_block
<1>2. job' = [job EXCEPT ![p] = jn]
  BY DEF alloc_block, IInv, TypeOK, JobT
<1>3. PICK f \in Files :
        /\ f = of[p] /\ writer[f] = p /\ Phase(f) = "alloc" /\ size[f] \in Nat
        /\ j \in JobT /\ j.will <= Total
        /\ Shape(size[f], Addrs(f), "alloc", j)
        /\ Call(size[f], Addrs(f), "alloc", j, table[sect[f][Direct]])
        /\ Stored(f, size[f], Addrs(f), "alloc", j, disk)
  BY <1>1, InCall DEF Writing, Allocates
<1> DEFINE n == size[f]
           a == Addrs(f)
           i0 == j.idx
<1>4. /\ j.left \in Nat /\ j.left > 0 /\ j.will \in Nat /\ i0 \in Nat
      /\ j.all \in [Idx -> Addr] /\ i0 < j.will /\ n \div BlockSize + 1 <= i0
      /\ n \div BlockSize \in Nat /\ i0 \in Idx /\ i0 \in Slots /\ i0 # Total
  <2>1. /\ j.left \in Nat /\ j.left > 0 /\ j.will \in Nat /\ i0 \in Nat
        /\ j.all \in [Idx -> Addr] /\ i0 < j.will /\ n \div BlockSize + 1 <= i0
    BY <1>3 DEF JobT, Call
  <2>2. n \div BlockSize \in Nat
    BY <1>3, Place
  <2>3. i0 \in Idx /\ i0 \in Slots /\ i0 # Total
    BY <1>3, <2>1, DataAssumption DEF Idx, Slots
  <2> QED
    BY <2>1, <2>2, <2>3
<1>5. b \in Blocks /\ b \notin bits /\ b # 0 /\ b \in Addr
  <2>1. b \in Blocks \ bits
    BY <1>1, AllocFree
  <2> QED
    BY <2>1, DataAssumption DEF Addr
<1>6. next \in {"alloc", "table", "chunk"}
  OBVIOUS
<1>7. /\ jn \in JobT /\ jn.op = next /\ jn.idx = i0 + 1 /\ jn.left = j.left
      /\ jn.will = j.will /\ jn.all = [j.all EXCEPT ![i0] = b]
  <2> HIDE DEF j, b, next
  <2>1. [j.all EXCEPT ![j.idx] = b] \in [Idx -> Addr]
    BY <1>4, <1>5
  <2>2. j.idx + 1 \in Nat
    BY <1>4
  <2> QED
    BY <1>3, <1>6, <2>1, <2>2 DEF JobT, Writing, Allocates, Fills
<1>8. /\ jn.all[i0] = b
      /\ \A i \in Idx : i # i0 => jn.all[i] = j.all[i]
  <2> HIDE DEF j, b, next, jn, i0
  <2> QED
    BY <1>4, <1>7
<1> HIDE DEF jn
<1>9. job'[p] = jn /\ \A q \in Procs \ {p} : job'[q] = job[q]
  BY <1>2 DEF IInv, TypeOK
<1>10. /\ sect' \in [Files -> [0..Direct -> Addr]]
       /\ \A g \in Files \ {f} : sect'[g] = sect[g]
       /\ i0 < Direct => sect'[f][i0] = b
       /\ \A i \in 0..Direct : i # i0 \/ ~ (i0 < Direct) => sect'[f][i] = sect[f][i]
  <2>1. i0 < Direct => i0 \in 0..Direct
    BY <1>4, DataAssumption
  <2> HIDE DEF j, b
  <2> QED
    BY <1>1, <1>3, <1>5, <2>1 DEF IInv, TypeOK
<1>11. WriterAt(p, f)
  <2>1. \A q \in Procs \ {p} : of[q] = f => job[q].op \notin InWrite
    BY <1>1, <1>3, OnlyWriter DEF Writing, Allocates, Fills
  <2> QED
    BY <1>1, <1>3, <1>9, <1>10, <2>1 DEF WriterAt
<1>12. Phase(f)' = next
  BY <1>7, <1>9, <1>11, WriterPhase
<1>13. sect'[f][Direct] = sect[f][Direct] /\ Addrs(f)'[Total] = a[Total]
  <2>1. Direct \in 0..Direct /\ (Direct # i0 \/ ~ (i0 < Direct))
    BY <1>4, DataAssumption
  <2>2. sect'[f][Direct] = sect[f][Direct]
    BY <1>10, <2>1
  <2>3. Addrs(f)'[Total] = sect'[f][Direct] /\ Addrs(f)[Total] = sect[f][Direct]
    BY AddrsAt DEF Addrs
  <2> QED
    BY <2>2, <2>3
<1>14. a[i0] = 0 /\ (j.will > Direct <=> sect[f][Direct] # 0)
  <2>1. Count(n, a, "alloc", j) = i0 /\ Needs(n, a, "alloc", j) = j.will
    BY DEF Count, Needs, Writing, Allocates
  <2>2. ~ (i0 < i0)
    BY <1>4
  <2> QED
    BY <1>3, <1>4, <2>1, <2>2, AddrsAt DEF Shape
<1>15. TableOf(f)' = IF next = "chunk" THEN table[sect[f][Direct]] ELSE jn.all
  <2> HIDE DEF next
  <2> QED
    BY <1>1, <1>3, <1>6, <1>9, <1>12, <1>13 DEF TableOf, Allocates
<1>16. ASSUME NEW i \in Slots
       PROVE  Addrs(f)'[i] = IF i = i0 THEN b ELSE a[i]
  <2>1. CASE i = Total
    BY <1>4, <1>13, <2>1
  <2>2. CASE i \in 0..Direct - 1
    <3>1. i < Direct /\ i \in 0..Direct /\ i # Total
      BY <2>2, DataAssumption
    <3>2. Addrs(f)'[i] = sect'[f][i] /\ a[i] = sect[f][i]
      BY <3>1 DEF Addrs
    <3>3. i # i0 => sect'[f][i] = sect[f][i]
      BY <1>10, <3>1
    <3>4. i = i0 => sect'[f][i] = b
      BY <1>10, <3>1
    <3> QED
      BY <3>2, <3>3, <3>4
  <2>3. CASE i \in Direct..Total - 1
    <3>1. ~ (i < Direct) /\ i # Total /\ i \in Idx /\ i \in Nat
      BY <2>3, DataAssumption DEF Idx
    <3>2. Addrs(f)'[i] = TableOf(f)'[i]
      BY <3>1 DEF Addrs
    <3>3. a[i] = j.all[i]
      BY <1>3, <3>1 DEF Addrs, TableOf, Allocates
    <3>4. CASE next = "chunk"
      <4>1. ~ (j.will > Direct) /\ done
        BY <3>4
      <4>2. sect[f][Direct] = 0
        BY <1>14, <4>1
      <4>3. Addrs(f)'[i] = 0
        BY <1>15, <3>1, <3>2, <3>4, <4>2 DEF IInv, NoAddr
      <4>4. i # i0 /\ ~ (i < i0)
        <5> HIDE DEF j, i0, done
        <5>1. ~ (j.will > Direct) /\ i0 < j.will
          BY <1>4, <4>1
        <5> QED
          BY <1>4, <3>1, <5>1, DataAssumption
      <4>5. Count(n, a, "alloc", j) = i0
        BY DEF Count, Writing, Allocates
      <4>6. a[i] = 0
        BY <1>3, <3>1, <4>4, <4>5 DEF Shape
      <4> QED
        BY <4>3, <4>4, <4>6
    <3>5. CASE next # "chunk"
      <4>1. Addrs(f)'[i] = jn.all[i]
        BY <1>15, <3>2, <3>5
      <4> QED
        BY <1>8, <3>1, <3>3, <4>1
    <3> QED
      BY <3>4, <3>5
  <2> QED
    BY <2>1, <2>2, <2>3, AddrsAt
<1>17. TypeOK'
  <2>1. bits' \in SUBSET Blocks
    BY <1>1, <1>5 DEF IInv, TypeOK
  <2> HIDE DEF j, b, next
  <2> QED
    BY <1>1, <1>2, <1>7, <1>10, <2>1 DEF IInv, TypeOK
<1>18. Exact(AddrMap, bits \ going)'
  <2> DEFINE M == AddrMap
             N == AddrMap'
  <2>1. M \in [Files -> AddrsT] /\ \A g \in Files : M[g] = Addrs(g)
    BY AddrsType DEF IInv, AddrMap
  <2>2. N \in [Files -> AddrsT] /\ \A g \in Files : N[g] = Addrs(g)'
    <3>1. \A g \in Files : Addrs(g)' \in AddrsT
      <4>1. Addrs(f)' \in AddrsT
        <5>1. a \in AddrsT
          BY <2>1
        <5>2. \A i \in Slots : Addrs(f)'[i] \in Addr
          BY <1>5, <1>16, <5>1 DEF AddrsT
        <5> QED
          BY <5>2 DEF Addrs, AddrsT
      <4> QED
        BY <1>11, <2>1, <4>1, WriterOthers DEF IInv
    <3> QED
      BY <3>1 DEF AddrMap
  <2>3. M[f][i0] = 0 /\ N[f][i0] = b
    BY <1>4, <1>14, <1>16, <2>1, <2>2
  <2>4. \A g \in Files : \A k \in Slots : (g # f \/ k # i0) => N[g][k] = M[g][k]
    BY <1>11, <1>16, <2>1, <2>2, WriterOthers DEF IInv
  <2>5. Exact(M, bits \ going)
    BY DEF IInv
  <2>6. bits' \ going' = (bits \ going) \cup {b}
    BY <1>1, <1>5 DEF IInv, TypeOK
  <2> HIDE DEF M, N, b, i0
  <2>7. Exact(N, (bits \ going) \cup {b})
    <3> DEFINE u == bits \ going
    <3>1. Exact(M, u) /\ b \notin u
      BY <1>5, <2>5
    <3> HIDE DEF u
    <3>2. Exact(N, u \cup {b})
      BY <1>4, <1>5, <2>1, <2>2, <2>3, <2>4, <3>1, ExactSet
    <3> QED
      BY <3>2 DEF u
  <2> QED
    BY <2>6, <2>7 DEF N, Exact
<1>19. Count(n, Addrs(f)', next, jn) = i0 + 1 /\ Needs(n, Addrs(f)', next, jn) = j.will
  <2>1. next # "alloc" => j.will = i0 + 1
    OBVIOUS
  <2> HIDE DEF next
  <2> QED
    BY <1>6, <1>7, <2>1 DEF Count, Needs, Writing, Allocates, Fills
<1>20. \A i \in Idx : a[i] # 0 => Addrs(f)'[i] = a[i]
  BY <1>14, <1>16, AddrsAt
<1>21. Shape(n, Addrs(f)', next, jn)
  <2>1. Count(n, a, "alloc", j) = i0 /\ Needs(n, a, "alloc", j) = j.will
    BY DEF Count, Needs, Writing, Allocates
  <2>2. \A i \in Idx : i < i0 + 1 <=> i < i0 \/ i = i0
    BY <1>4 DEF Idx
  <2>3. \A i \in Idx : Addrs(f)'[i] # 0 <=> i < i0 + 1
    BY <1>3, <1>5, <1>16, <2>1, <2>2, AddrsAt DEF Shape
  <2>4. Addrs(f)'[Total] # 0 <=> j.will > Direct
    BY <1>3, <1>13, <2>1 DEF Shape
  <2>5. Addrs(f)'[0] # 0
    <3>1. 0 \in Idx
      BY DataAssumption DEF Idx
    <3>2. 0 < i0 + 1
      BY <1>4
    <3> HIDE DEF i0
    <3> QED
      BY <2>3, <3>1, <3>2
  <2>6. n < BlockSize * Total
    BY <1>3 DEF Shape
  <2> QED
    BY <1>19, <2>3, <2>4, <2>5, <2>6 DEF Shape
<1>22. Call(n, Addrs(f)', next, jn, table[sect[f][Direct]])
  <2>1. Count(n, a, "alloc", j) = i0
    BY DEF Count, Writing, Allocates
  <2>2. /\ j.left > 0 /\ n + j.left <= BlockSize * Total
        /\ j.will = (n + j.left) \div BlockSize + 1
        /\ \A i \in Idx : n \div BlockSize <= i /\ i < i0 => j.all[i] = a[i]
        /\ \A i \in Idx : i < Direct => j.all[i] \in {0, a[i]}
        /\ \A i \in Idx : Direct <= i /\ i <= n \div BlockSize => table[sect[f][Direct]][i] = j.all[i]
    BY <1>3, <2>1 DEF Call, Allocates
  <2>3. next = "alloc" => n \div BlockSize + 1 <= i0 + 1 /\ i0 + 1 < j.will
    <3>1. next = "alloc" => i0 + 1 # j.will
      OBVIOUS
    <3> HIDE DEF next, j, i0, n
    <3> QED
      BY <1>4, <3>1
  <2>4. next = "table" => j.will > Direct
    OBVIOUS
  <2>5. \A i \in Idx : n \div BlockSize <= i /\ i < i0 + 1 => jn.all[i] = Addrs(f)'[i]
    <3>1. \A i \in Idx : i < i0 + 1 <=> i < i0 \/ i = i0
      BY <1>4 DEF Idx
    <3> QED
      BY <1>8, <1>16, <2>2, <3>1, AddrsAt
  <2>6. \A i \in Idx : i < Direct => jn.all[i] \in {0, Addrs(f)'[i]}
    BY <1>8, <1>16, <2>2, AddrsAt
  <2>7. \A i \in Idx : Direct <= i /\ i <= n \div BlockSize =>
          table[sect[f][Direct]][i] = jn.all[i]
    <3>1. ~ (i0 <= n \div BlockSize)
      BY <1>4
    <3> QED
      BY <1>8, <2>2, <3>1
  <2> HIDE DEF next, n, i0
  <2> QED
    BY <1>7, <1>19, <2>2, <2>3, <2>4, <2>5, <2>6, <2>7 DEF Call
<1>23. Stored(f, n, Addrs(f)', next, jn, disk)
  <2>1. Filled(n, next, jn) = n /\ Filled(n, "alloc", j) = n
    BY <1>6 DEF Filled
  <2> SUFFICES ASSUME NEW x \in 0..n - 1
               PROVE  disk[Addrs(f)'[x \div BlockSize]][x % BlockSize] = <<f, x>>
    BY <2>1 DEF Stored
  <2>2. disk[a[x \div BlockSize]][x % BlockSize] = <<f, x>>
    BY <1>3, <2>1 DEF Stored
  <2>3. x \div BlockSize \in Idx /\ a[x \div BlockSize] # 0
    BY BytePlace
  <2> QED
    BY <1>20, <2>2, <2>3
<1>24. FileOK(f)'
  <2>1. job'[writer'[f]] = jn /\ jn.will <= Total
    BY <1>1, <1>3, <1>7, <1>9
  <2> HIDE DEF next
  <2> QED
    BY <1>1, <1>12, <1>13, <1>21, <1>22, <1>23, <2>1 DEF FileOK
<1>25. ProcOK(p)'
  <2>1. (pos[p] <= size[f] \/ pos[p] = Width - 1) /\ Got(f, last[p])
    BY <1>3, DataAssumption DEF IInv, ProcOK
  <2>2. jn.op \notin {"read", "first"}
    BY <1>6, <1>7
  <2> QED
    BY <1>1, <1>9, <1>11, <2>1, <2>2, WriterProc
<1>26. panic' # "sector"
  <2>1. i0 < Direct => sect[of[p]][i0] = 0
    <3>1. i0 < Direct => i0 \in 0..Direct - 1
      BY <1>4, DataAssumption
    <3> QED
      BY <1>3, <1>14, <3>1, AddrsAt
  <2> QED
    BY <1>1, <2>1 DEF IInv
<1>27. table'[0] = NoAddr /\ size[f] <= size'[f]
  BY <1>1, <1>3 DEF IInv
<1> HIDE DEF next, b, j
<1> QED
  BY <1>11, <1>17, <1>18, <1>20, <1>24, <1>25, <1>26, <1>27, WriterStep

\* A file without a call of file_write is the same to the invariant whatever
\* its last writer does.
LEMMA Idle ==
  ASSUME NEW f \in Files, FileOK(f), Phase(f) \notin Writing, NEW j
  PROVE  /\ Shape(size[f], Addrs(f), "none", j)
         /\ Stored(f, size[f], Addrs(f), "none", j, disk)
<1> DEFINE n == size[f]  a == Addrs(f)  ph == Phase(f)  h == job[writer[f]]
<1>1. Shape(n, a, ph, h) /\ Stored(f, n, a, ph, h, disk)
  BY DEF FileOK
<1>2. "none" \notin Writing /\ ph # "size"
  BY DEF Writing, Allocates, Fills
<1>3. /\ Count(n, a, "none", j) = Count(n, a, ph, h)
      /\ Needs(n, a, "none", j) = Needs(n, a, ph, h)
      /\ Filled(n, "none", j) = Filled(n, ph, h)
  BY <1>2 DEF Count, Needs, Filled
<1> QED
  BY <1>1, <1>3 DEF Shape, Stored

\* file_write collects the addresses it goes on with, and sets that of the
\* table when the file will need one.
LEMMA CollectStep ==
  ASSUME IInv, panic = "none", NEW p \in Procs, NEW m \in Nat, of[p] # NULL,
         job[p].op \in {"none", "first"}, sect[of[p]][0] # 0,
         size[of[p]] + m <= BlockSize * Total, Collect(p, m),
         UNCHANGED <<size, disk, table, of, going>>,
         writer' = [writer EXCEPT ![of[p]] = p],
         \A q \in Procs \ {p} : of[q] = of[p] => job[q].op \notin InWrite
  PROVE  IInv'
<1> DEFINE n    == size[of[p]]
           s    == sect[of[p]]
           has  == n \div BlockSize + 1
           will == (n + m) \div BlockSize + 1
           grow == has <= Direct /\ will > Direct
           t    == block_bitmap_alloc(bits)
           all  == IF has > Direct
                   THEN [i \in Idx |-> IF i < Direct THEN 0 ELSE table[s[Direct]][i]]
                   ELSE [NoAddr EXCEPT ![has - 1] = s[has - 1]]
           sn   == IF grow THEN [s EXCEPT ![Direct] = t] ELSE s
           un   == IF grow THEN bits \cup {t} ELSE bits
           next == IF m = 0 THEN "none" ELSE IF has < will THEN "alloc" ELSE "chunk"
           jn   == IF m = 0 THEN NoJob
                   ELSE [NoJob EXCEPT !.op = IF has < will THEN "alloc" ELSE "chunk",
                                      !.left = m, !.idx = has, !.will = will, !.all = all]
<1>1. /\ n + m <= BlockSize * Total /\ s[0] # 0
      /\ grow => Available(bits)
      /\ panic' = CASE will > Total -> "write"
                    [] has > Direct /\ s[Direct] = 0 -> "sector"
                    [] will <= Direct /\ s[has - 1] = 0 -> "sector"
                    [] grow /\ s[Direct] # 0 -> "sector"
                    [] OTHER -> panic
      /\ sect' = (IF grow THEN [sect EXCEPT ![of[p]][Direct] = t] ELSE sect)
      /\ bits' = un
      /\ pos' = [pos EXCEPT ![p] = (n - 1) % Width]
      /\ job' = [job EXCEPT ![p] = jn]
      /\ last' = [last EXCEPT ![p] = NoRead]
      /\ UNCHANGED <<size, disk, table, of, going>>
  BY DEF Collect, HasBlocks
<1>2. PICK f \in Files :
        /\ f = of[p] /\ Phase(f) \notin Writing
        /\ n = size[f] /\ n \in Nat /\ s = sect[f] /\ s \in [0..Direct -> Addr]
        /\ Shape(n, Addrs(f), "none", job[p])
        /\ Stored(f, n, Addrs(f), "none", job[p], disk)
  <2>1. of[p] \in Files
    BY <1>1 DEF IInv, TypeOK
  <2>2. writer[of[p]] \in Procs /\ FileOK(of[p])
    BY <2>1 DEF IInv, TypeOK
  <2>3. Phase(of[p]) \notin Writing
    BY <2>2 DEF Phase, InWrite, Writing, Allocates, Fills
  <2> QED
    BY <2>1, <2>2, <2>3, Idle DEF IInv, TypeOK
<1> HIDE DEF n, s
<1> DEFINE a == Addrs(f)
(* The numbers of blocks. *)
<1>3. /\ n \div BlockSize \in Nat /\ has \in Nat /\ has > 0 /\ has - 1 = n \div BlockSize
      /\ has <= Total /\ will \in Nat /\ has <= will /\ (m = 0 => will = has)
      /\ has - 1 \in Idx
  <2>1. n \div BlockSize \in Nat
    BY <1>2, Place
  <2>2. n + m \in Nat /\ n <= n + m /\ (m = 0 => n + m = n)
    BY <1>2
  <2>3. (n + m) \div BlockSize \in Nat /\ n \div BlockSize <= (n + m) \div BlockSize
    BY <1>2, <2>2, Place, PlaceMonotone
  <2>4. n \div BlockSize < Total
    BY <1>2, PlaceBelow, DataAssumption DEF Shape
  <2> QED
    BY <2>1, <2>2, <2>3, <2>4, DataAssumption DEF Idx
<1>4. n = 0 => has = 1
  BY <1>3, DataAssumption
<1> HIDE DEF has, will
(* The addresses before. *)
<1>5. a[0] = s[0] /\ a[Total] = s[Direct] /\ 0 \in Idx /\ 0 \in Slots /\ 0 # Total /\ 0 # Direct
      /\ Total \in Slots /\ Direct \in 0..Direct /\ 0 \in 0..Direct
  <2>1. 0 \in 0..Direct - 1
    BY DataAssumption
  <2> QED
    BY <1>2, <2>1, AddrsAt, DataAssumption
<1>6. Count(n, a, "none", job[p]) = has /\ Needs(n, a, "none", job[p]) = has
  BY <1>1, <1>5 DEF Count, Needs, Writing, Allocates, Fills, has
<1>7. /\ \A i \in Idx : a[i] # 0 <=> i < has
      /\ a[Total] # 0 <=> has > Direct
  BY <1>2, <1>6 DEF Shape
(* The new block. *)
<1>9. grow => t \in Blocks /\ t \notin bits /\ t # 0 /\ t \in Addr
  <2> HIDE DEF grow
  <2> QED
    BY <1>1, AllocFree, DataAssumption DEF Addr
<1> HIDE DEF t
<1>11. /\ sn \in [0..Direct -> Addr] /\ sn[Direct] = (IF grow THEN t ELSE s[Direct])
       /\ \A i \in 0..Direct : i # Direct => sn[i] = s[i]
  <2> HIDE DEF grow
  <2> QED
    BY <1>2, <1>5, <1>9
<1> HIDE DEF sn
<1>12. has - 1 < Direct => has - 1 \in 0..Direct /\ s[has - 1] # 0
  <2> SUFFICES ASSUME has - 1 < Direct PROVE has - 1 \in 0..Direct /\ s[has - 1] # 0
    OBVIOUS
  <2>1. has - 1 \in 0..Direct - 1 /\ has - 1 \in 0..Direct /\ has - 1 < has
    BY <1>3, DataAssumption
  <2> QED
    BY <1>2, <1>3, <1>7, <2>1, AddrsAt
<1>13. panic' = (IF will > Total THEN "write" ELSE "none")
  <2>1. has > Direct => s[Direct] # 0
    BY <1>5, <1>7
  <2>2. will <= Direct => s[has - 1] # 0
    BY <1>3, <1>12, DataAssumption
  <2>3. grow => s[Direct] = 0
    <3>1. grow => ~ (has > Direct)
      BY <1>3, DataAssumption
    <3> QED
      BY <1>5, <1>7, <3>1
  <2> HIDE DEF grow
  <2> QED
    BY <1>1, <2>1, <2>2, <2>3
<1>14. /\ all \in [Idx -> Addr]
       /\ \A i \in Idx : i < Direct /\ i # has - 1 => all[i] = 0
       /\ \A i \in Idx : i < Direct => all[i] \in {0, s[i]}
       /\ has - 1 < Direct => all[has - 1] = s[has - 1]
       /\ \A i \in Idx : ~ (i < Direct) => all[i] = a[i]
  <2>1. 0 \in Addr /\ NoAddr \in [Idx -> Addr] /\ \A i \in Idx : NoAddr[i] = 0
    BY DEF Addr, NoAddr
  <2>2. CASE has > Direct
    <3>1. ~ (has - 1 < Direct)
      BY <1>3, <2>2, DataAssumption
    <3>2. table[s[Direct]] \in [Idx -> Addr]
      BY <1>2, <1>5 DEF IInv, TypeOK
    <3>3. \A i \in Idx : ~ (i < Direct) => a[i] = table[s[Direct]][i]
      <4>1. \A i \in Idx : ~ (i < Direct) => i # Total /\ i \in Slots
        BY AddrsAt
      <4>2. TableOf(f) = table[s[Direct]]
        BY <1>2 DEF TableOf, Writing
      <4> QED
        BY <4>1, <4>2 DEF Addrs
    <3>4. all = [i \in Idx |-> IF i < Direct THEN 0 ELSE table[s[Direct]][i]]
      BY <2>2
    <3> HIDE DEF all, a
    <3> QED
      BY <2>1, <3>1, <3>2, <3>3, <3>4
  <2>3. CASE ~ (has > Direct)
    <3>1. has - 1 < Direct
      BY <1>3, <2>3, DataAssumption
    <3>2. s[has - 1] \in Addr
      BY <1>2, <1>12, <3>1
    <3>3. all = [NoAddr EXCEPT ![has - 1] = s[has - 1]]
      BY <2>3
    <3>4. \A i \in Idx : ~ (i < Direct) => a[i] = 0 /\ i # has - 1
      <4>1. \A i \in Idx : ~ (i < Direct) => ~ (i < has) /\ i # has - 1
        BY <1>3, <2>3, DataAssumption DEF Idx
      <4> QED
        BY <1>7, <4>1
    <3> HIDE DEF all, a
    <3> QED
      BY <1>3, <2>1, <3>1, <3>2, <3>3, <3>4
  <2> QED
    BY <2>2, <2>3
<1> HIDE DEF all
<1>15. /\ jn \in JobT /\ jn.op = next
       /\ m # 0 => jn.left = m /\ jn.idx = has /\ jn.will = will /\ jn.all = all
  <2>1. m = 0 => jn = NoJob /\ next = "none"
    OBVIOUS
  <2>2. m # 0 => jn = [NoJob EXCEPT !.op = next, !.left = m, !.idx = has, !.will = will, !.all = all]
    OBVIOUS
  <2>3. next \in {"none", "alloc", "chunk"}
    OBVIOUS
  <2> HIDE DEF jn, next
  <2>4. m # 0 => /\ jn \in JobT /\ jn.op = next
                 /\ jn.left = m /\ jn.idx = has /\ jn.will = will /\ jn.all = all
    BY <1>3, <1>14, <2>2, <2>3, NoJobType DEF JobT, Writing, Allocates, Fills
  <2> QED
    BY <2>1, <2>4, NoJobType
<1> HIDE DEF jn
(* The file and its writer after the step. *)
<1>16. /\ job'[p] = jn /\ last'[p] = NoRead /\ pos'[p] = (n - 1) % Width
       /\ \A q \in Procs \ {p} : job'[q] = job[q] /\ pos'[q] = pos[q] /\ last'[q] = last[q]
       /\ sect'[f] = sn /\ \A g \in Files \ {f} : sect'[g] = sect[g]
       /\ writer'[f] = p /\ \A g \in Files \ {f} : writer'[g] = writer[g]
  <2>1. sect'[f] = sn /\ \A g \in Files \ {f} : sect'[g] = sect[g]
    <3> HIDE DEF grow
    <3> QED
      BY <1>1, <1>2 DEF IInv, TypeOK, sn
  <2> HIDE DEF next
  <2> QED
    BY <1>1, <1>2, <2>1 DEF IInv, TypeOK
<1>17. WriterAt(p, f)
  BY <1>1, <1>2, <1>16 DEF WriterAt
<1>18. Phase(f)' = next
  BY <1>15, <1>16, <1>17, WriterPhase
<1>19. next # "alloc" => ~grow
  <2>1. next # "alloc" => has = will
    BY <1>3
  <2> QED
    BY <1>3, <2>1, DataAssumption
<1>20. ASSUME NEW i \in Slots
       PROVE  Addrs(f)'[i] = IF i = Total /\ grow THEN t ELSE a[i]
  <2>1. CASE i = Total
    <3>1. Addrs(f)'[i] = sn[Direct]
      BY <1>5, <1>16, <2>1 DEF Addrs
    <3> HIDE DEF grow
    <3> QED
      BY <1>5, <1>11, <2>1, <3>1
  <2>2. CASE i \in 0..Direct - 1
    <3>1. i < Direct /\ i \in 0..Direct /\ i # Total /\ i # Direct
      BY <2>2, DataAssumption
    <3>2. Addrs(f)'[i] = sn[i] /\ a[i] = s[i]
      BY <1>2, <1>16, <3>1 DEF Addrs
    <3>3. sn[i] = s[i]
      BY <1>11, <3>1
    <3> QED
      BY <3>1, <3>2, <3>3
  <2>3. CASE i \in Direct..Total - 1
    <3>1. ~ (i < Direct) /\ i # Total /\ i \in Idx /\ i # 0
      BY <2>3, DataAssumption DEF Idx
    <3>2. Addrs(f)'[i] = TableOf(f)'[i]
      BY <3>1 DEF Addrs
    <3>3. next = "alloc" => TableOf(f)' = all
      <4>1. next = "alloc" => m # 0
        OBVIOUS
      <4>2. job'[writer'[f]] = jn
        BY <1>2, <1>16
      <4> HIDE DEF next
      <4> QED
        BY <1>15, <1>18, <4>1, <4>2 DEF TableOf, Allocates
    <3>4. next # "alloc" => TableOf(f)' = TableOf(f)
      <4>1. next # "alloc" => sect'[f][Direct] = sect[f][Direct]
        BY <1>2, <1>11, <1>16, <1>19
      <4>2. next # "alloc" => next \notin Allocates
        BY DEF Allocates
      <4> HIDE DEF next
      <4> QED
        BY <1>1, <1>2, <1>18, <4>1, <4>2 DEF TableOf, Writing
    <3>5. a[i] = TableOf(f)[i]
      BY <3>1 DEF Addrs
    <3>6. all[i] = a[i]
      BY <1>14, <3>1
    <3> HIDE DEF next, grow
    <3> QED
      BY <3>1, <3>2, <3>3, <3>4, <3>5, <3>6
  <2> QED
    BY <1>2, <2>1, <2>2, <2>3, AddrsAt
<1>21. pos'[p] \in Nat /\ (pos'[p] <= size'[f] \/ pos'[p] = Width - 1)
  <2> DEFINE z == BlockSize * Total
  <2>1. z \in Nat /\ n < z
    BY <1>2, DataAssumption DEF Shape
  <2>2. Width \in Nat /\ Width > z
    <3>1. 2 * BlockSize * Total = 2 * z
      BY DataAssumption
    <3>2. Width \in Nat /\ Width > 2 * z
      BY <3>1, DataAssumption
    <3> HIDE DEF z
    <3> QED
      BY <2>1, <3>2
  <2> HIDE DEF z
  <2>3. n = 0 => (n - 1) % Width = Width - 1
    BY <2>1, <2>2
  <2>4. n # 0 => (n - 1) % Width = n - 1 /\ n - 1 \in Nat
    <3>1. n # 0 => n - 1 \in Nat /\ n - 1 < Width
      BY <1>2, <2>1, <2>2
    <3> QED
      BY <2>2, <3>1
  <2>5. pos'[p] = (n - 1) % Width /\ size'[f] = n /\ n \in Nat
    BY <1>1, <1>2, <1>16
  <2>6. CASE n = 0
    BY <2>1, <2>2, <2>3, <2>5, <2>6
  <2>7. CASE n # 0
    <3>1. pos'[p] = n - 1 /\ n - 1 \in Nat
      BY <2>4, <2>5, <2>7
    <3>2. n - 1 <= n
      BY <2>5
    <3> QED
      BY <2>5, <3>1, <3>2
  <2> QED
    BY <2>6, <2>7
<1>22. TypeOK'
  <2>1. un \in SUBSET Blocks /\ going \subseteq un
    BY <1>9 DEF IInv, TypeOK
  <2>2. (n - 1) % Width \in Nat
    BY <1>16, <1>21
  <2>3. last' \in [Procs -> [start : Nat, got : Seq(Byte)]]
    BY <1>1 DEF IInv, TypeOK, NoRead
  <2>4. sect' \in [Files -> [0..Direct -> Addr]]
    <3>1. sect' = [g \in Files |-> sect'[g]]
      <4> HIDE DEF grow
      <4> QED
        BY <1>1 DEF IInv, TypeOK
    <3>2. \A g \in Files : sect'[g] \in [0..Direct -> Addr]
      BY <1>11, <1>16 DEF IInv, TypeOK
    <3> QED
      BY <3>1, <3>2
  <2>5. writer' \in [Files -> Procs]
    BY DEF IInv, TypeOK
  <2> HIDE DEF un, next
  <2> QED
    BY <1>1, <1>15, <2>1, <2>2, <2>3, <2>4, <2>5 DEF IInv, TypeOK
<1>23. Exact(AddrMap, bits \ going)'
  <2> DEFINE M == AddrMap
             N == AddrMap'
             u == bits \ going
  <2>1. M \in [Files -> AddrsT] /\ \A g \in Files : M[g] = Addrs(g)
    BY AddrsType DEF IInv, AddrMap
  <2>2. N \in [Files -> AddrsT] /\ \A g \in Files : N[g] = Addrs(g)'
    <3>1. \A g \in Files : Addrs(g)' \in AddrsT
      <4>1. Addrs(f)' \in AddrsT
        <5>1. a \in AddrsT
          BY <2>1
        <5>2. \A i \in Slots : Addrs(f)'[i] \in Addr
          BY <1>9, <1>20, <5>1 DEF AddrsT
        <5> QED
          BY <5>2 DEF Addrs, AddrsT
      <4> QED
        BY <1>17, <2>1, <4>1, WriterOthers DEF IInv
    <3> QED
      BY <3>1 DEF AddrMap
  <2>3. \A g \in Files : g # f => N[g] = M[g]
    BY <1>17, <2>1, <2>2, WriterOthers DEF IInv
  <2>4. \A i \in Slots : N[f][i] = IF i = Total /\ grow THEN t ELSE M[f][i]
    BY <1>20, <2>1, <2>2
  <2>5. Exact(M, u) /\ M[f][Total] = s[Direct]
    BY <1>5, <2>1 DEF IInv
  <2>6. grow => s[Direct] = 0
    <3>1. grow => ~ (has > Direct)
      BY <1>3, DataAssumption
    <3> QED
      BY <1>5, <1>7, <3>1
  <2>7. bits' \ going' = IF grow THEN u \cup {t} ELSE u
    <3>1. going \subseteq bits
      BY DEF IInv, TypeOK
    <3> HIDE DEF grow
    <3> QED
      BY <1>1, <1>9, <3>1
  <2>8. grow => t \in Blocks /\ t \notin u
    BY <1>9
  <2> HIDE DEF M, N, grow, a, u
  <2>9. CASE grow
    <3>1. M[f][Total] = 0 /\ N[f][Total] = t
      BY <1>5, <2>4, <2>5, <2>6, <2>9
    <3>2. \A g \in Files : \A i \in Slots : (g # f \/ i # Total) => N[g][i] = M[g][i]
      BY <1>5, <2>3, <2>4
    <3>3. Exact(N, u \cup {t})
      BY <1>5, <2>1, <2>2, <2>5, <2>8, <2>9, <3>1, <3>2, ExactSet
    <3> QED
      BY <2>7, <2>9, <3>3 DEF N, Exact
  <2>10. CASE ~grow
    <3>1. \A g \in Files : \A i \in Slots : N[g][i] = M[g][i]
      BY <2>3, <2>4, <2>10
    <3>2. Exact(N, u)
      BY <2>5, <3>1 DEF Exact
    <3> QED
      BY <2>7, <2>10, <3>2 DEF N, Exact
  <2> QED
    BY <2>9, <2>10
<1>24. \A i \in Idx : a[i] # 0 => Addrs(f)'[i] = a[i]
  <2>1. \A i \in Idx : i \in Slots /\ i # Total
    BY <1>2, AddrsAt
  <2> QED
    BY <1>5, <1>20, <2>1
<1>25. \A i \in Idx : Addrs(f)'[i] # 0 <=> i < has
  <2>1. \A i \in Idx : i \in Slots /\ i # Total
    BY <1>2, AddrsAt
  <2> HIDE DEF grow
  <2> QED
    BY <1>7, <1>20, <2>1
<1>26. Addrs(f)'[Total] # 0 <=> will > Direct
  <2>1. Addrs(f)'[Total] = IF grow THEN t ELSE a[Total]
    BY <1>5, <1>20
  <2>2. CASE grow
    BY <1>3, <1>9, <2>1, <2>2
  <2>3. CASE ~grow
    <3>1. has > Direct <=> will > Direct
      BY <1>3, <2>3, DataAssumption
    <3> QED
      BY <1>7, <2>1, <2>3, <3>1
  <2> QED
    BY <2>2, <2>3
<1>27. Count(n, Addrs(f)', next, jn) = has /\ Needs(n, Addrs(f)', next, jn) = will
  <2>1. CASE m = 0
    <3>1. next = "none" /\ "none" \notin Writing
      BY <2>1 DEF Writing, Allocates, Fills
    <3>2. Addrs(f)'[0] # 0
      BY <1>3, <1>5, <1>25
    <3>3. Count(n, Addrs(f)', next, jn) = has
      BY <3>1, <3>2 DEF Count, has
    <3> QED
      BY <1>3, <2>1, <3>1, <3>3 DEF Needs
  <2>2. CASE m # 0
    <3>1. next = "alloc" \/ (next = "chunk" /\ has = will)
      BY <1>3, <2>2
    <3>2. jn.idx = has /\ jn.will = will
      BY <1>15, <2>2
    <3> HIDE DEF next
    <3> QED
      BY <3>1, <3>2 DEF Count, Needs, Writing, Allocates, Fills
  <2> QED
    BY <2>1, <2>2
<1>28. Shape(n, Addrs(f)', next, jn)
  <2>1. Addrs(f)'[0] # 0
    BY <1>3, <1>5, <1>25
  <2>2. n < BlockSize * Total
    BY <1>2 DEF Shape
  <2> HIDE DEF next
  <2> QED
    BY <1>25, <1>26, <1>27, <2>1, <2>2 DEF Shape
<1>29. next \in Writing => Call(n, Addrs(f)', next, jn, table[sect'[f][Direct]])
  <2> SUFFICES ASSUME next \in Writing
               PROVE  Call(n, Addrs(f)', next, jn, table[sect'[f][Direct]])
    OBVIOUS
  <2>1. m # 0 /\ jn.left = m /\ jn.idx = has /\ jn.will = will /\ jn.all = all
    BY <1>15 DEF Writing, Allocates, Fills
  <2>2. m > 0
    BY <2>1
  <2>3. next = "alloc" => n \div BlockSize + 1 <= has /\ has < will
    BY <1>3
  <2>4. next # "table"
    OBVIOUS
  <2>5. \A i \in Idx : i < Direct => Addrs(f)'[i] = s[i]
    <3>1. \A i \in Idx : i < Direct => i \in 0..Direct /\ i # Direct /\ i # Total /\ i \in Slots
      BY DataAssumption DEF Idx, Slots
    <3> QED
      BY <1>11, <1>16, <3>1 DEF Addrs
  <2>6. \A i \in Idx : ~ (i < Direct) => all[i] = Addrs(f)'[i]
    <3>1. \A i \in Idx : ~ (i < Direct) => i # 0 /\ i # Total /\ i \in Slots
      BY DataAssumption DEF Idx, Slots
    <3> QED
      BY <1>14, <1>20, <3>1
  <2>7. \A i \in Idx : n \div BlockSize <= i /\ i < has => all[i] = Addrs(f)'[i]
    <3>1. \A i \in Idx : n \div BlockSize <= i /\ i < has => i = has - 1
      BY <1>3 DEF Idx
    <3> QED
      BY <1>3, <1>14, <2>5, <2>6, <3>1
  <2>8. \A i \in Idx : i < Direct => all[i] \in {0, Addrs(f)'[i]}
    BY <1>14, <2>5
  <2>9. \A i \in Idx : Direct <= i /\ i <= n \div BlockSize =>
          table[sect'[f][Direct]][i] = all[i]
    <3> SUFFICES ASSUME NEW i \in Idx, Direct <= i, i <= n \div BlockSize
                 PROVE  table[sect'[f][Direct]][i] = all[i]
      OBVIOUS
    <3>1. ~ (i < Direct) /\ ~grow
      BY <1>3, DataAssumption DEF Idx
    <3>2. sect'[f][Direct] = sect[f][Direct]
      BY <1>2, <1>11, <1>16, <3>1
    <3>3. table[sect[f][Direct]][i] = a[i]
      BY <1>2, TableSeen
    <3> QED
      BY <1>14, <3>1, <3>2, <3>3
  <2>10. n + m <= BlockSize * Total /\ will = (n + m) \div BlockSize + 1
    BY <1>1 DEF will
  <2> HIDE DEF next
  <2> QED
    BY <1>27, <2>1, <2>2, <2>3, <2>4, <2>7, <2>8, <2>9, <2>10 DEF Call
<1>30. Stored(f, n, Addrs(f)', next, jn, disk)
  <2>1. Filled(n, next, jn) = n /\ Filled(n, "none", job[p]) = n
    BY DEF Filled
  <2> SUFFICES ASSUME NEW x \in 0..n - 1
               PROVE  disk[Addrs(f)'[x \div BlockSize]][x % BlockSize] = <<f, x>>
    <3> HIDE DEF next
    <3> QED
      BY <2>1 DEF Stored
  <2>2. disk[a[x \div BlockSize]][x % BlockSize] = <<f, x>>
    BY <1>2, <2>1 DEF Stored
  <2>3. x \div BlockSize \in Idx /\ a[x \div BlockSize] # 0
    BY <1>2, BytePlace
  <2> QED
    BY <1>24, <2>2, <2>3
<1>31. FileOK(f)'
  <2>1. job'[writer'[f]] = jn /\ size'[f] = n
    BY <1>1, <1>2, <1>16
  <2>2. panic' = "none" /\ next \in Writing => jn.will <= Total
    <3>1. next \in Writing => jn.will = will
      BY <1>15 DEF Writing, Allocates, Fills
    <3> QED
      BY <1>3, <1>13, <3>1, DataAssumption
  <2> HIDE DEF next
  <2> QED
    BY <1>1, <1>18, <1>28, <1>29, <1>30, <2>1, <2>2 DEF FileOK
<1>32. ProcOK(p)'
  <2>1. Got(f, last'[p])
    BY <1>16 DEF Got, NoRead
  <2>2. job'[p].op \notin {"read", "first"}
    BY <1>15, <1>16
  <2> QED
    BY <1>17, <1>21, <2>1, <2>2, WriterProc
<1>33. table'[0] = NoAddr /\ size[f] <= size'[f] /\ panic' # "sector"
  BY <1>1, <1>2, <1>13 DEF IInv
<1> HIDE DEF next, un, grow
<1> QED
  BY <1>17, <1>22, <1>23, <1>24, <1>31, <1>32, <1>33, WriterStep

\* An empty file gets its first block, and the call waits.
LEMMA FirstStep ==
  ASSUME IInv, panic = "none", NEW p \in Procs, NEW m \in Nat, NEW f \in Files, f = of[p],
         job[p].op = "none", size[f] + m <= BlockSize * Total, sect[f][0] = 0, Available(bits),
         bits' = bits \cup {block_bitmap_alloc(bits)},
         sect' = [sect EXCEPT ![f][0] = block_bitmap_alloc(bits)],
         job' = [job EXCEPT ![p] = [NoJob EXCEPT !.op = "first", !.left = m]],
         last' = [last EXCEPT ![p] = NoRead],
         UNCHANGED <<size, disk, table, of, going, pos, panic>>,
         writer' = [writer EXCEPT ![f] = p],
         \A q \in Procs \ {p} : of[q] = f => job[q].op \notin InWrite
  PROVE  IInv'
<1> DEFINE n == size[f]
           a == Addrs(f)
           b == block_bitmap_alloc(bits)
           jn == [NoJob EXCEPT !.op = "first", !.left = m]
<1>1. /\ Phase(f) \notin Writing /\ n \in Nat /\ sect[f] \in [0..Direct -> Addr]
      /\ Shape(n, a, "none", job[p])
  <2>1. writer[f] \in Procs /\ FileOK(f)
    BY DEF IInv, TypeOK
  <2>2. Phase(f) \notin Writing
    BY <2>1 DEF Phase, InWrite, Writing, Allocates, Fills
  <2> QED
    BY <2>1, <2>2, Idle DEF IInv, TypeOK
<1>2. b \in Blocks /\ b \notin bits /\ b # 0 /\ b \in Addr
  <2>1. b \in Blocks \ bits
    BY AllocFree
  <2> QED
    BY <2>1, DataAssumption DEF Addr
<1>3. /\ jn \in JobT /\ jn.op = "first" /\ jn.left = m
  BY NoJobType DEF JobT
<1> HIDE DEF jn, b
<1>4. 0 \in 0..Direct /\ 0 \in 0..Direct - 1 /\ 0 \in Idx /\ 0 \in Slots /\ 0 # Total
      /\ 0 # Direct /\ Direct \in 0..Direct /\ Total \in Slots /\ 0 < Direct /\ 0 \div BlockSize = 0
  BY DataAssumption DEF Idx, Slots
<1>5. a[0] = 0 /\ n = 0
  BY <1>1, <1>4, AddrsAt DEF Shape
<1>6. \A i \in Slots : a[i] = 0
  <2>1. Count(n, a, "none", job[p]) = 0 /\ Needs(n, a, "none", job[p]) = 0
    BY <1>5 DEF Count, Needs, Writing, Allocates, Fills
  <2>2. \A i \in Idx : ~ (i < 0)
    BY DEF Idx
  <2>3. ~ (0 > Direct)
    BY DataAssumption
  <2>4. Slots = Idx \cup {Total}
    BY AddrsAt
  <2> QED
    BY <1>1, <2>1, <2>2, <2>3, <2>4 DEF Shape
<1>7. /\ job'[p] = jn /\ last'[p] = NoRead
      /\ \A q \in Procs \ {p} : job'[q] = job[q] /\ last'[q] = last[q]
      /\ sect'[f][0] = b /\ \A i \in 0..Direct : i # 0 => sect'[f][i] = sect[f][i]
      /\ \A g \in Files \ {f} : sect'[g] = sect[g]
      /\ writer'[f] = p /\ \A g \in Files \ {f} : writer'[g] = writer[g]
  BY <1>1, <1>4 DEF IInv, TypeOK, jn, b
<1>8. WriterAt(p, f)
  BY <1>7 DEF WriterAt
<1>9. Phase(f)' = "first" /\ "first" \notin Writing /\ "first" \notin Allocates
  BY <1>3, <1>7, <1>8, WriterPhase DEF Writing, Allocates, Fills
<1>10. ASSUME NEW i \in Slots
       PROVE  Addrs(f)'[i] = IF i = 0 THEN b ELSE a[i]
  <2>1. sect'[f][Direct] = sect[f][Direct]
    BY <1>4, <1>7
  <2>2. TableOf(f)' = TableOf(f)
    BY <1>1, <1>9, <2>1 DEF TableOf, Writing
  <2>3. i < Direct => i \in 0..Direct
    BY DataAssumption DEF Slots
  <2> QED
    BY <1>4, <1>7, <2>1, <2>2, <2>3 DEF Addrs
<1>11. TypeOK'
  <2>1. sect' \in [Files -> [0..Direct -> Addr]]
    BY <1>2 DEF IInv, TypeOK, b
  <2>2. last' \in [Procs -> [start : Nat, got : Seq(Byte)]]
    BY DEF IInv, TypeOK, NoRead
  <2>3. bits' \in SUBSET Blocks /\ going' \subseteq bits'
    BY <1>2 DEF IInv, TypeOK, b
  <2>4. writer' \in [Files -> Procs] /\ job' \in [Procs -> JobT]
    BY <1>3 DEF IInv, TypeOK, jn
  <2> QED
    BY <2>1, <2>2, <2>3, <2>4 DEF IInv, TypeOK
<1>12. Exact(AddrMap, bits \ going)'
  <2> DEFINE M == AddrMap
             N == AddrMap'
             u == bits \ going
  <2>1. M \in [Files -> AddrsT] /\ \A g \in Files : M[g] = Addrs(g)
    BY AddrsType DEF IInv, AddrMap
  <2>2. N \in [Files -> AddrsT] /\ \A g \in Files : N[g] = Addrs(g)'
    <3>1. \A g \in Files : Addrs(g)' \in AddrsT
      <4>1. Addrs(f)' \in AddrsT
        <5>1. a \in AddrsT
          BY <2>1
        <5>2. \A i \in Slots : Addrs(f)'[i] \in Addr
          BY <1>2, <1>10, <5>1 DEF AddrsT
        <5> QED
          BY <5>2 DEF Addrs, AddrsT
      <4> QED
        BY <1>8, <2>1, <4>1, WriterOthers DEF IInv
    <3> QED
      BY <3>1 DEF AddrMap
  <2>3. M[f][0] = 0 /\ N[f][0] = b
    BY <1>4, <1>5, <1>10, <2>1, <2>2
  <2>4. \A g \in Files : \A i \in Slots : (g # f \/ i # 0) => N[g][i] = M[g][i]
    BY <1>8, <1>10, <2>1, <2>2, WriterOthers DEF IInv
  <2>5. Exact(M, u) /\ b \notin u
    BY <1>2 DEF IInv
  <2>6. bits' \ going' = u \cup {b}
    BY <1>2 DEF IInv, TypeOK, b
  <2> DEFINE z == 0
  <2>7. /\ z \in Slots /\ M[f][z] = 0 /\ N[f][z] = b
        /\ \A g \in Files : \A i \in Slots : (g # f \/ i # z) => N[g][i] = M[g][i]
    BY <1>4, <2>3, <2>4
  <2> HIDE DEF M, N, u, z
  <2>8. Exact(N, u \cup {b})
    BY <1>2, <2>1, <2>2, <2>5, <2>7, ExactSet
  <2> QED
    BY <2>6, <2>8 DEF N, Exact
<1>13. FileOK(f)'
  <2>1. Addrs(f)'[0] = b /\ \A i \in Slots : i # 0 => Addrs(f)'[i] = 0
    BY <1>4, <1>6, <1>10
  <2>2. Count(n, Addrs(f)', "first", jn) = 1 /\ Needs(n, Addrs(f)', "first", jn) = 1
    BY <1>2, <1>4, <1>5, <1>9, <2>1 DEF Count, Needs
  <2>3. \A i \in Idx : i \in Slots /\ (i < 1 <=> i = 0)
    BY DataAssumption DEF Idx, Slots
  <2>4. ~ (1 > Direct) /\ 0 < BlockSize * Total
    BY DataAssumption
  <2>5. Shape(n, Addrs(f)', "first", jn)
    BY <1>2, <1>4, <1>5, <2>1, <2>2, <2>3, <2>4 DEF Shape
  <2>6. Stored(f, n, Addrs(f)', "first", jn, disk)
    BY <1>5 DEF Stored, Filled
  <2> QED
    BY <1>7, <1>9, <2>5, <2>6 DEF FileOK
<1>14. ProcOK(p)'
  <2>1. pos[p] <= size[f] \/ pos[p] = Width - 1
    BY DataAssumption DEF IInv, ProcOK
  <2>2. /\ of'[p] = f /\ f # NULL /\ size'[f] = 0 /\ Addrs(f)'[0] # 0
        /\ m <= BlockSize * Total
    BY <1>2, <1>4, <1>5, <1>10, DataAssumption
  <2>3. Addrs(of[p])' = Addrs(f)'
    BY DEF Addrs, TableOf, Phase
  <2>4. Got(f, NoRead)
    BY DEF Got, NoRead
  <2> QED
    BY <1>3, <1>5, <1>7, <2>1, <2>2, <2>3, <2>4 DEF ProcOK, Writing, Allocates, Fills
<1>15. table'[0] = NoAddr /\ size[f] <= size'[f] /\ panic' # "sector"
  BY <1>1 DEF IInv
<1>16. \A i \in Idx : a[i] # 0 => Addrs(f)'[i] = a[i]
  BY <1>6, AddrsAt
<1> QED
  BY <1>8, <1>11, <1>12, <1>13, <1>14, <1>15, <1>16, WriterStep

\* file_write, when no other call of it to the file is in progress.
LEMMA WriteStep ==
  ASSUME IInv, panic = "none", NEW p \in Procs, NEW m \in Nat, file_write(p, m), ~overlap'
  PROVE  IInv'
<1>1. /\ job[p].op = "none" /\ of[p] # NULL /\ size[of[p]] + m <= BlockSize * Total
      /\ writer' = [writer EXCEPT ![of[p]] = p]
      /\ \A q \in Procs \ {p} : of[q] = of[p] => job[q].op \notin InWrite
      /\ UNCHANGED <<size, disk, table, of, going>>
  BY DEF file_write, Free
<1>2. CASE sect[of[p]][0] # 0
  BY <1>1, <1>2, CollectStep DEF file_write
<1>3. CASE sect[of[p]][0] = 0
  <2>1. PICK f \in Files : f = of[p]
    BY <1>1 DEF IInv, TypeOK
  <2> QED
    BY <1>1, <1>3, <2>1, FirstStep DEF file_write
<1> QED
  BY <1>2, <1>3

\* The call goes on after its first block.
LEMMA FirstBlockStep ==
  ASSUME IInv, panic = "none", NEW p \in Procs, first_block(p)
  PROVE  IInv'
<1>1. /\ job[p].op = "first" /\ Collect(p, job[p].left)
      /\ UNCHANGED <<size, disk, table, of, going, writer>>
  BY DEF first_block
<1>2. job[p].left \in Nat
  BY DEF IInv, TypeOK, JobT
<1>3. PICK f \in Files : f = of[p] /\ f # NULL
  BY <1>1, DataAssumption DEF IInv, TypeOK, ProcOK
<1>4. writer[f] = p /\ size[f] = 0 /\ Addrs(f)[0] # 0 /\ job[p].left <= BlockSize * Total
  BY <1>1, <1>3 DEF IInv, ProcOK, InWrite
<1>5. sect[f][0] # 0
  <2>1. 0 \in 0..Direct - 1
    BY DataAssumption
  <2> QED
    BY <1>4, <2>1, AddrsAt
<1>6. writer' = [writer EXCEPT ![of[p]] = p]
  BY <1>1, <1>3, <1>4 DEF IInv, TypeOK
<1>7. \A q \in Procs \ {p} : of[q] = of[p] => job[q].op \notin InWrite
  BY <1>3, <1>4 DEF IInv, ProcOK
<1>8. size[of[p]] + job[p].left <= BlockSize * Total
  BY <1>2, <1>3, <1>4
<1> QED
  BY <1>1, <1>2, <1>3, <1>5, <1>6, <1>7, <1>8, CollectStep

----------------------------------------------------------------------------
(* The step that gives the blocks of a file back.                          *)

\* inode_release clears the addresses of its file and touches no block of
\* another.
LEMMA ReleaseStep ==
  ASSUME IInv, panic = "none", NEW f \in Files, inode_release(f)
  PROVE  IInv'
<1> DEFINE R == Reached(f)
<1>1. /\ \A p \in Procs : of[p] # f
      /\ going' = going \cup R
      /\ size' = [size EXCEPT ![f] = 0]
      /\ sect' = [sect EXCEPT ![f] = [i \in 0..Direct |-> 0]]
      /\ disk' = [b \in DOMAIN disk |-> IF b \in R THEN Empty ELSE disk[b]]
      /\ table' = [b \in DOMAIN table |-> IF b \in R THEN NoAddr ELSE table[b]]
      /\ UNCHANGED <<bits, of, pos, job, last, writer, panic>>
  BY DEF inode_release
<1>2. /\ \A g \in Files : Phase(g)' = Phase(g)
      /\ Phase(f) = "none"
      /\ "none" \notin Writing /\ "none" \notin Allocates
  <2>1. writer[f] \in Procs
    BY DEF IInv, TypeOK
  <2> QED
    BY <1>1, <2>1 DEF Phase, Writing, Allocates, Fills
<1>3. R = {Addrs(f)[i] : i \in Slots} \ {0}
  BY <1>2, ReachedAddrs DEF IInv
<1> HIDE DEF R
<1>4. DOMAIN disk = Addr /\ DOMAIN table = Addr /\ 0 \in Addr /\ 0 \notin R
  BY <1>3 DEF IInv, TypeOK, Addr
<1>5. table'[0] = NoAddr
  BY <1>1, <1>4 DEF IInv
<1>6. TypeOK'
  <2>1. NoAddr \in [Idx -> Addr] /\ Empty \in [Bytes -> Byte]
    BY <1>4 DEF NoAddr, Empty, Byte
  <2>2. disk' \in [Addr -> [Bytes -> Byte]] /\ table' \in [Addr -> [Idx -> Addr]]
    BY <1>1, <1>4, <2>1 DEF IInv, TypeOK
  <2>3. [i \in 0..Direct |-> 0] \in [0..Direct -> Addr]
    BY <1>4
  <2>4. size' \in [Files -> Nat] /\ sect' \in [Files -> [0..Direct -> Addr]]
    BY <1>1, <2>3 DEF IInv, TypeOK
  <2>5. R \subseteq bits
    <3>1. ASSUME NEW b \in R PROVE b \in bits
      <4>1. PICK i \in Slots : b = Addrs(f)[i] /\ b # 0
        BY <1>3
      <4>2. b \in Blocks
        BY <4>1, AddrsType DEF IInv, AddrsT, Addr
      <4> QED
        BY <4>1, <4>2 DEF IInv, Exact, AddrMap
    <3> QED
      BY <3>1
  <2> QED
    BY <1>1, <2>2, <2>4, <2>5 DEF IInv, TypeOK
<1>7. ASSUME NEW i \in Slots
      PROVE  Addrs(f)'[i] = 0
  <2>1. sect'[f] = [k \in 0..Direct |-> 0] /\ Direct \in 0..Direct
    BY <1>1, DataAssumption DEF IInv, TypeOK
  <2>2. TableOf(f)' = NoAddr
    BY <1>2, <1>5, <2>1 DEF TableOf
  <2>3. i # Total => i \in Idx
    BY AddrsAt
  <2>4. i < Direct => i \in 0..Direct
    BY DataAssumption DEF Slots
  <2> QED
    BY <2>1, <2>2, <2>3, <2>4 DEF Addrs, NoAddr
<1>8. ASSUME NEW g \in Files, g # f, NEW i \in Slots, Addrs(g)[i] # 0
      PROVE  Addrs(g)[i] \in Addr /\ Addrs(g)[i] \notin R
  <2>1. Addrs(g)[i] \in Addr
    BY AddrsType DEF IInv, AddrsT
  <2>2. \A k \in Slots : Addrs(f)[k] # Addrs(g)[i]
    BY <1>8 DEF IInv, Exact, AddrMap
  <2> QED
    BY <1>3, <2>1, <2>2
(* The other files keep what they have. *)
<1>9. ASSUME NEW g \in Files, g # f
      PROVE  /\ sect'[g] = sect[g] /\ size'[g] = size[g]
             /\ table'[sect'[g][Direct]] = table[sect[g][Direct]]
             /\ Addrs(g)' = Addrs(g)
             /\ \A i \in Idx : Addrs(g)[i] # 0 => disk'[Addrs(g)[i]] = disk[Addrs(g)[i]]
  <2>1. sect'[g] = sect[g] /\ size'[g] = size[g]
    BY <1>1, <1>9 DEF IInv, TypeOK
  <2>2. Addrs(g)[Total] = sect[g][Direct] /\ Total \in Slots /\ Idx \subseteq Slots
    BY AddrsAt
  <2>3. sect[g][Direct] \in Addr /\ sect[g][Direct] \notin R
    BY <1>4, <1>8, <1>9, <2>2
  <2>4. table'[sect[g][Direct]] = table[sect[g][Direct]]
    BY <1>1, <1>4, <2>3
  <2>5. Addrs(g)' = Addrs(g)
    BY <1>1, <1>2, <2>1, <2>4, SameAddrs
  <2>6. ASSUME NEW i \in Idx, Addrs(g)[i] # 0
        PROVE  disk'[Addrs(g)[i]] = disk[Addrs(g)[i]]
    <3>1. Addrs(g)[i] \in Addr /\ Addrs(g)[i] \notin R
      BY <1>8, <1>9, <2>2, <2>6
    <3> QED
      BY <1>1, <1>4, <3>1
  <2> QED
    BY <2>1, <2>4, <2>5, <2>6
<1>10. Exact(AddrMap, bits \ going)'
  <2> DEFINE M == AddrMap
             N == AddrMap'
  <2>1. M \in [Files -> AddrsT] /\ \A g \in Files : M[g] = Addrs(g)
    BY AddrsType DEF IInv, AddrMap
  <2>2. N \in [Files -> AddrsT] /\ \A g \in Files : N[g] = Addrs(g)'
    <3>1. Addrs(f)' \in AddrsT
      BY <1>4, <1>7 DEF AddrsT, Addrs
    <3>2. \A g \in Files : Addrs(g)' \in AddrsT
      BY <1>9, <2>1, <3>1
    <3> QED
      BY <3>2 DEF AddrMap
  <2>3. Exact(M, bits \ going)
    BY DEF IInv
  <2>4. bits' \ going' = (bits \ going) \ {M[f][i] : i \in Slots}
    <3>1. 0 \notin bits
      BY DataAssumption DEF IInv, TypeOK
    <3> QED
      BY <1>1, <1>3, <2>1, <3>1
  <2>5. /\ \A i \in Slots : N[f][i] = 0
        /\ \A g \in Files : g # f => \A i \in Slots : N[g][i] = M[g][i]
    BY <1>7, <1>9, <2>1, <2>2
  <2> HIDE DEF M, N
  <2>6. Exact(N, (bits \ going) \ {M[f][i] : i \in Slots})
    <3> DEFINE u == bits \ going
    <3>1. Exact(M, u)
      BY <2>3
    <3> HIDE DEF u
    <3>2. Exact(N, u \ {M[f][i] : i \in Slots})
      BY <2>1, <2>2, <2>5, <3>1, ExactClear
    <3> QED
      BY <3>2 DEF u
  <2> QED
    BY <2>4, <2>6 DEF Exact, N
<1>11. FileOK(f)'
  <2> DEFINE a == Addrs(f)'
             j == job'[writer'[f]]
  <2>1. size'[f] = 0 /\ Phase(f)' = "none"
    BY <1>1, <1>2 DEF IInv, TypeOK
  <2>2. /\ 0 \in Slots /\ Total \in Slots /\ 0 < BlockSize * Total /\ ~ (0 > Direct)
        /\ \A i \in Idx : i \in Slots /\ ~ (i < 0)
    BY DataAssumption DEF Slots, Idx
  <2>3. Count(0, a, "none", j) = 0 /\ Needs(0, a, "none", j) = 0
    BY <1>2, <1>7, <2>2 DEF Count, Needs
  <2>4. Shape(0, a, "none", j)
    BY <1>7, <2>2, <2>3 DEF Shape
  <2>5. Stored(f, 0, a, "none", j, disk')
    BY DEF Stored, Filled
  <2> QED
    BY <1>2, <2>1, <2>4, <2>5 DEF FileOK
<1>12. ASSUME NEW g \in Files
       PROVE  FileOK(g)'
  <2>1. CASE g = f
    BY <1>11, <2>1
  <2>2. CASE g # f
    BY <1>1, <1>2, <1>9, <2>2, FileKept
  <2> QED
    BY <2>1, <2>2
<1>13. ASSUME NEW q \in Procs
       PROVE  ProcOK(q)'
  <2>1. of[q] # f /\ (of[q] # NULL => of[q] \in Files)
    BY <1>1 DEF IInv, TypeOK
  <2>2. of[q] # NULL =>
          /\ size'[of[q]] = size[of[q]] /\ size[of[q]] \in Nat
          /\ Addrs(of[q])' = Addrs(of[q])
    <3>1. \A g \in Files : g # f => size'[g] = size[g] /\ Addrs(g)' = Addrs(g)
      BY <1>9
    <3>2. \A g \in Files : size[g] \in Nat
      BY DEF IInv, TypeOK
    <3> QED
      BY <1>1, <2>1, <3>1, <3>2 DEF Addrs, TableOf, Phase
  <2>3. job[q].op \in InWrite => writer'[of[q]] = q
    BY <1>1 DEF IInv, ProcOK
  <2> QED
    BY <1>1, <2>2, <2>3, ProcKept
<1> QED
  BY <1>1, <1>5, <1>6, <1>10, <1>12, <1>13 DEF IInv

\* Nor does it touch one when it gives a block back.
LEMMA ReleaseBlockStep ==
  ASSUME IInv, panic = "none", NEW b \in Blocks, release_block(b)
  PROVE  IInv'
<1>1. /\ b \in going /\ bits' = bits \ {b} /\ going' = going \ {b}
      /\ UNCHANGED <<size, sect, disk, table, of, pos, job, last, writer, panic>>
  BY DEF release_block
<1>2. TypeOK' /\ table'[0] = NoAddr /\ panic' # "sector"
  BY <1>1 DEF IInv, TypeOK
<1>3. \A f \in Files : Phase(f)' = Phase(f) /\ Addrs(f)' = Addrs(f)
  BY <1>1 DEF Phase, TableOf, Addrs
<1>4. Exact(AddrMap, bits \ going)'
  <2>1. bits' \ going' = bits \ going /\ AddrMap' = AddrMap
    BY <1>1, <1>3, SameMap
  <2>2. Exact(AddrMap, bits \ going)
    BY DEF IInv
  <2> QED
    BY <2>1, <2>2 DEF Exact
<1>5. \A f \in Files : FileOK(f)'
  BY <1>1, <1>3 DEF IInv, FileOK
<1>6. ASSUME NEW p \in Procs PROVE ProcOK(p)'
  <2>1. ProcOK(p)
    BY DEF IInv
  <2>2. Addrs(of[p])' = Addrs(of[p])
    BY <1>1 DEF Phase, TableOf, Addrs
  <2> QED
    BY <1>1, <2>1, <2>2 DEF ProcOK
<1> QED
  BY <1>2, <1>4, <1>5, <1>6 DEF IInv

----------------------------------------------------------------------------
(* The theorems.                                                           *)

\* Every step of every process preserves the invariant, until two calls of
\* file_write to one file overlap.
LEMMA NextInv ==
  ASSUME overlap \/ IInv, [Next]_vars, ~overlap'
  PROVE  IInv'
<1>0. ~overlap /\ IInv
  BY DEF Next, vars
<1>1. CASE UNCHANGED vars
  <2>1. UNCHANGED <<size, sect, bits, disk, table, of, pos, job, last, going, writer, panic>>
    BY <1>1 DEF vars
  <2>2. \A f \in Files : Phase(f)' = Phase(f) /\ Addrs(f)' = Addrs(f)
    BY <2>1 DEF Phase, TableOf, Addrs
  <2>3. TypeOK' /\ table'[0] = NoAddr /\ panic' # "sector"
    BY <1>0, <2>1 DEF IInv, TypeOK
  <2>4. Exact(AddrMap, bits \ going)'
    BY <1>0, <2>1, <2>2, SameMap DEF IInv, Exact
  <2>5. \A f \in Files : FileOK(f)'
    BY <1>0, <2>1, <2>2 DEF IInv, FileOK
  <2>6. ASSUME NEW p \in Procs PROVE ProcOK(p)'
    <3>1. ProcOK(p)
      BY <1>0 DEF IInv
    <3>2. Addrs(of[p])' = Addrs(of[p])
      BY <2>1 DEF Phase, TableOf, Addrs
    <3> QED
      BY <2>1, <3>1, <3>2 DEF ProcOK
  <2> QED
    BY <2>3, <2>4, <2>5, <2>6 DEF IInv
<1>2. CASE Next
  <2>1. panic = "none"
    BY <1>2 DEF Next
  <2>2. ASSUME NEW p \in Procs, NEW f \in Uses[p], sys_open(p, f)
        PROVE  IInv'
    BY <1>0, <2>1, <2>2, OpenStep
  <2>3. ASSUME NEW p \in Procs, sys_close(p)
        PROVE  IInv'
    BY <1>0, <2>1, <2>3, CloseStep
  <2>4. ASSUME NEW p \in Procs, NEW new \in Seeks, sys_lseek(p, new)
        PROVE  IInv'
    BY <1>0, <2>1, <2>4, SeekStep
  <2>5. ASSUME NEW p \in Procs, NEW n \in UNION {Writes[f] : f \in Files}, file_write(p, n)
        PROVE  IInv'
    <3>1. n \in Nat
      BY DataAssumption
    <3> QED
      BY <1>0, <2>1, <2>5, <3>1, WriteStep
  <2>6. ASSUME NEW p \in Procs, NEW n \in Reads, file_read(p, n)
        PROVE  IInv'
    BY <1>0, <2>1, <2>6, ReadStep
  <2>7. ASSUME NEW p \in Procs, alloc_block(p)
        PROVE  IInv'
    BY <1>0, <2>1, <2>7, AllocStep
  <2>8. ASSUME NEW p \in Procs, write_table(p)
        PROVE  IInv'
    BY <1>0, <2>1, <2>8, WriteTableStep
  <2>9. ASSUME NEW p \in Procs, write_chunk(p)
        PROVE  IInv'
    BY <1>0, <2>1, <2>9, WriteChunkStep
  <2>10. ASSUME NEW p \in Procs, grow_file(p)
         PROVE  IInv'
    BY <1>0, <2>1, <2>10, GrowStep
  <2>11. ASSUME NEW p \in Procs, read_chunk(p)
         PROVE  IInv'
    BY <1>0, <2>1, <2>11, ReadChunkStep
  <2>12. ASSUME NEW f \in Files, inode_release(f)
         PROVE  IInv'
    BY <1>0, <2>1, <2>12, ReleaseStep
  <2>13. ASSUME NEW p \in Procs, first_block(p)
         PROVE  IInv'
    BY <1>0, <2>1, <2>13, FirstBlockStep
  <2>14. ASSUME NEW b \in Blocks, release_block(b)
         PROVE  IInv'
    BY <1>0, <2>1, <2>14, ReleaseBlockStep
  <2> QED
    BY <1>2, <2>2, <2>3, <2>4, <2>5, <2>6, <2>7, <2>8, <2>9, <2>10, <2>11, <2>12, <2>13, <2>14 DEF Next
<1> QED
  BY <1>1, <1>2

\* In every state of file_write, file_read and inode_release, between any two
\* waits for the disk and until two calls of file_write to one file overlap:
\* the addresses of a file are those of its first blocks and of a table exactly
\* when it needs one, each file_write in progress has the addresses it will
\* write to, each file_read those of the bytes it still has to read, and no
\* file has a block that inode_release is giving back.
THEOREM FilesSound == Spec => [](overlap \/ IInv)
<1>1. Init => IInv
  BY InitInv
<1>2. (overlap \/ IInv) /\ [Next]_vars => (overlap \/ IInv)'
  BY NextInv
<1> QED
  BY <1>1, <1>2, PTL DEF Spec

\* block_bitmap_alloc in file_write and the freeing, one block at a time, in
\* inode_release keep the bitmap exact, until two calls of file_write to one
\* file overlap: whatever other calls are in progress, no block belongs to two
\* files, none that is in use or still to be given back is free, and none is
\* lost.
THEOREM BlocksNeverShared == Spec => []BlocksExact
<1>1. overlap \/ IInv => BlocksExact
  BY IInvBlocks DEF BlocksExact
<1> QED
  BY <1>1, FilesSound, PTL

\* Until then each byte that file_read returns is the one that file_write put
\* at that place of the file, whichever blocks the two calls cross and even
\* when the file is written, or others are deleted, while it is being read.
THEOREM ReadsReturnWritten == Spec => []ReadsBack
<1>1. overlap \/ IInv => ReadsBack
  BY IInvReads DEF ReadsBack
<1> QED
  BY <1>1, FilesSound, PTL

\* Until then the ASSERTs of file_write and file_read about the addresses of a
\* file, that one is there or is not there yet, do not fail.
THEOREM SectorsAlwaysHold == Spec => []SectorsHold
<1>1. overlap \/ IInv => SectorsHold
  BY IInvReads DEF SectorsHold
<1> QED
  BY <1>1, FilesSound, PTL

=============================================================================
