------------------------------ MODULE FileData ------------------------------
(***************************************************************************)
(* The data of files: file_write and file_read of fs/file.c, sys_lseek,    *)
(* and the return of a file's blocks by inode_release.  An inode has       *)
(* Direct block addresses and the address of one table of further ones.    *)
(*                                                                         *)
(* A call gives the CPU away when it waits for the disk; each action is    *)
(* what happens between two waits, and job[p] what p is in the middle of.  *)
(* The byte at position k of file f is <<f, k>>, so a byte that is read    *)
(* from a wrong place is seen.                                             *)
(*                                                                         *)
(* Nothing keeps two processes from writing one file at once: write_deny   *)
(* is cleared by any close of the file, and a forked process shares the    *)
(* descriptor.  overlap records that a file_write began while another one  *)
(* was in the middle of the same file; what follows is not modelled, and   *)
(* the properties speak of the time before.                                *)
(***************************************************************************)
EXTENDS Integers, Sequences, FiniteSets, FiniteSetsExt

CONSTANTS Procs,     \* processes
          Files,
          Uses,      \* bound: the files each process opens
          BlockSize, \* 512 in the code
          Direct,    \* 12: addresses in the inode
          Total,     \* 140: addresses in the inode and in the table
          Width,     \* 2^32: fd_pos is unsigned and wraps around
          Blocks,    \* bound: the blocks of the partition
          Writes,    \* bound: the byte counts of file_write, for each file
          Reads,     \* bound: the byte counts of file_read
          Seeks,     \* bound: the positions sys_lseek is asked for
          NULL

ASSUME DataAssumption ==
  /\ Procs # {}
  /\ Uses \in [Procs -> SUBSET Files]
  /\ BlockSize \in Nat \ {0}
  /\ Direct \in Nat \ {0} /\ Total \in Nat /\ Direct < Total
  /\ Width \in Nat /\ Width > 2 * BlockSize * Total
  /\ Blocks \subseteq Nat \ {0}
  /\ Writes \in [Files -> SUBSET Nat] /\ Reads \subseteq Nat /\ Seeks \subseteq Int
  /\ \A n \in Reads : n + BlockSize * Total < Width
  /\ NULL \notin Files

VARIABLES size,      \* i_size of each file
          sect,      \* i_sectors: 0..Direct, the last one the table; 0 is none
          bits,      \* block_bitmap: the blocks in use
          disk,      \* the bytes of each block
          table,     \* the addresses in each block that is a table
          of,        \* the file a process has open
          pos,       \* its fd_pos
          job,       \* the call it is in
          last,      \* what its last call, if it was file_read, returned
          going,     \* the blocks that inode_release has yet to give back
          writer,    \* history: the last process to write each file
          overlap,   \* history: two calls of file_write to one file overlap
          panic      \* the ASSERT that failed

vars == <<size, sect, bits, disk, table, of, pos, job, last, going, writer, overlap, panic>>

Bytes == 0..BlockSize - 1
Idx == 0..Total - 1
NoAddr == [i \in Idx |-> 0]
NoJob == [op |-> "none", left |-> 0, idx |-> 0, will |-> 0, all |-> NoAddr,
          start |-> 0, got |-> <<>>]
NoRead == [start |-> 0, got |-> <<>>]
Empty == [k \in Bytes |-> NULL]

\* inode_init: a file without data.
Init ==
  /\ size = [f \in Files |-> 0]
  /\ sect = [f \in Files |-> [i \in 0..Direct |-> 0]]
  /\ bits = {}
  /\ disk = [b \in Blocks \cup {0} |-> Empty]
  /\ table = [b \in Blocks \cup {0} |-> NoAddr]
  /\ of = [p \in Procs |-> NULL]
  /\ pos = [p \in Procs |-> 0]
  /\ job = [p \in Procs |-> NoJob]
  /\ last = [p \in Procs |-> NoRead]
  /\ going = {}
  /\ writer = [f \in Files |-> CHOOSE p \in Procs : TRUE]
  /\ overlap = FALSE
  /\ panic = "none"

----------------------------------------------------------------------------
Free(p) == job[p].op = "none"

sys_open(p, f) ==
  /\ Free(p)
  /\ of[p] = NULL
  /\ of' = [of EXCEPT ![p] = f]
  /\ pos' = [pos EXCEPT ![p] = 0]
  /\ UNCHANGED <<size, sect, bits, disk, table, job, last, going, writer, overlap, panic>>

\* sys_close; the position of a file that is not open is shown as 0.
sys_close(p) ==
  /\ Free(p)
  /\ of[p] # NULL
  /\ of' = [of EXCEPT ![p] = NULL]
  /\ pos' = [pos EXCEPT ![p] = 0]
  /\ last' = [last EXCEPT ![p] = NoRead]
  /\ UNCHANGED <<size, sect, bits, disk, table, job, going, writer, overlap, panic>>

\* sys_lseek: only positions inside the file.
sys_lseek(p, new) ==
  /\ Free(p)
  /\ of[p] # NULL
  /\ new \in 0..size[of[p]] - 1
  /\ pos' = [pos EXCEPT ![p] = new]
  /\ last' = [last EXCEPT ![p] = NoRead]
  /\ UNCHANGED <<size, sect, bits, disk, table, of, job, going, writer, overlap, panic>>

----------------------------------------------------------------------------
\* block_bitmap_alloc, when the blocks in S are in use.  When all of them are,
\* the ASSERT in bitmap_scan stops the caller: its actions ask for a free one.
block_bitmap_alloc(S) == Min(Blocks \ S)
Available(S) == Blocks \ S # {}

HasBlocks(f) == size[f] \div BlockSize + 1

\* The steps of a call of file_write.
InWrite == {"first", "alloc", "table", "chunk", "size"}

\* file_write, from the count of the blocks up to its first allocation of a
\* further one: the addresses it goes on with, and the table when the file
\* outgrows the inode.
Collect(p, n) ==
  LET f    == of[p]
      s    == sect[f]
      has  == HasBlocks(f)
      will == (size[f] + n) \div BlockSize + 1
      grow == has <= Direct /\ will > Direct
      t    == block_bitmap_alloc(bits)
      all  == IF has > Direct
              THEN [i \in Idx |-> IF i < Direct THEN 0 ELSE table[s[Direct]][i]]
              ELSE [NoAddr EXCEPT ![has - 1] = s[has - 1]]
  IN  /\ grow => Available(bits)
      /\ panic' = CASE will > Total -> "write"
                    [] has > Direct /\ s[Direct] = 0 -> "sector"
                    [] will <= Direct /\ s[has - 1] = 0 -> "sector"
                    [] grow /\ s[Direct] # 0 -> "sector"
                    [] OTHER -> panic
      /\ sect' = IF grow THEN [sect EXCEPT ![f][Direct] = t] ELSE sect
      /\ bits' = IF grow THEN bits \cup {t} ELSE bits
      /\ pos' = [pos EXCEPT ![p] = (size[f] - 1) % Width]
      /\ job' = [job EXCEPT ![p] =
                   IF n = 0 THEN NoJob
                   ELSE [NoJob EXCEPT !.op = IF has < will THEN "alloc" ELSE "chunk",
                                      !.left = n, !.idx = has, !.will = will,
                                      !.all = all]]
      /\ last' = [last EXCEPT ![p] = NoRead]

\* file_write: the first block of an empty file, and a wait for the bitmap to
\* be on the disk; other files go on at once.
file_write(p, n) ==
  LET f == of[p]
      b == block_bitmap_alloc(bits)
  IN  /\ Free(p)
      /\ f # NULL
      /\ n \in Writes[f]
      /\ size[f] + n <= BlockSize * Total
      /\ IF sect[f][0] = 0
         THEN /\ Available(bits)
              /\ bits' = bits \cup {b}
              /\ sect' = [sect EXCEPT ![f][0] = b]
              /\ job' = [job EXCEPT ![p] = [NoJob EXCEPT !.op = "first", !.left = n]]
              /\ last' = [last EXCEPT ![p] = NoRead]
              /\ UNCHANGED <<pos, panic>>
         ELSE Collect(p, n)
      /\ writer' = [writer EXCEPT ![f] = p]
      /\ overlap' = \E q \in Procs : of[q] = f /\ job[q].op \in InWrite
      /\ UNCHANGED <<size, disk, table, of, going>>

\* It goes on with an empty file that has its first block.
first_block(p) ==
  /\ job[p].op = "first"
  /\ Collect(p, job[p].left)
  /\ UNCHANGED <<size, disk, table, of, going, writer, overlap>>

\* One round of the allocation loops; the new address goes to the inode or,
\* with all of them, to the table later.
alloc_block(p) ==
  LET f == of[p]
      j == job[p]
      b == block_bitmap_alloc(bits)
      done == j.idx + 1 = j.will
  IN  /\ j.op = "alloc"
      /\ Available(bits)
      /\ bits' = bits \cup {b}
      /\ sect' = IF j.idx < Direct THEN [sect EXCEPT ![f][j.idx] = b] ELSE sect
      /\ panic' = IF j.idx < Direct /\ sect[f][j.idx] # 0 THEN "sector" ELSE panic
      /\ job' = [job EXCEPT ![p].idx = @ + 1,
                            ![p].all[j.idx] = b,
                            ![p].op = CASE ~done -> "alloc"
                                        [] done /\ j.will > Direct -> "table"
                                        [] OTHER -> "chunk"]
      /\ UNCHANGED <<size, disk, table, of, pos, last, going, writer, overlap>>

\* The table of addresses is written to disk.
write_table(p) ==
  /\ job[p].op = "table"
  /\ table' = [table EXCEPT ![sect[of[p]][Direct]] = job[p].all]
  /\ job' = [job EXCEPT ![p].op = "chunk"]
  /\ UNCHANGED <<size, sect, bits, disk, of, pos, last, going, writer, overlap, panic>>

Chunk(from, left) == Min({left, BlockSize - (from % BlockSize)})

\* Mutant: the last block of the file is not read before it is written.
Mut_write_chunk_blank(p) ==
  LET f == of[p]
      n == size[f]
      off == n % BlockSize
      lba == job[p].all[n \div BlockSize]
      new == [k \in Bytes |-> IF k \in off..off + Chunk(n, job[p].left) - 1
                              THEN <<f, n + k - off>> ELSE NULL]
  IN  /\ job[p].op = "chunk"
      /\ disk' = [disk EXCEPT ![lba] = new]
      /\ job' = [job EXCEPT ![p].op = "size"]
      /\ UNCHANGED <<size, sect, bits, table, of, pos, last, going, writer, overlap, panic>>

\* A block is filled up and written: the first one of the call keeps what it
\* has, the others begin at their first byte.  Bytes after the end of the
\* file are shown as NULL.
write_chunk(p) ==
  LET f == of[p]
      n == size[f]
      off == n % BlockSize
      lba == job[p].all[n \div BlockSize]
      new == [k \in Bytes |-> CASE k < off -> disk[lba][k]
                                [] k \in off..off + Chunk(n, job[p].left) - 1 -> <<f, n + k - off>>
                                [] OTHER -> NULL]
  IN  /\ job[p].op = "chunk"
      /\ disk' = [disk EXCEPT ![lba] = new]
      /\ job' = [job EXCEPT ![p].op = "size"]
      /\ UNCHANGED <<size, sect, bits, table, of, pos, last, going, writer, overlap, panic>>

\* Only then the file grows.  After the last block file_write also writes the
\* inode to the disk (inode_sync), which this module has in memory only.
grow_file(p) ==
  LET f == of[p]
      c == Chunk(size[f], job[p].left)
  IN  /\ job[p].op = "size"
      /\ size' = [size EXCEPT ![f] = @ + c]
      /\ pos' = [pos EXCEPT ![p] = (@ + c) % Width]
      /\ job' = [job EXCEPT ![p] = IF job[p].left = c THEN NoJob
                                   ELSE [job[p] EXCEPT !.left = @ - c, !.op = "chunk"]]
      /\ UNCHANGED <<sect, bits, disk, table, of, last, going, writer, overlap, panic>>

----------------------------------------------------------------------------
\* file_read, up to the first block: what is left of the file, and the
\* addresses of its blocks.
file_read(p, n) ==
  LET f     == of[p]
      m     == IF (pos[p] + n) % Width > size[f] THEN (size[f] - pos[p]) % Width ELSE n
      start == pos[p] \div BlockSize
      end   == ((pos[p] + m) % Width) \div BlockSize
      all   == [i \in Idx |-> CASE i < Direct /\ i \in start..end -> sect[f][i]
                                [] i >= Direct /\ end >= Direct -> table[sect[f][Direct]][i]
                                [] OTHER -> 0]
      fails == ~(start < Total - 1 /\ end < Total - 1)
  IN  /\ Free(p)
      /\ f # NULL
      /\ m > 0
      /\ panic' = CASE fails -> "read"
                    [] ~fails /\ start # end /\ end >= Direct /\ sect[f][Direct] = 0 -> "sector"
                    [] OTHER -> panic
      /\ job' = [job EXCEPT ![p] = IF fails THEN NoJob
                                   ELSE [NoJob EXCEPT !.op = "read", !.left = m,
                                                      !.all = all, !.start = pos[p]]]
      /\ last' = [last EXCEPT ![p] = NoRead]
      /\ UNCHANGED <<size, sect, bits, disk, table, of, pos, going, writer, overlap>>

\* One block is read, and the call returns with the last one.
read_chunk(p) ==
  LET j   == job[p]
      c   == Chunk(pos[p], j.left)
      off == pos[p] % BlockSize
      lba == j.all[pos[p] \div BlockSize]
      got == j.got \o [k \in 1..c |-> disk[lba][off + k - 1]]
  IN  /\ j.op = "read"
      /\ pos' = [pos EXCEPT ![p] = @ + c]
      /\ IF j.left = c
         THEN /\ last' = [last EXCEPT ![p] = [start |-> j.start, got |-> got]]
              /\ job' = [job EXCEPT ![p] = NoJob]
         ELSE /\ job' = [job EXCEPT ![p].left = @ - c, ![p].got = got]
              /\ UNCHANGED last
      /\ UNCHANGED <<size, sect, bits, disk, table, of, going, writer, overlap, panic>>

----------------------------------------------------------------------------
\* The blocks a file reaches: its own, its table, and those in the table.
Reached(f) ==
  LET t == sect[f][Direct]
  IN  ({sect[f][i] : i \in 0..Direct} \cup
       (IF t = 0 THEN {} ELSE {table[t][i] : i \in Direct..Total - 1})) \ {0}

\* Mutant: the block of the table itself is not given back.
Mut_release_keeps_table(f) ==
  /\ \A p \in Procs : of[p] # f
  /\ going' = going \cup (Reached(f) \ {sect[f][Direct]})
  /\ size' = [size EXCEPT ![f] = 0]
  /\ sect' = [sect EXCEPT ![f] = [i \in 0..Direct |-> 0]]
  /\ disk' = [b \in DOMAIN disk |-> IF b \in Reached(f) THEN Empty ELSE disk[b]]
  /\ table' = [b \in DOMAIN table |-> IF b \in Reached(f) THEN NoAddr ELSE table[b]]
  /\ UNCHANGED <<bits, of, pos, job, last, writer, overlap, panic>>

\* Mutant: the new inode keeps the addresses of the old one.
Mut_release_keeps_sectors(f) ==
  /\ \A p \in Procs : of[p] # f
  /\ going' = going \cup Reached(f)
  /\ size' = [size EXCEPT ![f] = 0]
  /\ UNCHANGED <<sect, bits, disk, table, of, pos, job, last, writer, overlap, panic>>

\* inode_release of a file nobody has open collects its blocks; the directory
\* has no entry of it any more, and f stands for a new file.  What a block
\* that is being given back or is free contains is not told apart: it is shown
\* as empty.
inode_release(f) ==
  /\ \A p \in Procs : of[p] # f
  /\ going' = going \cup Reached(f)
  /\ size' = [size EXCEPT ![f] = 0]
  /\ sect' = [sect EXCEPT ![f] = [i \in 0..Direct |-> 0]]
  /\ disk' = [b \in DOMAIN disk |-> IF b \in Reached(f) THEN Empty ELSE disk[b]]
  /\ table' = [b \in DOMAIN table |-> IF b \in Reached(f) THEN NoAddr ELSE table[b]]
  /\ UNCHANGED <<bits, of, pos, job, last, writer, overlap, panic>>

\* It gives them back one by one, with a wait for the disk after each.
release_block(b) ==
  /\ b \in going
  /\ bits' = bits \ {b}
  /\ going' = going \ {b}
  /\ UNCHANGED <<size, sect, disk, table, of, pos, job, last, writer, overlap, panic>>

Next ==
  /\ panic = "none" /\ ~overlap
  /\ \/ \E p \in Procs :
          \/ \E f \in Uses[p] : sys_open(p, f)
          \/ sys_close(p)
          \/ \E new \in Seeks : sys_lseek(p, new)
          \/ \E n \in UNION {Writes[f] : f \in Files} : file_write(p, n)
          \/ \E n \in Reads : file_read(p, n)
          \/ first_block(p) \/ alloc_block(p) \/ write_table(p)
          \/ write_chunk(p) \/ grow_file(p)
          \/ read_chunk(p)
     \/ \E f \in Files : inode_release(f)
     \/ \E b \in Blocks : release_block(b)

Spec == Init /\ [][Next]_vars

----------------------------------------------------------------------------
\* Until two calls of file_write to one file overlap, what file_read returns is
\* what was written at that place of the file, also while the file is being
\* written: no byte is lost, repeated or misplaced at the boundaries of blocks
\* and of the table, and none comes from a block that was given back.
ReadsBack ==
  ~overlap =>
    \A p \in Procs : \A k \in 1..Len(last[p].got) :
      last[p].got[k] = <<of[p], last[p].start + k - 1>>

\* The blocks of a file; the table on disk is out of date while file_write
\* allocates.
Allocating(f) == of[writer[f]] = f /\ job[writer[f]].op \in {"alloc", "table"}
Held(f) == IF Allocating(f)
           THEN ({sect[f][i] : i \in 0..Direct} \cup {job[writer[f]].all[i] : i \in Idx}) \ {0}
           ELSE Reached(f)

\* Until then no block belongs to two files, none that inode_release is still
\* giving back belongs to a file, and block_bitmap marks exactly these blocks:
\* none leaks and none is free while it is in use.
BlocksExact ==
  ~overlap =>
    /\ \A f, g \in Files : f # g => Held(f) \cap Held(g) = {}
    /\ \A f \in Files : Held(f) \cap going = {}
    /\ bits = going \cup UNION {Held(f) : f \in Files}

\* Until then file_write and file_read never find an address that should not
\* be there, or none where one should be.
SectorsHold == ~overlap => panic # "sector"

=============================================================================
