------------------------------- MODULE Volume -------------------------------
(***************************************************************************)
(* The way from a disk to a mounted file system and its free blocks:       *)
(* partition_scan of device/ide.c, filesys_init, partition_format and      *)
(* mount_partition of fs/fs.c, block_bitmap_alloc and bitmap_sync of       *)
(* fs/file.c, and the next boot of the same disk.                          *)
(*                                                                         *)
(* There is one disk with partitions, sdb (hd60M.img before it has none).  *)
(* Its tables are what a partitioning tool writes: a chain of extended     *)
(* boot records, each with one logical partition and the next record.  A   *)
(* block is counted from data_start_lba.                                   *)
(***************************************************************************)
EXTENDS Bitmap, Sequences

CONSTANTS Disks,         \* the disks: [prim, logic], see Table
          SectorBytes,   \* SECTOR_SIZE
          InodeSects,    \* sectors of the inode bitmap and the inode table
          MaxPrim,       \* length of prim_parts (4 in the code)
          MaxLogic,      \* length of logic_parts (8 in the code)
          MaxWaiting,    \* bound: the calls of bitmap_sync that wait at once
          NULL

BITS_PER_SECTOR == SectorBytes * ByteBits
DIV_ROUND_UP(x, step) == (x + step - 1) \div step

\* A partition has room for the inodes and for a byte of the block bitmap.
ASSUME VolumeAssumption ==
  /\ SectorBytes \in Nat \ {0} /\ InodeSects \in Nat
  /\ MaxPrim \in Nat \ {0} /\ MaxLogic \in Nat \ {0} /\ MaxWaiting \in Nat
  /\ \A d \in Disks :
       /\ \A i \in 1..Len(d.prim) : d.prim[i].cnt >= 2 + InodeSects + 2 * BITS_PER_SECTOR
       /\ \A i \in 1..Len(d.logic) : d.logic[i].cnt >= 2 + InodeSects + 2 * BITS_PER_SECTOR

VARIABLES hd,            \* the disk
          super,         \* disk: the superblock of each formatted partition
          dbits,         \* disk: its block bitmap
          stack,         \* the calls of partition_scan that are running
          ext_lba_base,
          prim, logic,   \* hd->prim_parts and hd->logic_parts
          partition_list,
          part_idx,      \* of filesys_init, NULL when it is not running
          cur_part,
          bits,          \* memory: the block bitmap of cur_part
          waiting,       \* the blocks whose bitmap_sync waits for the disk
          given,         \* history: the blocks of cur_part in use
          saved,         \* history: those in use when their sector was last written
          panic

disk == <<hd, super, dbits>>
tables == <<ext_lba_base, prim, logic, partition_list>>
blocks == <<bits, waiting, given, saved>>
vars == <<disk, stack, tables, part_idx, cur_part, blocks, panic>>

\* ide_init calls partition_scan for the first sector.
FirstCall == <<[lba |-> 0, idx |-> 1]>>

Init ==
  /\ hd \in Disks
  /\ super = [s \in {} |-> NULL] /\ dbits = [s \in {} |-> NULL]
  /\ stack = FirstCall
  /\ ext_lba_base = 0
  /\ prim = <<>> /\ logic = <<>> /\ partition_list = <<>>
  /\ part_idx = NULL
  /\ cur_part = NULL
  /\ bits = <<>>
  /\ waiting = {}
  /\ given = {0}
  /\ saved = {0}
  /\ panic = FALSE

----------------------------------------------------------------------------
Entry(type, start, cnt) == [type |-> type, start |-> start, cnt |-> cnt]

\* The table in a sector: the primary partitions and the extended one, or a
\* logical partition, counted from the sector, and the next record, counted
\* from the first.
Table(lba) ==
  IF lba = 0
  THEN [i \in 1..Len(hd.prim) |-> Entry("fs", hd.prim[i].start, hd.prim[i].cnt)]
         \o IF hd.logic = <<>> THEN <<>> ELSE <<Entry("ext", hd.logic[1].ebr, 0)>>
  ELSE LET at == {k \in 1..Len(hd.logic) : hd.logic[k].ebr = lba}
           k  == Min(at)
       IN  IF at = {} THEN <<>>
           ELSE <<Entry("fs", hd.logic[k].start - lba, hd.logic[k].cnt)>>
                  \o IF k = Len(hd.logic) THEN <<>>
                     ELSE <<Entry("ext", hd.logic[k + 1].ebr - hd.logic[1].ebr, 0)>>

frame == stack[Len(stack)]
Callers == SubSeq(stack, 1, Len(stack) - 1)
NextEntry == Append(Callers, [frame EXCEPT !.idx = @ + 1])
p == Table(frame.lba)[frame.idx]
MoreEntries == stack # <<>> /\ frame.idx <= Len(Table(frame.lba))

Part(number) == [number |-> number, start |-> frame.lba + p.start, cnt |-> p.cnt]

\* Mutant: every record is looked for from the one before it.
Mut_Record_relative == frame.lba + p.start

\* Where the extended partition, or the next record of it, begins.
Record == p.start + ext_lba_base

\* An extended entry: a call of partition_scan for its sector.
ScanExtended ==
  /\ MoreEntries
  /\ p.type = "ext"
  /\ stack' = Append(NextEntry, [lba |-> Record, idx |-> 1])
  /\ ext_lba_base' = IF ext_lba_base = 0 THEN p.start ELSE ext_lba_base
  /\ UNCHANGED <<disk, prim, logic, partition_list, part_idx, cur_part, blocks, panic>>

\* A primary partition; four of them fail the assertion after p_no++.
ScanPrimary ==
  /\ MoreEntries
  /\ p.type = "fs" /\ frame.lba = 0
  /\ LET part == Part(Len(prim) + 1)
     IN  prim' = Append(prim, part) /\ partition_list' = Append(partition_list, part)
  /\ panic' = (Len(prim) + 1 = MaxPrim)
  /\ stack' = NextEntry
  /\ UNCHANGED <<disk, ext_lba_base, logic, part_idx, cur_part, blocks>>

\* A logical partition; the call returns when logic_parts is full.
ScanLogical ==
  /\ MoreEntries
  /\ p.type = "fs" /\ frame.lba # 0
  /\ LET part == Part(Len(logic) + 5)
     IN  logic' = Append(logic, part) /\ partition_list' = Append(partition_list, part)
  /\ stack' = IF Len(logic) + 1 >= MaxLogic THEN Callers ELSE NextEntry
  /\ UNCHANGED <<disk, ext_lba_base, prim, part_idx, cur_part, blocks, panic>>

\* partition_scan returns; after the first call filesys_init begins.
ScanReturn ==
  /\ stack # <<>>
  /\ ~MoreEntries
  /\ stack' = Callers
  /\ part_idx' = IF Callers = <<>> THEN 0 ELSE NULL
  /\ UNCHANGED <<disk, tables, cur_part, blocks, panic>>

----------------------------------------------------------------------------
\* partition_format's arithmetic for a partition of cnt sectors: the length
\* of the block bitmap in bits and in sectors.
free_sects(cnt) == cnt - (2 + InodeSects)
block_bitmap_bit_len(cnt) ==
  free_sects(cnt) - DIV_ROUND_UP(free_sects(cnt), BITS_PER_SECTOR)
block_bitmap_sects(cnt) == DIV_ROUND_UP(block_bitmap_bit_len(cnt), BITS_PER_SECTOR)

SuperBlock(part) ==
  [sec_cnt |-> part.cnt,
   block_bitmap_lba |-> part.start + 2,
   block_bitmap_sects |-> block_bitmap_sects(part.cnt),
   data_start_lba |-> part.start + 2 + block_bitmap_sects(part.cnt) + InodeSects]

\* The rest of the last sector, from the byte of bit len on, is set; then
\* the bits of that byte are cleared, up to and including bit len.
Surplus(len, i) ==
  LET last_byte == len \div ByteBits
      last_size == SectorBytes - (last_byte % SectorBytes)
  IN  i \div ByteBits \in last_byte..last_byte + last_size - 1 /\ i > len

\* The block bitmap of a new file system: block 0 is the root directory's.
FreshBits(part) ==
  [i \in 0..block_bitmap_sects(part.cnt) * BITS_PER_SECTOR - 1 |->
     IF i = 0 \/ Surplus(block_bitmap_bit_len(part.cnt), i) THEN 1 ELSE 0]

\* The partition at index idx of filesys_init's loop, 4 primary ones first.
PartAt(idx) ==
  IF idx < MaxPrim
  THEN IF idx < Len(prim) THEN prim[idx + 1] ELSE NULL
  ELSE IF idx - MaxPrim < Len(logic) THEN logic[idx - MaxPrim + 1] ELSE NULL

\* Mutant: the magic number is not looked at.
Mut_has_magic_never(part) == FALSE

has_magic(part) == part.start \in DOMAIN super

\* One round of filesys_init's loop: a partition without the magic number is
\* formatted.
InitPart ==
  LET part == PartAt(part_idx)
  IN  /\ part_idx # NULL
      /\ part_idx < MaxPrim + MaxLogic
      /\ IF part = NULL \/ has_magic(part)
         THEN UNCHANGED <<super, dbits>>
         ELSE /\ super' = [s \in DOMAIN super \cup {part.start} |->
                             IF s = part.start THEN SuperBlock(part) ELSE super[s]]
              /\ dbits' = [s \in DOMAIN dbits \cup {part.start} |->
                             IF s = part.start THEN FreshBits(part) ELSE dbits[s]]
      /\ part_idx' = part_idx + 1
      /\ UNCHANGED <<hd, stack, tables, cur_part, blocks, panic>>

\* The end of filesys_init: the first partition with the name sdb1 is
\* mounted.  Without one, open_root_dir follows a NULL pointer.
mount_partition ==
  LET named == SelectSeq(partition_list, LAMBDA x : x.number = 1)
  IN  /\ part_idx = MaxPrim + MaxLogic
      /\ part_idx' = NULL
      /\ IF named = <<>>
         THEN panic' = TRUE /\ UNCHANGED <<cur_part, bits>>
         ELSE /\ cur_part' = Head(named)
              /\ bits' = dbits[Head(named).start]
              /\ UNCHANGED panic
      /\ UNCHANGED <<disk, stack, tables, waiting, given, saved>>

----------------------------------------------------------------------------
\* block_bitmap_alloc; a full bitmap stops the machine.  All callers call
\* bitmap_sync next, except file_write for the block of its indirect table
\* (file.c:404).
block_bitmap_alloc(synced) ==
  LET i == bitmap_scan(bits, 1, 0)
  IN  /\ cur_part # NULL
      /\ IF FirstByte(bits) = Bytes(bits)
         THEN panic' = TRUE /\ UNCHANGED blocks
         ELSE /\ synced => Cardinality(waiting) < MaxWaiting
              /\ bits' = bitmap_set(bits, i, 1)
              /\ waiting' = IF synced THEN waiting \cup {i} ELSE waiting
              /\ given' = given \cup {i}
              /\ UNCHANGED <<saved, panic>>
      /\ UNCHANGED <<disk, stack, tables, part_idx, cur_part>>

\* A block is freed (inode_release, delete_dir_entry); the root directory
\* keeps its first one.
FreeBlock(i) ==
  /\ cur_part # NULL
  /\ i \in given \ {0}
  /\ Cardinality(waiting) < MaxWaiting
  /\ bits' = bitmap_set(bits, i, 0)
  /\ waiting' = waiting \cup {i}
  /\ given' = given \ {i}
  /\ UNCHANGED <<disk, stack, tables, part_idx, cur_part, saved, panic>>

SameSector(i, j) == j \div BITS_PER_SECTOR = i \div BITS_PER_SECTOR

\* bitmap_sync: the sector with bit i goes to disk.
bitmap_sync(i) ==
  /\ i \in waiting
  /\ waiting' = waiting \ {i}
  /\ dbits' = [dbits EXCEPT ![cur_part.start] =
                 [j \in DOMAIN bits |-> IF SameSector(i, j) THEN bits[j] ELSE @[j]]]
  /\ saved' = {j \in given \cup saved : IF SameSector(i, j) THEN j \in given ELSE j \in saved}
  /\ UNCHANGED <<hd, super, stack, tables, part_idx, cur_part, bits, given, panic>>

\* The machine is switched off, or has stopped, and boots again; what was
\* not written is lost.
Restart ==
  /\ cur_part # NULL \/ panic
  /\ stack' = FirstCall
  /\ ext_lba_base' = 0
  /\ prim' = <<>> /\ logic' = <<>> /\ partition_list' = <<>>
  /\ part_idx' = NULL
  /\ cur_part' = NULL
  /\ bits' = <<>>
  /\ waiting' = {}
  /\ given' = saved
  /\ panic' = FALSE
  /\ UNCHANGED <<disk, saved>>

Scan == ScanExtended \/ ScanPrimary \/ ScanLogical \/ ScanReturn

Next ==
  \/ ~panic /\ \/ Scan \/ InitPart \/ mount_partition
               \/ \E synced \in BOOLEAN : block_bitmap_alloc(synced)
               \/ \E i \in given : FreeBlock(i)
               \/ \E i \in waiting : bitmap_sync(i)
  \/ Restart

Spec == Init /\ [][Next]_vars

----------------------------------------------------------------------------
Places(s) == [i \in 1..Len(s) |-> [start |-> s[i].start, cnt |-> s[i].cnt]]

\* partition_scan finds the partitions that were made, in their order and at
\* their places, up to the length of logic_parts.
PartitionsExact ==
  part_idx # NULL =>
    /\ Places(prim) = Places(hd.prim)
    /\ Places(logic) = SubSeq(Places(hd.logic), 1, Min({MaxLogic, Len(hd.logic)}))

\* The blocks that partition_format counts lie between the partition's tables
\* and its end; the bit of each is set in memory exactly when it is in use,
\* and on disk exactly when it was in use the last time its sector was
\* written, through any allocations, releases and restarts.  (The bit after
\* the last, which fs.c:184 also clears, is no block of these.)
BlocksSound ==
  cur_part # NULL =>
    LET sb  == super[cur_part.start]
        len == block_bitmap_bit_len(sb.sec_cnt)
    IN  /\ sb.data_start_lba + len <= cur_part.start + cur_part.cnt
        /\ len <= Total(bits)
        /\ \A i \in 0..len - 1 : /\ bits[i] = 1 <=> i \in given
                                 /\ dbits[cur_part.start][i] = 1 <=> i \in saved

\* On every block bitmap that is reached bitmap_scan finds the first run of
\* free bits, and its answer when there is none is what ScanRight says for
\* each bit that may follow the bitmap in memory (bitmap.c:51).
ScanFindsFirst == bits # <<>> => ScanRight(bits)

=============================================================================
