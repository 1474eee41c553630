-------------------------------- MODULE Dir --------------------------------
(***************************************************************************)
(* Directories: fs/dir.c, the directory calls of fs/fs.c, the inodes and   *)
(* bitmaps they change in memory and on disk, and the callers: the shell's *)
(* builtins (cd, pwd, ls, mkdir, rmdir, rm), other programs, and a restart *)
(* of the machine, which mounts what is on the disk.                       *)
(*                                                                         *)
(* A call is one step: FileTable has the calls that overlap.  Sizes and    *)
(* offsets are counted in entries, block k is the sector data_start_lba +  *)
(* k, and a file has no blocks (FileData has them).  What a free block     *)
(* holds is not kept: it is written in full before it is used again.  A    *)
(* call that fails without leaving a trace is no step.                     *)
(***************************************************************************)
EXTENDS Integers, Sequences, FiniteSets, FiniteSetsExt

CONSTANTS FileNames, \* names given to files
          DirNames,  \* names given to directories
          Dot, DotDot,
          NInodes,   \* MAX_FILES_PER_PART
          NBlocks,   \* the blocks of the partition
          NDirect,   \* direct blocks of an inode (12 in the code)
          PerSec,    \* entries in a sector (21 in the code)
          SyncMod,   \* the inode numbers inode_sync tells apart (256 in the code)
          MaxDepth,  \* bound on the depth of the tree
          MaxLost,   \* bound on the blocks lost
          NULL

\* A directory never needs its table of indirect blocks: each of its blocks
\* but the first has an entry.
ASSUME DirAssumption ==
  /\ {Dot, DotDot, NULL} \cap (FileNames \cup DirNames) = {}
  /\ Cardinality({Dot, DotDot, NULL}) = 3
  /\ NInodes \in Nat \ {0} /\ NBlocks \in Nat \ {0} /\ MaxDepth \in Nat
  /\ MaxLost \in Nat
  /\ PerSec \in Nat \ {0, 1}
  /\ NDirect \in Nat /\ NDirect > Cardinality(FileNames \cup DirNames)
  /\ SyncMod \in Nat \ {0}

Names == FileNames \cup DirNames
Inos == 0..NInodes - 1
Blocks == 0..NBlocks - 1
Slots == 0..PerSec - 1
Places == 0..NDirect * PerSec - 1    \* where a directory may have an entry

Root == 0
NoIno == -1
NoBlock == -1

VARIABLES sect,      \* disk: the entries in each block
          dino,      \* disk: the inode table
          dib, dbb,  \* disk: the inodes and blocks set in the bitmaps
          ib, bb,    \* memory: the same
          mem,       \* memory: open_inodes, NULL for an inode that is not open
          cwd,       \* cwd_inode_nr of the shell
          dirp,      \* the directory the shell lists
          lost,      \* history: blocks lost when the machine stopped
          panic

disk == <<sect, dino, dib, dbb>>
vars == <<disk, ib, bb, mem, cwd, dirp, lost, panic>>

Entry(name, ino, type) == [name |-> name, ino |-> ino, type |-> type]
NoEntry == Entry(NULL, 0, "unknown")
NoSector == [s \in Slots |-> NoEntry]
NoInode == [size |-> 0, sec |-> [k \in 0..NDirect - 1 |-> NoBlock]]

\* The inode of a new directory and its first sector.
DirInode(b) == [NoInode EXCEPT !.size = 2, !.sec[0] = b]
\* Mutant: ".." is the directory itself.
Mut_DirSector_self(ino, parent) ==
  [NoSector EXCEPT ![0] = Entry(Dot, ino, "dir"), ![1] = Entry(DotDot, ino, "dir")]

DirSector(ino, parent) ==
  [NoSector EXCEPT ![0] = Entry(Dot, ino, "dir"), ![1] = Entry(DotDot, parent, "dir")]

\* The root directory, as partition_format writes it, mounted.
Init ==
  /\ sect = [b \in Blocks |-> IF b = 0 THEN DirSector(Root, Root) ELSE NoSector]
  /\ dino = [i \in Inos |-> IF i = Root THEN DirInode(0) ELSE NoInode]
  /\ dib = {Root} /\ dbb = {0}
  /\ ib = dib /\ bb = dbb
  /\ mem = [i \in Inos |-> IF i = Root THEN dino[Root] ELSE NULL]
  /\ cwd = Root
  /\ dirp = NULL
  /\ lost = {}
  /\ panic = "none"

----------------------------------------------------------------------------
(* Looking up. *)

\* inode_open: open_inodes before the disk.
inode_open(i) == IF mem[i] # NULL THEN mem[i] ELSE dino[i]

EntryAt(s, d, n) == s[d.sec[n \div PerSec]][n % PerSec]
Mapped(d) == {n \in Places : d.sec[n \div PerSec] # NoBlock}
Present(s, d) == {n \in Mapped(d) : EntryAt(s, d, n).type # "unknown"}

search_dir_entry(i, name) ==
  LET d    == inode_open(i)
      hits == {n \in Mapped(d) : EntryAt(sect, d, n).name = name}
  IN  IF hits = {} THEN NoEntry ELSE EntryAt(sect, d, Min(hits))

\* search_file: the inode found (NoIno when there is none), its type, the
\* directory it was looked for in, and the depth of searched_path.  It stops
\* at the first file, even when the path goes on.
search_file(path) ==
  LET walk[k \in 0..Len(path)] ==
        IF k = 0
        THEN [ino |-> Root, parent |-> Root, type |-> "dir", depth |-> 0]
        ELSE LET r == walk[k - 1]
                 e == search_dir_entry(r.ino, path[k])
             IN  IF r.type # "dir" THEN r
                 ELSE [ino |-> IF e = NoEntry THEN NoIno ELSE e.ino,
                       parent |-> r.ino, type |-> e.type, depth |-> k]
  IN  walk[Len(path)]

CleanPaths == UNION {[1..k -> Names] : k \in 0..MaxDepth}

\* wash_path: "." and ".." are worked out on the names alone.
wash_path(path) ==
  LET wash[k \in 0..Len(path)] ==
        IF k = 0 THEN <<>>
        ELSE CASE path[k] = DotDot ->
                    SubSeq(wash[k - 1], 1, Len(wash[k - 1]) - 1)
               [] path[k] = Dot -> wash[k - 1]
               [] OTHER -> Append(wash[k - 1], path[k])
  IN  wash[Len(path)]

----------------------------------------------------------------------------
(* Changing a directory: the operators give the inode d, the sectors s and
   the block bitmap b after the change. *)

\* Mutant: the entry is written over the first one after ".." .
Mut_sync_dir_entry_over(d, e, s, b) ==
  LET k == 2 \div PerSec
      fresh == d.sec[k] = NoBlock
      blk == IF fresh THEN Min(Blocks \ b) ELSE d.sec[k]
  IN  IF fresh /\ b = Blocks THEN [full |-> TRUE]
      ELSE [full  |-> FALSE,
            inode |-> [d EXCEPT !.size = @ + 1, !.sec[k] = blk],
            sect  |-> [s EXCEPT ![blk][2 % PerSec] = e],
            bits  |-> b \cup {blk}]

\* sync_dir_entry: the first place that has no entry, in a new block where
\* none is mapped.  block_bitmap_alloc stops the machine on a full bitmap.
sync_dir_entry(d, e, s, b) ==
  LET n == Min({m \in Places : m \notin Present(s, d)})
      k == n \div PerSec
      fresh == d.sec[k] = NoBlock
      blk == IF fresh THEN Min(Blocks \ b) ELSE d.sec[k]
      old == IF fresh THEN NoSector ELSE s[blk]
  IN  IF fresh /\ b = Blocks THEN [full |-> TRUE]
      ELSE [full  |-> FALSE,
            inode |-> [d EXCEPT !.size = @ + 1, !.sec[k] = blk],
            sect  |-> [s EXCEPT ![blk] = [old EXCEPT ![n % PerSec] = e]],
            bits  |-> b \cup {blk}]

\* The block goes with its only entry, unless it is the one with ".".
gives_back(alone, first) == alone /\ ~first

\* Mutant: the size is not changed.
Mut_Smaller_not(d) == d

Smaller(d) == [d EXCEPT !.size = @ - 1]

\* Mutant: the bit of the block stays set.
Mut_free_block_not(b, blk) == b

free_block(b, blk) == b \ {blk}

\* delete_dir_entry: in the first block that has the inode number.
delete_dir_entry(d, ino, s, b) ==
  LET real(m) == EntryAt(s, d, m).name \notin {Dot, DotDot}
      hits  == {m \in Present(s, d) : real(m) /\ EntryAt(s, d, m).ino = ino}
      n     == Min(hits)
      k     == n \div PerSec
      block == {m \in Present(s, d) : m \div PerSec = k}
      alone == {m \in block : real(m)} = {n}
      first == \E m \in block : EntryAt(s, d, m).name = Dot
  IN  IF hits = {}
      THEN [twice |-> FALSE, inode |-> d, sect |-> s, bits |-> b]
      ELSE IF gives_back(alone, first)
      THEN [twice |-> FALSE, inode |-> [Smaller(d) EXCEPT !.sec[k] = NoBlock],
            sect |-> [s EXCEPT ![d.sec[k]] = NoSector], bits |-> free_block(b, d.sec[k])]
      ELSE [twice |-> hits \cap block # {n}, inode |-> Smaller(d),
            sect |-> [s EXCEPT ![d.sec[k]][n % PerSec] = NoEntry], bits |-> b]

\* inode_sync keeps 8 bits of the number: an inode with a larger one is
\* written over another.
inode_sync(table, i, d) == [table EXCEPT ![i % SyncMod] = d]

\* Mutant: the inode bitmap is not written.
Mut_bitmap_sync_not(bits, old) == old

\* bitmap_sync: the bitmap in memory goes to the disk, over the old one.
bitmap_sync(bits, old) == bits

\* Mutant: the number of a deleted file stays in use.
Mut_free_inode_not(ino) == ib

free_inode(ino) == ib \ {ino}

\* The change of d, which is inode i, is seen by all who have it open.
Shared(i, d) == IF mem[i] = NULL THEN mem ELSE [mem EXCEPT ![i] = d]

\* History: the listing of directory i is no longer one of a directory at rest.
Disturbed(i) ==
  IF dirp # NULL /\ dirp.ino = i THEN [dirp EXCEPT !.steady = FALSE, !.seen = <<>>] ELSE dirp

\* The end of file_create and sys_mkdir: the entry e goes into directory dir,
\* then both inodes and the bitmaps go to disk.  The machine stops when no
\* block is left, with block bitmap and sectors on disk as they are so far.
Link(dir, e, inode, s, b) ==
  LET w == sync_dir_entry(inode_open(dir), e, s, b)
  IN  IF w.full
      THEN /\ panic' = "full"
           /\ sect' = s /\ dbb' = b
           /\ lost' = lost \cup (b \ bb)
           /\ UNCHANGED <<dino, dib, ib, bb, mem, dirp>>
      ELSE /\ sect' = w.sect
           /\ bb' = w.bits /\ dbb' = w.bits
           /\ dino' = inode_sync(inode_sync(dino, dir, w.inode), e.ino, inode)
           /\ mem' = Shared(dir, w.inode)
           /\ ib' = ib \cup {e.ino} /\ dib' = bitmap_sync(ib \cup {e.ino}, dib)
           /\ dirp' = Disturbed(dir)
           /\ UNCHANGED <<lost, panic>>

Full == panic' = "full" /\ UNCHANGED <<disk, ib, bb, mem, dirp, lost>>

Last(path) == path[Len(path)]
Missing(path, r) == r.ino = NoIno /\ r.depth = Len(path)

\* open with O_CREAT: file_create.
file_create(path) ==
  LET r == search_file(path)
  IN  /\ Missing(path, r)
      /\ IF ib = Inos THEN Full
         ELSE Link(r.parent, Entry(Last(path), Min(Inos \ ib), "file"), NoInode, sect, bb)
      /\ UNCHANGED cwd

sys_mkdir(path) ==
  LET r == search_file(path)
      ino == Min(Inos \ ib)
      b == Min(Blocks \ bb)
  IN  /\ Missing(path, r)
      /\ IF ib = Inos \/ bb = Blocks THEN Full
         ELSE Link(r.parent, Entry(Last(path), ino, "dir"), DirInode(b),
                   [sect EXCEPT ![b] = DirSector(ino, r.parent)], bb \cup {b})
      /\ UNCHANGED cwd

\* delete_dir_entry in directory dir, then inode_release: the blocks and the
\* number are free, the inode on disk is cleared.
Unlink(dir, ino, sound) ==
  LET w == delete_dir_entry(inode_open(dir), ino, sect, bb)
      d == inode_open(ino)
      freed == {d.sec[k] : k \in 0..NDirect - 1} \ {NoBlock}
  IN  /\ sect' = [b \in Blocks |-> IF b \in freed THEN NoSector ELSE w.sect[b]]
      /\ bb' = w.bits \ freed /\ dbb' = w.bits \ freed
      /\ ib' = free_inode(ino) /\ dib' = bitmap_sync(free_inode(ino), dib)
      /\ dino' = [inode_sync(dino, dir, w.inode) EXCEPT ![ino] = NoInode]
      /\ mem' = Shared(dir, w.inode)
      /\ dirp' = Disturbed(dir)
      /\ panic' = IF sound /\ ~w.twice /\ 0 \notin freed THEN "none" ELSE "assert"
      /\ UNCHANGED <<cwd, lost>>

\* sys_unlink of a file that is not open; it does not compare the depths.
sys_unlink(path) ==
  LET r == search_file(path)
  IN  /\ r.type = "file"
      /\ Unlink(r.parent, r.ino, TRUE)

dir_is_empty(d) == d.size = 2

\* dir_remove, with its assertion that an empty directory has one block.
dir_remove(dir, ino) ==
  Unlink(dir, ino, \A k \in 1..NDirect - 1 : inode_open(ino).sec[k] = NoBlock)

sys_rmdir(path) ==
  LET r == search_file(path)
  IN  /\ r.type = "dir"
      /\ dir_is_empty(inode_open(r.ino))
      /\ dir_remove(r.parent, r.ino)

----------------------------------------------------------------------------
(* Where the shell is, and what it lists. *)

\* Mutant: any entry after "." and ".." is taken for the child.
Mut_get_child_any(d, c) == {n \in Mapped(d) : n >= 2}

\* get_child_dir_name looks at the inode numbers only.
get_child_dir_name(d, c) == {n \in Mapped(d) : EntryAt(sect, d, n).ino = c}

\* sys_getcwd from inode i upwards: get_parent_dir_inode_nr with its
\* assertions, and get_child_dir_name.
sys_getcwd(i) ==
  LET up[k \in 0..NInodes] ==
        IF k = 0
        THEN [ino |-> i, path |-> <<>>, result |-> "path"]
        ELSE LET r == up[k - 1]
                 b == inode_open(r.ino).sec[0]
                 above == sect[b][1]
                 d == inode_open(above.ino)
                 hits == get_child_dir_name(d, r.ino)
             IN  IF r.ino = Root \/ r.result # "path" THEN r
                 ELSE IF b = NoBlock \/ above.type # "dir"
                 THEN [r EXCEPT !.result = "assert"]
                 ELSE IF hits = {}
                 THEN [r EXCEPT !.result = "null"]
                 ELSE [r EXCEPT !.ino = above.ino,
                                !.path = <<EntryAt(sect, d, Min(hits)).name>> \o @]
  IN  up[NInodes]

\* opendir and rewinddir.
sys_opendir(path) ==
  LET r == search_file(path)
  IN  /\ r.type = "dir"
      /\ dirp' = [ino |-> r.ino, pos |-> 0, seen |-> <<>>,
                  steady |-> TRUE, ended |-> FALSE]
      /\ mem' = [mem EXCEPT ![r.ino] = inode_open(r.ino)]
      /\ UNCHANGED <<disk, ib, bb, cwd, lost, panic>>

\* ls of a directory, without an argument the one getcwd says.  Bound: not
\* ls -l, which asks stat for each entry.
buildin_ls(path) == dirp = NULL /\ sys_opendir(path)

\* Mutant: a block that is not mapped ends the walk.
Mut_walked_gap(d) ==
  {n \in Mapped(d) : \A k \in 0..n \div PerSec : d.sec[k] # NoBlock}

\* The places dir_read comes to: it passes over blocks that are not mapped.
walked(d) == Mapped(d)

\* dir_read: the place of the entry it returns, -1 for NULL.  It walks over
\* all blocks and entries; pos counts the entries it has passed, which were
\* returned before when there are fewer than dir_pos.
dir_read(d, dir_pos) ==
  LET N == NDirect * PerSec
      walk[n \in 0..N] ==
        IF n = 0 THEN [pos |-> 0, at |-> -1]
        ELSE LET w == walk[n - 1]
                 here == n - 1 \in walked(d) /\ EntryAt(sect, d, n - 1).type # "unknown"
             IN  IF w.at # -1 \/ ~here THEN w
                 ELSE IF w.pos < dir_pos THEN [w EXCEPT !.pos = @ + 1]
                 ELSE [w EXCEPT !.at = n - 1]
  IN  IF dir_pos >= d.size THEN -1 ELSE walk[N].at

readdir ==
  LET d == inode_open(dirp.ino)
      n == dir_read(d, dirp.pos)
  IN  /\ dirp # NULL
      /\ ~dirp.ended
      /\ dirp' = IF n = -1
                 THEN [dirp EXCEPT !.ended = TRUE]
                 ELSE [dirp EXCEPT !.pos = @ + 1,
                      !.seen = IF dirp.steady THEN Append(@, EntryAt(sect, d, n).name) ELSE @]
      /\ UNCHANGED <<disk, ib, bb, mem, cwd, lost, panic>>

\* closedir: root_dir stays open.
closedir ==
  /\ dirp # NULL
  /\ dirp.ended
  /\ dirp' = NULL
  /\ mem' = IF dirp.ino = Root THEN mem ELSE [mem EXCEPT ![dirp.ino] = NULL]
  /\ UNCHANGED <<disk, ib, bb, cwd, lost, panic>>

sys_chdir(path) ==
  LET r == search_file(path)
  IN  /\ r.type = "dir"
      /\ cwd' = r.ino
      /\ UNCHANGED <<disk, ib, bb, mem, dirp, lost, panic>>

buildin_cd(path) == dirp = NULL /\ sys_chdir(path)

\* pwd, ls without an argument or a builtin with a relative path, when the
\* getcwd they begin with stops the machine.
buildin_pwd ==
  /\ dirp = NULL
  /\ sys_getcwd(cwd).result = "assert"
  /\ panic' = "getcwd"
  /\ UNCHANGED <<disk, ib, bb, mem, cwd, dirp, lost>>

buildin_mkdir(path) == dirp = NULL /\ sys_mkdir(path)
buildin_rmdir(path) == dirp = NULL /\ sys_rmdir(path)
buildin_rm(path) == dirp = NULL /\ sys_unlink(path)

\* filesys_init on a disk that has the file system: mount_partition and
\* open_root_dir; the machine may have been stopped, or switched off.
Restart ==
  /\ Cardinality(lost) <= MaxLost
  /\ ib' = dib /\ bb' = dbb
  /\ mem' = [i \in Inos |-> IF i = Root THEN dino[Root] ELSE NULL]
  /\ cwd' = Root
  /\ dirp' = NULL
  /\ panic' = "none"
  /\ UNCHANGED <<disk, lost>>

\* The paths come from make_clear_abs_path; some go on behind a file.
Args == CleanPaths \ {<<>>}

Shell ==
  \/ \E path \in Args :
       \/ Last(path) \in DirNames /\ buildin_mkdir(path)
       \/ buildin_rmdir(path) \/ buildin_rm(path)
  \/ \E path \in Args \cup {<<>>} : buildin_cd(path) \/ buildin_ls(path)
  \/ readdir \/ closedir
  \/ buildin_pwd

\* Other programs create and delete files while the shell lists; only the
\* shell removes directories.
Program ==
  \E path \in Args :
    \/ Last(path) \in FileNames /\ file_create(path)
    \/ dirp # NULL /\ sys_unlink(path)

\* A number is in use that inode_sync cuts: inode 256 and the root's share a
\* place in the table on disk.
Cut == \E i \in ib : i >= SyncMod

\* What becomes of a file system with such a number is not followed.
Next == ~Cut /\ ((panic = "none" /\ (Shell \/ Program)) \/ Restart)

Spec == Init /\ [][Next]_vars

----------------------------------------------------------------------------
\* The tree as the entries on the disk show it, from the root down.
Children(n) ==
  LET d == inode_open(n.ino)
      entries == {EntryAt(sect, d, k) : k \in Present(sect, d)}
  IN  {[path |-> Append(n.path, e.name), type |-> e.type, ino |-> e.ino] :
         e \in {x \in entries : x.name \notin {Dot, DotDot}}}
Nodes ==
  LET level[k \in 0..MaxDepth] ==
        IF k = 0 THEN {[path |-> <<>>, type |-> "dir", ino |-> Root]}
        ELSE UNION {Children(n) : n \in {m \in level[k - 1] : m.type = "dir"}}
  IN  UNION {level[k] : k \in 1..MaxDepth}

Tree == {[path |-> n.path, type |-> n.type] : n \in Nodes}
T == INSTANCE TreeAbs WITH tree <- Tree

\* Each call does to the tree what TreeAbs says of it and of its path; a call
\* that stops the machine, one that only looks, and a restart do nothing.
TreeStep ==
  \/ \E path \in Args :
       \/ sys_mkdir(path) /\ T!Add(path, "dir")
       \/ file_create(path) /\ T!Add(path, "file")
       \/ sys_rmdir(path) /\ T!Rmdir(path)
       \/ sys_unlink(path) /\ T!Unlink(path)
  \/ /\ Restart \/ panic' # "none" \/ UNCHANGED <<disk, ib, bb>>
     /\ UNCHANGED Tree

\* The calls implement TreeAbs: mkdir, open with O_CREAT and rmdir change the
\* tree at the path they are given and nowhere else, unlink at that path or
\* at the file its path goes through (fs.c:576), and a restart of the machine
\* leaves the tree as it is.
ImplementsTree == T!Init /\ [][TreeStep]_vars

\* The machine runs, and no inode has been written over another.
Intact == panic = "none" /\ ~Cut

\* Every inode that is allocated is the root or what exactly one path leads
\* to: no file is lost, no number serves two files.
NamedOnce ==
  Intact =>
    /\ {n.ino : n \in Nodes} = ib \ {Root}
    /\ \A m, n \in Nodes : m.ino = n.ino \/ m.path = n.path => m = n
    /\ \A n \in Nodes : search_file(n.path).ino = n.ino

BlocksOf(i) == {inode_open(i).sec[k] : k \in 0..NDirect - 1} \ {NoBlock}

\* The block bitmap has the blocks of the directories, no block serves two
\* purposes, and a block is lost only when the machine stops.
DirBlocksExact ==
  Intact =>
    /\ bb = lost \cup UNION {BlocksOf(i) : i \in ib}
    /\ \A i \in ib : BlocksOf(i) \cap lost = {}
    /\ \A i, j \in ib : i # j => BlocksOf(i) \cap BlocksOf(j) = {}

\* i_size, by which a directory is found empty or listed to its end, counts
\* its entries, and the assertions that rest on it hold (dir_remove,
\* delete_dir_entry, inode_release): an empty directory has one block, an
\* entry is there once, the root's block is never freed.
SizeExact ==
  /\ panic # "assert"
  /\ Intact =>
       \A i \in ib : inode_open(i).size = Cardinality(Present(sect, inode_open(i)))

\* Between two calls memory holds nothing that is not on the disk, exactly
\* as long as no inode has a number that inode_sync cuts (inode.c:68); the
\* first one that has is written over the root directory's.
DiskUpToDate ==
  panic = "none" =>
    /\ ib = dib /\ bb = dbb
    /\ ~Cut <=> \A i \in Inos : mem[i] # NULL => mem[i] = dino[i]

\* ls shows every entry of a directory that is left alone, once, wherever
\* deletions have left holes in its blocks or blocks that are not mapped, also
\* when the directory was listed before.
ListingComplete ==
  dirp # NULL /\ dirp.ended /\ dirp.steady =>
    LET d == inode_open(dirp.ino)
    IN  /\ {dirp.seen[k] : k \in 1..Len(dirp.seen)}
             = {EntryAt(sect, d, n).name : n \in Present(sect, d)}
        /\ Len(dirp.seen) = Cardinality(Present(sect, d))

\* The path pwd prints leads to the directory the shell is in.
PwdLeadsBack ==
  LET r == sys_getcwd(cwd) IN r.result = "path" => search_file(r.path).ino = cwd

\* Working out "." and ".." on the names alone, as the shell does, leads
\* where following the entries "." and ".." on the disk leads.
Leads(p) == LET r == search_file(p) IN r.ino # NoIno /\ r.depth = Len(p)
RawPaths ==
  LET N == Names
  IN  {<<a, DotDot, b>> : a, b \in N} \cup {<<a, b, DotDot>> : a, b \in N}
        \cup {<<a, Dot, b>> : a, b \in N} \cup {<<DotDot, a>> : a \in N}
WashedSame ==
  \A p \in RawPaths :
    Leads(p) => search_file(wash_path(p)).ino = search_file(p).ino

\* The assertions of sys_getcwd hold (get_parent_dir_inode_nr).
GetcwdAsserts == panic # "getcwd"

=============================================================================
