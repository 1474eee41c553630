----------------------------- MODULE MCFileData -----------------------------
(* Blocks of two bytes, two addresses in the inode and two in the table.  p1 *)
(* uses f1 only, p2 both files; f1 is written in pieces of three bytes and   *)
(* f2 in pieces of four: the ends of writes fall on the boundaries of blocks *)
(* and of the inode, and beside them, and with six blocks the two files      *)
(* compete for them, also for those of a file that is being deleted.         *)
EXTENDS FileData

CONSTANTS p1, p2, f1

MCUses == [p \in Procs |-> IF p = p1 THEN {f1} ELSE Files]
MCWrites == [f \in Files |-> IF f = f1 THEN {3} ELSE {4}]
=============================================================================
