------------------------------ MODULE TreeAbs ------------------------------
(***************************************************************************)
(* What the directory calls of fs/fs.c do to the tree of named files and   *)
(* directories: one action for each call, with the path it is given.       *)
(***************************************************************************)
EXTENDS Naturals, Sequences

VARIABLES tree      \* the nodes but the root: a path (its names) and a type

Node(path, type) == [path |-> path, type |-> type]

Above(path) == SubSeq(path, 1, Len(path) - 1)

Init == tree = {}

\* mkdir, or open with O_CREAT: only a path that does not exist, in a
\* directory that does.
Add(path, type) ==
  /\ \A n \in tree : n.path # path
  /\ Above(path) = <<>> \/ Node(Above(path), "dir") \in tree
  /\ tree' = tree \cup {Node(path, type)}

\* rmdir: never a directory with something in it.
Rmdir(path) ==
  /\ Node(path, "dir") \in tree
  /\ \A n \in tree : Above(n.path) # path
  /\ tree' = tree \ {Node(path, "dir")}

\* unlink: the file at the path or, when the path goes on behind a file, that
\* file.
Unlink(path) ==
  \E k \in 1..Len(path) :
    LET file == Node(SubSeq(path, 1, k), "file")
    IN  file \in tree /\ tree' = tree \ {file}
=============================================================================
