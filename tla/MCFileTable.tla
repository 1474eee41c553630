---------------------------- MODULE MCFileTable ----------------------------
(* The scenarios of FileTable that are checked.                              *)
EXTENDS FileTable

CONSTANTS k1, p1, p2

\* A kernel thread and a process, one call at a time, up to full tables;
\* both create files.
OneAtATime ==
  [procs |-> {k1, p1}, started |-> {k1, p1}, creators |-> {k1, p1},
   slots |-> {3, 4, 5}, objs |-> {1, 2, 3}, writes |-> BOOLEAN,
   unlinks |-> TRUE, overlap |-> FALSE]

\* The same with a child of the process.
ForkOneAtATime ==
  [procs |-> {k1, p1, p2}, started |-> {k1, p1}, creators |-> {k1, p1},
   slots |-> {3, 4}, objs |-> {1, 2}, writes |-> {FALSE},
   unlinks |-> TRUE, overlap |-> FALSE]

\* A process and its child, calls overlapping at every disk access.
ForkOverlap ==
  [procs |-> {p1, p2}, started |-> {p1}, creators |-> {},
   slots |-> {3, 4}, objs |-> {1, 2}, writes |-> {FALSE},
   unlinks |-> TRUE, overlap |-> TRUE]

\* Two processes that open and close files.
OpenOverlap ==
  [procs |-> {p1, p2}, started |-> {p1, p2}, creators |-> {},
   slots |-> {3, 4}, objs |-> {1, 2, 3}, writes |-> {FALSE},
   unlinks |-> FALSE, overlap |-> TRUE]

MCAll == {OneAtATime, ForkOneAtATime, ForkOverlap}
MCOpen == {OpenOverlap}
=============================================================================
