-------------------------------- MODULE Fifo --------------------------------
(***************************************************************************)
(* What device/io_queue.c promises: a bounded first-in first-out queue of  *)
(* characters.                                                             *)
(***************************************************************************)
EXTENDS Naturals, Sequences

CONSTANTS Chars, Capacity

VARIABLES q,      \* the characters in the queue, oldest first
          got     \* the character handed out last

Init == q = <<>> /\ got \in Chars

Put(c) == Len(q) < Capacity /\ q' = Append(q, c) /\ UNCHANGED got

Get == q # <<>> /\ got' = Head(q) /\ q' = Tail(q)

Next == Get \/ \E c \in Chars : Put(c)

Spec == Init /\ [][Next]_<<q, got>>
=============================================================================
