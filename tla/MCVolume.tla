------------------------------ MODULE MCVolume ------------------------------
(* Small disks.                                                              *)
EXTENDS Volume

prt(start, cnt) == [start |-> start, cnt |-> cnt]
lgc(ebr, start, cnt) == [ebr |-> ebr, start |-> start, cnt |-> cnt]

\* One partition of every size; a full table of primary partitions, which
\* stops the machine; chains of logical partitions, shorter and longer than
\* logic_parts.
MCDisks ==
  {[prim |-> <<prt(1, n)>>, logic |-> <<>>] : n \in 12..15}
    \cup {[prim |-> [i \in 1..4 |-> prt(20 * i, 12)], logic |-> <<>>],
          [prim |-> <<prt(1, 13), prt(14, 12)>>,
           logic |-> <<lgc(30, 31, 12), lgc(50, 52, 12)>>],
          [prim |-> <<prt(1, 12)>>,
           logic |-> <<lgc(30, 31, 12), lgc(50, 51, 12), lgc(70, 71, 13),
                       lgc(90, 91, 12)>>],
          [prim |-> <<>>, logic |-> <<lgc(30, 31, 12)>>]}
=============================================================================
