------------------------------ MODULE MCArena ------------------------------
(* Two block sizes: three blocks to an arena (1024 bytes in the code), and *)
(* two.                                                                    *)
EXTENDS Arena

MCPerArena == [c \in Classes |-> IF c = 1024 THEN 3 ELSE 2]
=============================================================================
