------------------------------ MODULE MCThread ------------------------------
(* A small instance of Thread: main, init and one more thread.             *)
EXTENDS Thread

\* main has the longer time slice (31 against 10 in the code).
MCPrio == [t \in All |-> IF t = Main THEN 2 ELSE 1]
=============================================================================
