-------------------------------- MODULE MCIde --------------------------------
(* Instances of Ide: every tick of the timer ends a time slice.              *)
EXTENDS Ide

MCPrio == [t \in All |-> 0]
=============================================================================
