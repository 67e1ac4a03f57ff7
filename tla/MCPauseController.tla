-------------------------- MODULE MCPauseController --------------------------
(***************************************************************************)
(* Two committees of three positions.  One key is in both, so that what it *)
(* signed before a rotation is still valid after it; the second committee  *)
(* lists that key twice, so that its one signature counts at two places.   *)
(***************************************************************************)
EXTENDS PauseController

CONSTANTS k1, k2, k3, k4

Before == [i \in Positions |-> CASE i = 1 -> k1 [] i = 2 -> k2 [] i = 3 -> k3]
After == [i \in Positions |-> IF i = 2 THEN k4 ELSE k1]
MCCommittees == {Before, After}
=============================================================================
