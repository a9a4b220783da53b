----------------------------- MODULE MCFlowTable -----------------------------
(***************************************************************************)
(* TLC instances of FlowTable.  Two ports and three connections: a port is *)
(* reused, and a third connection is displaced or not by the second.       *)
(***************************************************************************)
EXTENDS FlowTable, TLC

CONSTANTS c1, c2, c3

MCConns == {c1, c2, c3}
Symmetry == Permutations(MCConns)
=============================================================================
