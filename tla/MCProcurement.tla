---------------------------- MODULE MCProcurement ----------------------------
(***************************************************************************)
(* A small instance of Procurement.                                        *)
(***************************************************************************)
EXTENDS Procurement, TLC

CONSTANTS q1, v1, v2, b1, b2, s1, s2

Peers == Permutations({b1, b2}) \cup Permutations({s1, s2})
=============================================================================
