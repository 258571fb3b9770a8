----------------------------- MODULE MCAgentWake -----------------------------
(***************************************************************************)
(* A small instance of AgentWake.                                          *)
(***************************************************************************)
EXTENDS AgentWake

CONSTANTS r1, r2, q1

OneRequisition == [e \in Event |-> q1]
=============================================================================
