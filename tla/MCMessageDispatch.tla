-------------------------- MODULE MCMessageDispatch --------------------------
(***************************************************************************)
(* Small instances of MessageDispatch.                                     *)
(***************************************************************************)
EXTENDS MessageDispatch, TLC

CONSTANTS u1, u2, c1, d1

Users == Permutations({u1, u2})
=============================================================================
