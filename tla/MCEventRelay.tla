---------------------------- MODULE MCEventRelay ----------------------------
(***************************************************************************)
(* Small instances of EventRelay.                                          *)
(***************************************************************************)
EXTENDS EventRelay, TLC

CONSTANTS r1, r2, r3

Replicas == Permutations(Replica)
=============================================================================
