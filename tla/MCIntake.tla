------------------------------ MODULE MCIntake ------------------------------
(***************************************************************************)
(* A small instance of Intake: the mail m1 has the content d1, the file    *)
(* s1 carries the same invoice, and the agent cannot extract s1.           *)
(***************************************************************************)
EXTENDS Intake, TLC

CONSTANTS m1, d1, s1, k1, w1, w2, a1, c1

Contents == [m \in Message |-> d1]
Numbers == d1 :> k1 @@ s1 :> k1
=============================================================================
