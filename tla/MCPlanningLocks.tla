--------------------------- MODULE MCPlanningLocks ---------------------------
(***************************************************************************)
(* Small instances of PlanningLocks.                                       *)
(***************************************************************************)
EXTENDS PlanningLocks, TLC

CONSTANTS plan1, plan2, uncover, cancel, record, register, settle1, settle2

\* Ids and arrival disagree.
ArrivalDoc == [i \in Invoice |-> 10 - i]

\* Two plans that share an invoice.
Plans == plan1 :> {1, 2} @@ plan2 :> {2}

Registrations == register :> 3
Reconciliations == settle1 :> [invoice |-> 1, verdict |-> "paid"]
                   @@ settle2 :> [invoice |-> 2, verdict |-> "dishonored"]
=============================================================================
