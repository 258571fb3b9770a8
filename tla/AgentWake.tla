------------------------------ MODULE AgentWake ------------------------------
(***************************************************************************)
(* What the relay's handler of requisition.approved does                   *)
(* (agent-wake.service.ts): it begins the agent run of the event, looks    *)
(* for an order of the requisition, has the policy decide, and issues the  *)
(* order under an idempotency key made of the event.  Each step is a       *)
(* transaction of its own, so that a crash, an expired claim or a second   *)
(* delivery finds the handler anywhere, while people issue and cancel      *)
(* orders of the same requisitions and cancel runs that look stuck, and    *)
(* the retention worker deletes old idempotency keys (retention.service).  *)
(* There is no clock: a key may be old as soon as it is stored.            *)
(*                                                                         *)
(* The relay around the handler is EventRelay, whose phase "handle" is     *)
(* refined by the steps here.  Every event of this module is a             *)
(* requisition.approved.  The handler is subscribed only if AGENT_AUTORUN  *)
(* or AIPMS_AGENT_WAKE is 1.                                               *)
(***************************************************************************)
EXTENDS EventRelay

CONSTANTS
  Requisition,
  RequisitionOf,  \* the requisition of each event
  MaxManual,      \* bound: orders of a requisition that people issue
  MaxPrunes       \* bound: how often the key of an event is deleted

ASSUME WakeAssumption ==
  /\ Subscribed = Event
  /\ RequisitionOf \in [Event -> Requisition]
  /\ MaxManual \in Nat /\ MaxPrunes \in Nat

VARIABLES
  step,     \* where a replica's handler is
  run,      \* status of the agent run with this triggerEventId; "none" without one
  decided,  \* a run of the event ended without an order: gate, or approval needed
  ordered,  \* the requisition has an order that is not cancelled
  keyed,    \* the idempotency key of the event has a stored result
  pruned,   \* how often the key of the event was deleted
  issued,   \* how many orders were issued for the event
  manual    \* how many orders of a requisition people issued

wakeRows == <<run, decided, ordered, keyed, pruned, issued, manual>>
wakeVars == <<relayVars, step, wakeRows>>

WakeInit ==
  /\ RelayInit
  /\ step = [r \in Replica |-> "begin"]
  /\ run = [e \in Event |-> "none"]
  /\ decided = [e \in Event |-> FALSE]
  /\ ordered = [q \in Requisition |-> FALSE]
  /\ keyed = [e \in Event |-> FALSE]
  /\ pruned = [e \in Event |-> 0]
  /\ issued = [e \in Event |-> 0]
  /\ manual = [q \in Requisition |-> 0]

\* The handler of r is at its step s, and goes on to another one.
At(r, s) == phase[r] = "handle" /\ step[r] = s
Goto(r, s) == step' = [step EXCEPT ![r] = s] /\ UNCHANGED relayVars
-----------------------------------------------------------------------------
(* The handler. *)

\* beginRun inserts the run; triggerEventId is unique.
BeginRun(r) ==
  LET e == event[r]
  IN  /\ At(r, "begin")
      /\ IF run[e] = "none"
         THEN run' = [run EXCEPT ![e] = "running"] /\ Goto(r, "look")
         ELSE run' = run /\ Goto(r, "existing")
      /\ UNCHANGED <<decided, ordered, keyed, pruned, issued, manual>>

\* Mutant of NeedsNoMore: a run that has begun is left to whoever began it.
BegunBefore(status) == TRUE

\* shouldProcess is false.
NeedsNoMore(status) == status = "succeeded"

\* beginRun reads the run that exists.
ReadRun(r) ==
  /\ At(r, "existing")
  /\ IF NeedsNoMore(run[event[r]])
     THEN HandlersSucceed(r) /\ UNCHANGED step
     ELSE Goto(r, "reclaim")
  /\ UNCHANGED wakeRows

\* beginRun reclaims it, whatever its status is by now.
ReclaimRun(r) ==
  /\ At(r, "reclaim")
  /\ run' = [run EXCEPT ![event[r]] = "running"]
  /\ Goto(r, "look")
  /\ UNCHANGED <<decided, ordered, keyed, pruned, issued, manual>>

\* An order exists already, the policy refuses one, or it is to be issued.
Look(r) ==
  LET e == event[r]
  IN  /\ At(r, "look")
      /\ IF ordered[RequisitionOf[e]]
         THEN Goto(r, "finish") /\ UNCHANGED decided
         ELSE \/ Goto(r, "issue") /\ UNCHANGED decided
              \/ Goto(r, "finish") /\ decided' = [decided EXCEPT ![e] = TRUE]
      /\ UNCHANGED <<run, ordered, keyed, pruned, issued, manual>>

\* Mutant of Replayed: the key is one of the attempt, not of the event.
NeverReplayed(e) == FALSE

\* runAtomic finds the stored result of the key event:<id>.
Replayed(e) == keyed[e]

\* PurchaseOrderService.issue, with the requisition locked.
HasOrder(q) == ordered[q]

\* issuePurchaseOrder, one transaction: the stored result, a conflict with an existing
\* order, an order, or the request for an approval of the vendor.  Its other refusals are
\* FailRun's, that of a stored result for another vendor included.
IssueOrder(r) ==
  LET e == event[r]
      q == RequisitionOf[e]
  IN  /\ At(r, "issue")
      /\ \/ /\ Replayed(e)
            /\ Goto(r, "finish")
            /\ UNCHANGED <<decided, ordered, keyed, issued>>
         \/ /\ ~Replayed(e) /\ HasOrder(q)
            /\ Goto(r, "recover")
            /\ UNCHANGED <<decided, ordered, keyed, issued>>
         \/ /\ ~Replayed(e) /\ ~HasOrder(q)
            /\ Goto(r, "finish")
            /\ keyed' = [keyed EXCEPT ![e] = TRUE]
            /\ \/ /\ ordered' = [ordered EXCEPT ![q] = TRUE]
                  /\ issued' = [issued EXCEPT ![e] = @ + 1]
                  /\ UNCHANGED decided
               \/ /\ decided' = [decided EXCEPT ![e] = TRUE]
                  /\ UNCHANGED <<ordered, issued>>
      /\ UNCHANGED <<run, pruned, manual>>

\* After a conflict the handler adopts the order that is there, unless it is gone.
Recover(r) ==
  /\ At(r, "recover")
  /\ ordered[RequisitionOf[event[r]]]
  /\ Goto(r, "finish")
  /\ UNCHANGED wakeRows

\* The run is recorded as succeeded, whatever its status is by now.
FinishRun(r) ==
  /\ At(r, "finish")
  /\ run' = [run EXCEPT ![event[r]] = "succeeded"]
  /\ HandlersSucceed(r)
  /\ UNCHANGED <<step, decided, ordered, keyed, pruned, issued, manual>>

\* Anything may fail.  Once the run has begun it is recorded as failed, if the database
\* can be reached, whatever its status is by now.
FailRun(r) ==
  /\ phase[r] = "handle"
  /\ \/ run' = run
     \/ /\ step[r] \in {"look", "issue", "recover", "finish"}
        /\ run' = [run EXCEPT ![event[r]] = "failed"]
  /\ HandlersFail(r)
  /\ UNCHANGED <<step, decided, ordered, keyed, pruned, issued, manual>>

HandlerStep(r) ==
  \/ BeginRun(r)
  \/ ReadRun(r)
  \/ ReclaimRun(r)
  \/ Look(r)
  \/ IssueOrder(r)
  \/ Recover(r)
  \/ FinishRun(r)
  \/ FailRun(r)
-----------------------------------------------------------------------------
(* People and retention. *)

\* A person issues an order of the requisition, under a key of their own.
IssueByHand(q) ==
  /\ ~HasOrder(q) /\ manual[q] < MaxManual
  /\ ordered' = [ordered EXCEPT ![q] = TRUE]
  /\ manual' = [manual EXCEPT ![q] = @ + 1]
  /\ UNCHANGED <<relayVars, step, run, decided, keyed, pruned, issued>>

\* An order is cancelled.
CancelOrder(q) ==
  /\ ordered[q]
  /\ ordered' = [ordered EXCEPT ![q] = FALSE]
  /\ UNCHANGED <<relayVars, step, run, decided, keyed, pruned, issued, manual>>

\* cancelStaleRun: a run that has been running for too long.
CancelStaleRun(e) ==
  /\ run[e] = "running"
  /\ run' = [run EXCEPT ![e] = "cancelled"]
  /\ UNCHANGED <<relayVars, step, decided, ordered, keyed, pruned, issued, manual>>

\* prune deletes the keys that are older than the retention period, in one statement.
PruneKeys(old) ==
  /\ old # {} /\ \A e \in old : keyed[e] /\ pruned[e] < MaxPrunes
  /\ keyed' = [e \in Event |-> keyed[e] /\ e \notin old]
  /\ pruned' = [e \in Event |-> IF e \in old THEN pruned[e] + 1 ELSE pruned[e]]
  /\ UNCHANGED <<relayVars, step, run, decided, ordered, issued, manual>>

\* The relay starts the handler of an event at its beginning.
Relay(r) ==
  /\ RelayStep(r)
  /\ step' = [step EXCEPT ![r] = "begin"]
  /\ UNCHANGED wakeRows

WakeNext ==
  \/ \E r \in Replica : Relay(r) \/ HandlerStep(r)
  \/ (Environment \/ \E r \in Replica : Crash(r)) /\ UNCHANGED <<step, wakeRows>>
  \/ \E q \in Requisition : IssueByHand(q) \/ CancelOrder(q)
  \/ \E e \in Event : CancelStaleRun(e)
  \/ \E old \in SUBSET Event : PruneKeys(old)

WakeSpec == WakeInit /\ [][WakeNext]_wakeVars

\* Replicas go on, as in EventRelay.
WakeFairSpec ==
  /\ WakeSpec
  /\ \A r \in Replica : WF_wakeVars(Relay(r)) /\ WF_wakeVars(HandlerStep(r))
  /\ \A e \in Event : WF_wakeVars(Expire(e) /\ UNCHANGED <<step, wakeRows>>)
-----------------------------------------------------------------------------
(* Properties. *)

WakeTypeOK ==
  /\ RelayTypeOK
  /\ step \in [Replica -> {"begin", "existing", "reclaim", "look", "issue", "recover", "finish"}]
  /\ run \in [Event -> {"none", "running", "failed", "succeeded", "cancelled"}]
  /\ decided \in [Event -> BOOLEAN]
  /\ ordered \in [Requisition -> BOOLEAN]
  /\ keyed \in [Event -> BOOLEAN]
  /\ pruned \in [Event -> 0 .. MaxPrunes]
  /\ issued \in [Event -> Nat]
  /\ manual \in [Requisition -> 0 .. MaxManual]

\* Its requisition was ordered by a handler or by people, or the policy refused to.
Answered(e) ==
  \/ \E d \in Event : RequisitionOf[d] = RequisitionOf[e] /\ issued[d] > 0
  \/ manual[RequisitionOf[e]] > 0
  \/ decided[e]

\* However often an approval is delivered, and whatever becomes of its orders, it is ordered
\* again only after retention deleted the result that was stored with the last order: within
\* the retention period there is one order at most.  While live claims do not expire, what is
\* delivered has been answered, and its trace says so (beginRun: "at-least-once outbox delivery
\* maps to one durable run").
OneOrderPerStoredResult ==
  \A e \in Event :
    /\ issued[e] <= pruned[e] + 1
    /\ pauses = 0 /\ published[e] => Answered(e) /\ run[e] = "succeeded"

\* Every approval is answered or handed to the operators as a dead letter, whatever fails
\* and crashes on the way and although an order may be cancelled under the handler.
EventuallyAnswered ==
  \A e \in Event : []<>(dead[e] \/ Answered(e))
=============================================================================
