--------------------------- MODULE MessageDispatch ---------------------------
(***************************************************************************)
(* The messaging relay (messaging.service.ts and its dispatcher): vendor   *)
(* messages are staged in a transaction, released after it commits, and    *)
(* sent by whichever worker wins the durable claim queued/approved ->      *)
(* sending.  Workers are the requests of the API, which release what they  *)
(* have just staged, and the background dispatchers of its replicas, which *)
(* find what a crash left behind.                                          *)
(*                                                                         *)
(* A worker claims in one transaction, talks to the provider without any   *)
(* lock, and records the outcome in another transaction.  In between it    *)
(* may crash, the provider may have accepted the message or not, and an    *)
(* operator may have decided what became of the attempt.                   *)
(***************************************************************************)
EXTENDS Naturals, FiniteSets

CONSTANTS
  Message,        \* messages, numbered by their age (createdAt, id)
  Automatic,      \* those rendered from an allowlisted template: tier auto, else gated
  Poison,         \* those whose claim always fails on an infrastructure error
  User,           \* finance and procurement principals
  Nobody,         \* no principal, no message
  Caller,         \* requests of the API
  Dispatcher,     \* background dispatchers, one per replica
  BatchSize,      \* MESSAGE_DISPATCH_BATCH_SIZE
  MaxRecoveries,  \* bound: confirmed_not_sent resolutions of a message
  MaxCrashes,     \* bound: crashes of workers
  MaxRequests     \* bound: what people do, submissions and revocations included

ASSUME MessageAssumption ==
  /\ Message \subseteq Nat /\ Automatic \subseteq Message /\ Poison \subseteq Message
  /\ Nobody \notin User
  /\ MaxRecoveries \in Nat /\ MaxCrashes \in Nat /\ MaxRequests \in Nat

Worker == Caller \cup Dispatcher

VARIABLES
  status,      \* message.status; "none" before the row exists
  approvedBy,  \* message.approvedBy: who approved or rejected it
  started,     \* message.dispatchStartedAt: "null", "fresh" or "stale" (over 15 minutes)
  resolution,  \* message.deliveryResolution
  eligible,    \* its vendor is not blacklisted and its recipient a verified contact
  phase,       \* what a worker does next with its message
  target,      \* the message a worker is at
  expected,    \* the status a worker's claim expects
  todo,        \* the rows a dispatcher has selected and not yet tried
  unquiesced,  \* operators resolved a message whose sender was still at work
  delivered,   \* how often the provider accepted a message
  claims,      \* how often a message was claimed
  recoveries,  \* how often a message was confirmed as not sent
  crashes,     \* how often a worker crashed
  requests     \* how many requests people made

rows    == <<status, approvedBy, started, resolution, eligible>>
workers == <<phase, target, expected, todo>>
counts  == <<unquiesced, delivered, claims, recoveries, crashes>>
vars    == <<rows, workers, counts, requests>>

Init ==
  /\ status = [m \in Message |-> "none"]
  /\ approvedBy = [m \in Message |-> Nobody]
  /\ started = [m \in Message |-> "null"]
  /\ resolution = [m \in Message |-> "none"]
  /\ eligible = [m \in Message |-> TRUE]
  /\ phase = [w \in Worker |-> "idle"]
  /\ target = [w \in Worker |-> Nobody]
  /\ expected = [w \in Worker |-> "none"]
  /\ todo = [d \in Dispatcher |-> {}]
  /\ unquiesced = {}
  /\ delivered = [m \in Message |-> 0]
  /\ claims = [m \in Message |-> 0]
  /\ recoveries = [m \in Message |-> 0]
  /\ crashes = 0
  /\ requests = 0
-----------------------------------------------------------------------------
(* Which rows may be sent, and who sends them. *)

\* stagedMessageWhere: authorized, and no earlier attempt is unresolved.
Staged(m) ==
  /\ started[m] = "null"
  /\ \/ status[m] = "queued" /\ m \in Automatic
     \/ status[m] = "approved" /\ approvedBy[m] # Nobody
  /\ resolution[m] \in {"none", "confirmed_not_sent"}

\* Mutant of Claimable: the claim trusts what the worker has read before.
ClaimableAsSelected(m, from) == status[m] # "none"

\* Mutant of Claimable: an operator's or an earlier attempt does not matter.
ClaimableByAnyStatus(m, from) == status[m] \in {from, "failed"}

\* The condition of the update that claims m from the status `from'.
Claimable(m, from) == Staged(m) /\ status[m] = from

\* A worker sets out to release m.
Release(w, m, from) ==
  /\ phase' = [phase EXCEPT ![w] = "claim"]
  /\ target' = [target EXCEPT ![w] = m]
  /\ expected' = [expected EXCEPT ![w] = from]

Idle(w) ==
  /\ phase' = [phase EXCEPT ![w] = "idle"]
  /\ target' = [target EXCEPT ![w] = Nobody]
  /\ expected' = [expected EXCEPT ![w] = "none"]
-----------------------------------------------------------------------------
(* Requests. *)

\* submit: the row is staged; an automatic message is released after the commit.
Submit(c, m) ==
  /\ phase[c] = "idle"
  /\ status[m] = "none"
  /\ eligible[m]
  /\ status' = [status EXCEPT ![m] = "queued"]
  /\ IF m \in Automatic THEN Release(c, m, "queued")
                   ELSE UNCHANGED <<phase, target, expected>>
  /\ UNCHANGED <<approvedBy, started, resolution, eligible, todo, counts>>

\* approve and reject are conditional on the status alone.
MayDecide(m) == status[m] = "queued"

\* approve, then releaseApproved after the commit.
Approve(u, c, m) ==
  /\ phase[c] = "idle"
  /\ MayDecide(m)
  /\ status' = [status EXCEPT ![m] = "approved"]
  /\ approvedBy' = [approvedBy EXCEPT ![m] = u]
  /\ Release(c, m, "approved")
  /\ UNCHANGED <<started, resolution, eligible, todo, counts>>

\* reject
Reject(u, m) ==
  /\ MayDecide(m)
  /\ status' = [status EXCEPT ![m] = "rejected"]
  /\ approvedBy' = [approvedBy EXCEPT ![m] = u]
  /\ UNCHANGED <<started, resolution, eligible, workers, counts>>

AtProvider(m) == \E w \in Worker : target[w] = m /\ phase[w] \in {"send", "accepted", "refused"}

\* What resolveFailedDelivery checks.  It does not see whether the sender is at work.
MayResolve(u, m) ==
  /\ status[m] = "failed" \/ (status[m] = "sending" /\ started[m] = "stale")
  /\ approvedBy[m] # u

\* Whether operators have stopped the sender first is their procedure.
Resolve(u, m) ==
  /\ MayResolve(u, m)
  /\ unquiesced' = IF AtProvider(m) THEN unquiesced \cup {m} ELSE unquiesced

\* resolveFailedDelivery with evidence that the provider has the message.
ConfirmSent(u, m) ==
  /\ Resolve(u, m)
  /\ delivered[m] > 0
  /\ status' = [status EXCEPT ![m] = "sent"]
  /\ resolution' = [resolution EXCEPT ![m] = "confirmed_sent"]
  /\ UNCHANGED <<approvedBy, started, eligible, workers, delivered, claims, recoveries, crashes>>

\* resolveFailedDelivery with evidence that it has not: the row is staged for one more
\* attempt, which the request releases after the commit (releaseRecovered).
ConfirmNotSent(u, c, m) ==
  LET again == IF m \in Automatic THEN "queued" ELSE "approved"
  IN  /\ phase[c] = "idle"
      /\ Resolve(u, m)
      /\ delivered[m] = 0
      /\ recoveries[m] < MaxRecoveries
      /\ status' = [status EXCEPT ![m] = again]
      /\ resolution' = [resolution EXCEPT ![m] = "confirmed_not_sent"]
      /\ started' = [started EXCEPT ![m] = "null"]
      /\ recoveries' = [recoveries EXCEPT ![m] = @ + 1]
      /\ Release(c, m, again)
      /\ UNCHANGED <<approvedBy, eligible, todo, delivered, claims, crashes>>

\* The vendor is blacklisted or the recipient no longer a verified contact.
Revoke(m) ==
  /\ eligible[m]
  /\ eligible' = [eligible EXCEPT ![m] = FALSE]
  /\ UNCHANGED <<status, approvedBy, started, resolution, workers, counts>>
-----------------------------------------------------------------------------
(* Dispatchers. *)

\* Mutant of Batch: approved messages are left to the request that approved them.
BatchOfAutomatic ==
  {m \in Message : Staged(m) /\ status[m] = "queued"}

\* The oldest staged rows.
Batch ==
  {m \in Message : Staged(m) /\ Cardinality({k \in Message : Staged(k) /\ k < m}) < BatchSize}

\* poll selects a batch, with the status each row has now.
Poll(d) ==
  /\ phase[d] = "idle"
  /\ todo[d] = {}
  /\ Batch # {}
  /\ todo' = [todo EXCEPT ![d] = {<<m, status[m]>> : m \in Batch}]
  /\ UNCHANGED <<rows, phase, target, expected, counts>>

\* and works through it, oldest first.
Take(d) ==
  /\ phase[d] = "idle"
  /\ \E next \in todo[d] :
       /\ \A other \in todo[d] : next[1] <= other[1]
       /\ Release(d, next[1], next[2])
       /\ todo' = [todo EXCEPT ![d] = @ \ {next}]
  /\ UNCHANGED <<rows, counts>>
-----------------------------------------------------------------------------
(* claimAndDispatch. *)

\* The claim's transaction.  A row that is not claimable is left to its owner; an
\* infrastructure error rolls back; a message that may no longer be sent fails.
Claim(w) ==
  LET m == target[w]
  IN  /\ phase[w] = "claim"
      /\ IF ~Claimable(m, expected[w]) \/ m \in Poison
         THEN Idle(w) /\ UNCHANGED <<rows, claims>>
         ELSE /\ started' = [started EXCEPT ![m] = "fresh"]
              /\ IF eligible[m]
                 THEN /\ status' = [status EXCEPT ![m] = "sending"]
                      /\ claims' = [claims EXCEPT ![m] = @ + 1]
                      /\ phase' = [phase EXCEPT ![w] = "send"]
                      /\ UNCHANGED <<target, expected>>
                 ELSE /\ status' = [status EXCEPT ![m] = "failed"]
                      /\ Idle(w)
                      /\ UNCHANGED claims
              /\ UNCHANGED <<approvedBy, resolution, eligible>>
      /\ UNCHANGED <<todo, unquiesced, delivered, recoveries, crashes>>

\* The provider accepts the message or not, and its answer arrives or not: an error
\* does not mean that the message was not accepted.
Transport(w) ==
  LET m == target[w]
  IN  /\ phase[w] = "send"
      /\ \E accepted \in BOOLEAN, answer \in {"accepted", "refused"} :
           /\ answer = "accepted" => accepted
           /\ phase' = [phase EXCEPT ![w] = answer]
           /\ delivered' = [delivered EXCEPT ![m] = IF accepted THEN @ + 1 ELSE @]
      /\ UNCHANGED <<rows, target, expected, todo, unquiesced, claims, recoveries, crashes>>

\* Mutant of Outcomes: an error of the provider is taken for a delivery.
SentAnyway(answer) == {"sent"}

\* The update that records the answer.  If recording a delivery fails the message is
\* recorded as failed.
Outcomes(answer) == IF answer = "accepted" THEN {"sent", "failed"} ELSE {"failed"}

Record(w) ==
  LET m == target[w]
  IN  /\ phase[w] \in {"accepted", "refused"}
      /\ \E next \in Outcomes(phase[w]) :
           status' = IF status[m] = "sending" THEN [status EXCEPT ![m] = next] ELSE status
      /\ Idle(w)
      /\ UNCHANGED <<approvedBy, started, resolution, eligible, todo, counts>>
-----------------------------------------------------------------------------
\* A claim grows older than EXTERNAL_DISPATCH_STALE_MS.
GrowStale(m) ==
  /\ status[m] = "sending"
  /\ started[m] = "fresh"
  /\ started' = [started EXCEPT ![m] = "stale"]
  /\ UNCHANGED <<status, approvedBy, resolution, eligible, workers, counts>>

\* A worker's process ends; the rows stay as they are.  Before it does, the provider may
\* have accepted what it was sending.
Crash(w) ==
  /\ crashes < MaxCrashes
  /\ phase[w] # "idle" \/ (w \in Dispatcher /\ todo[w] # {})
  /\ crashes' = crashes + 1
  /\ Idle(w)
  /\ todo' = IF w \in Dispatcher THEN [todo EXCEPT ![w] = {}] ELSE todo
  /\ \/ UNCHANGED delivered
     \/ /\ phase[w] = "send"
        /\ delivered' = [delivered EXCEPT ![target[w]] = @ + 1]
  /\ UNCHANGED <<rows, unquiesced, claims, recoveries>>

RequestStep ==
  /\ requests < MaxRequests
  /\ requests' = requests + 1
  /\ \E m \in Message :
       \/ Revoke(m)
       \/ \E c \in Caller : Submit(c, m)
       \/ \E u \in User : \/ Reject(u, m)
                          \/ ConfirmSent(u, m)
                          \/ \E c \in Caller : Approve(u, c, m) \/ ConfirmNotSent(u, c, m)

WorkerStep(w) ==
  /\ \/ w \in Dispatcher /\ (Poll(w) \/ Take(w))
     \/ Claim(w)
     \/ Transport(w)
     \/ Record(w)
  /\ UNCHANGED requests

Next ==
  \/ RequestStep
  \/ \E w \in Worker : WorkerStep(w)
  \/ (\E w \in Worker : Crash(w)) /\ UNCHANGED requests
  \/ (\E m \in Message : GrowStale(m)) /\ UNCHANGED requests

Spec == Init /\ [][Next]_vars

\* A worker that runs goes on: the dispatcher's timer fires again and again, and the
\* provider's answer or a socket timeout arrives.
FairSpec == Spec /\ \A w \in Worker : WF_vars(WorkerStep(w))
-----------------------------------------------------------------------------
(* Properties. *)

TypeOK ==
  /\ status \in [Message -> {"none", "queued", "approved", "rejected", "sending", "sent",
                             "failed"}]
  /\ approvedBy \in [Message -> User \cup {Nobody}]
  /\ started \in [Message -> {"null", "fresh", "stale"}]
  /\ resolution \in [Message -> {"none", "confirmed_sent", "confirmed_not_sent"}]
  /\ eligible \in [Message -> BOOLEAN]
  /\ phase \in [Worker -> {"idle", "claim", "send", "accepted", "refused"}]
  /\ target \in [Worker -> Message \cup {Nobody}]
  /\ expected \in [Worker -> {"none", "queued", "approved"}]
  /\ todo \in [Dispatcher -> SUBSET (Message \X {"queued", "approved"})]
  /\ unquiesced \subseteq Message
  /\ delivered \in [Message -> Nat]
  /\ claims \in [Message -> Nat]
  /\ recoveries \in [Message -> 0 .. MaxRecoveries]
  /\ crashes \in 0 .. MaxCrashes
  /\ requests \in 0 .. MaxRequests

\* No crash, no race of callers and dispatchers and no recovery makes the provider
\* accept a message twice, unless operators resolved it while its sender was at work
\* (claimAndDispatch; the quiescing that docs/message-dispatch-recovery.md asks for).
AtMostOneDelivery == \A m \in Message \ unquiesced : delivered[m] <= 1

\* A message recorded as sent was accepted by the provider, and one that was accepted is
\* not staged for another attempt, under the same proviso.
RecordMatchesProvider ==
  \A m \in Message \ unquiesced :
    /\ status[m] = "sent" => delivered[m] > 0
    /\ delivered[m] > 0 => ~Staged(m)

\* Even with late senders around, every claim is authorized: one for the submission or
\* approval and one for each confirmed_not_sent (stagedMessageWhere); and a message of the
\* gated tier is claimed only after a human approved it, a rejected one never.
OneClaimPerAuthorization ==
  \A m \in Message :
    /\ claims[m] <= 1 + recoveries[m]
    /\ m \notin Automatic /\ claims[m] > 0 =>
         approvedBy[m] # Nobody /\ status[m] \notin {"queued", "rejected"}

\* Whatever is staged leaves the outbox, also when the request that staged it crashed
\* before its release and when older messages cannot be claimed at all, as long as these
\* are fewer than a batch (MessageDispatcherService.poll).
StagedIsHandled ==
  \A m \in Message \ Poison : Staged(m) ~> ~Staged(m)
=============================================================================
