----------------------------- MODULE EventRelay -----------------------------
(***************************************************************************)
(* The relay of the transactional outbox (event-relay.service.ts).  Every  *)
(* replica polls the table of domain events, claims the oldest event that  *)
(* nobody holds a live claim on, runs its handlers, and publishes it or    *)
(* records a failed attempt.  A claim is a lease: it expires unless the    *)
(* heartbeat of its holder renews it, so that the events of a crashed      *)
(* replica are handled by another one.                                     *)
(*                                                                         *)
(* A replica handles one event at a time, so its claims are told apart by  *)
(* the replica that holds them: dispatchClaimId is a replica here.  Time   *)
(* is the expiry of claims: at once possible for those of a crashed        *)
(* replica, and MaxPauses times for those of a live one whose heartbeat    *)
(* stops (a suspended process, a database that cannot be reached).         *)
(*                                                                         *)
(* What the handlers do is not modelled here; AgentWake does.              *)
(***************************************************************************)
EXTENDS Naturals, FiniteSets

CONSTANTS
  Event,        \* rows of the outbox, numbered by their age (createdAt)
  Subscribed,   \* those of a type that has handlers
  Replica,      \* processes of the API, each with a relay
  Nobody,       \* no replica, no event
  PollSize,     \* events a poll handles at most (50)
  MaxAttempts,  \* EVENT_RELAY_MAX_ATTEMPTS
  MaxPauses,    \* bound: claims of a live replica that expire
  MaxCrashes,   \* bound: crashes of replicas
  MaxRequeues   \* bound: requeues by operators

ASSUME RelayAssumption ==
  /\ Event \subseteq Nat /\ Subscribed \subseteq Event
  /\ Nobody \notin Replica \cup Event
  /\ PollSize \in Nat \ {0} /\ MaxAttempts \in Nat \ {0}
  /\ MaxPauses \in Nat /\ MaxCrashes \in Nat /\ MaxRequeues \in Nat

VARIABLES
  published,  \* publishedAt is set
  dead,       \* deadLetteredAt is set
  attempts,   \* attemptCount
  claim,      \* dispatchClaimId
  stale,      \* dispatchClaimedAt is older than the lease
  phase,      \* where a replica's poll is
  event,      \* the event it is at
  seen,       \* the attemptCount it has read
  attempted,  \* the events its current poll has tried
  lease,      \* its claim has not expired since it took it
  pauses, crashes, requeues

rows     == <<published, dead, attempts, claim, stale>>
replicas == <<phase, event, seen, attempted, lease>>
bounds   == <<pauses, crashes, requeues>>
relayVars == <<rows, replicas, bounds>>

RelayInit ==
  /\ published = [e \in Event |-> FALSE]
  /\ dead = [e \in Event |-> FALSE]
  /\ attempts = [e \in Event |-> 0]
  /\ claim = [e \in Event |-> Nobody]
  /\ stale = [e \in Event |-> FALSE]
  /\ phase = [r \in Replica |-> "idle"]
  /\ event = [r \in Replica |-> Nobody]
  /\ seen = [r \in Replica |-> 0]
  /\ attempted = [r \in Replica |-> {}]
  /\ lease = [r \in Replica |-> FALSE]
  /\ pauses = 0 /\ crashes = 0 /\ requeues = 0

\* Done with its event, a replica goes on with its poll ...
Leave(r, tried) ==
  /\ phase' = [phase EXCEPT ![r] = "idle"]
  /\ event' = [event EXCEPT ![r] = Nobody]
  /\ seen' = [seen EXCEPT ![r] = 0]
  /\ lease' = [lease EXCEPT ![r] = FALSE]
  /\ attempted' = [attempted EXCEPT ![r] = tried]

\* ... or an error ends the poll: the next one starts afresh.
AbortPoll(r) == Leave(r, {})
-----------------------------------------------------------------------------
\* Mutant of Claimable: the lease of a claim is not looked at.
ClaimableInAnyCase(r, e) == ~published[e] /\ ~dead[e] /\ e \notin attempted[r]

\* Mutant of Claimable: claims do not expire.
ClaimableIfUnclaimed(r, e) ==
  ~published[e] /\ ~dead[e] /\ e \notin attempted[r] /\ claim[e] = Nobody

\* The selection of claimNext.
Claimable(r, e) ==
  /\ ~published[e] /\ ~dead[e]
  /\ e \notin attempted[r]
  /\ claim[e] = Nobody \/ stale[e]

\* claimNext takes the oldest; one with an expired claim may be locked by its holder at
\* this moment and is then skipped.
ClaimNext(r) ==
  /\ phase[r] = "idle"
  /\ Cardinality(attempted[r]) < PollSize
  /\ \E e \in Event :
       /\ Claimable(r, e)
       /\ \A k \in Event : k < e /\ Claimable(r, k) => claim[k] # Nobody
       /\ claim' = [claim EXCEPT ![e] = r]
       /\ stale' = [stale EXCEPT ![e] = FALSE]
       /\ event' = [event EXCEPT ![r] = e]
       /\ attempted' = [attempted EXCEPT ![r] = @ \cup {e}]
       /\ phase' = [phase EXCEPT ![r] = IF e \in Subscribed THEN "handle" ELSE "publish"]
  /\ lease' = [lease EXCEPT ![r] = TRUE]
  /\ UNCHANGED <<published, dead, attempts, seen, bounds>>

\* The poll is over: nothing is left to claim, or it has tried enough.
EndPoll(r) ==
  /\ phase[r] = "idle"
  /\ attempted[r] # {}
  /\ Cardinality(attempted[r]) = PollSize \/ \A e \in Event : ~Claimable(r, e)
  /\ attempted' = [attempted EXCEPT ![r] = {}]
  /\ UNCHANGED <<rows, phase, event, seen, lease, bounds>>

HandlersSucceed(r) ==
  /\ phase[r] = "handle"
  /\ phase' = [phase EXCEPT ![r] = "publish"]
  /\ UNCHANGED <<rows, event, seen, attempted, lease, bounds>>

HandlersFail(r) ==
  /\ phase[r] = "handle"
  /\ phase' = [phase EXCEPT ![r] = "fail"]
  /\ UNCHANGED <<rows, event, seen, attempted, lease, bounds>>

\* markPublished, conditional on the claim.  Losing it counts as a failure of the
\* handlers, and ends the poll for an event without any.
MarkPublished(r) ==
  LET e == event[r]
  IN  /\ phase[r] = "publish"
      /\ IF claim[e] = r /\ ~published[e]
         THEN /\ published' = [published EXCEPT ![e] = TRUE]
              /\ claim' = [claim EXCEPT ![e] = Nobody]
              /\ stale' = [stale EXCEPT ![e] = FALSE]
              /\ Leave(r, attempted[r])
              /\ UNCHANGED <<dead, attempts>>
         ELSE /\ IF e \in Subscribed
                 THEN /\ phase' = [phase EXCEPT ![r] = "fail"]
                      /\ UNCHANGED <<event, seen, attempted, lease>>
                 ELSE AbortPoll(r)
              /\ UNCHANGED rows
      /\ UNCHANGED bounds

\* recordFailure reads the row by the claim, without a lock ...
ReadFailure(r) ==
  LET e == event[r]
  IN  /\ phase[r] = "fail"
      /\ IF claim[e] = r
         THEN /\ phase' = [phase EXCEPT ![r] = "write"]
              /\ seen' = [seen EXCEPT ![r] = attempts[e]]
              /\ UNCHANGED <<event, attempted, lease>>
         ELSE AbortPoll(r)
      /\ UNCHANGED <<rows, bounds>>

Exhausted(n) == n >= MaxAttempts

\* ... and updates it by its id, whoever has the claim by then.
WriteFailure(r) ==
  LET e == event[r]
      n == seen[r] + 1
  IN  /\ phase[r] = "write"
      /\ attempts' = [attempts EXCEPT ![e] = n]
      /\ dead' = [dead EXCEPT ![e] = @ \/ Exhausted(n)]
      /\ claim' = [claim EXCEPT ![e] = Nobody]
      /\ stale' = [stale EXCEPT ![e] = FALSE]
      /\ Leave(r, attempted[r])
      /\ UNCHANGED <<published, bounds>>

\* The statements of the relay itself.
RelayStep(r) ==
  \/ ClaimNext(r)
  \/ EndPoll(r)
  \/ MarkPublished(r)
  \/ ReadFailure(r)
  \/ WriteFailure(r)
-----------------------------------------------------------------------------
Busy(r) == phase[r] # "idle"

\* keepClaimAlive renews the claim as long as the handlers run.
Heartbeat(r) ==
  /\ phase[r] \in {"handle", "publish", "fail", "write"}
  /\ event[r] \in Subscribed
  /\ claim[event[r]] = r /\ ~published[event[r]]
  /\ stale[event[r]]
  /\ stale' = [stale EXCEPT ![event[r]] = FALSE]
  /\ UNCHANGED <<published, dead, attempts, claim, replicas, bounds>>

\* A claim that nobody renews any more expires.
Expire(e) ==
  /\ claim[e] # Nobody /\ ~stale[e]
  /\ event[claim[e]] # e
  /\ stale' = [stale EXCEPT ![e] = TRUE]
  /\ UNCHANGED <<published, dead, attempts, claim, replicas, bounds>>

\* The heartbeat of a live replica stops for longer than the lease.
Pause(r) ==
  /\ Busy(r) /\ pauses < MaxPauses
  /\ claim[event[r]] = r /\ ~stale[event[r]]
  /\ stale' = [stale EXCEPT ![event[r]] = TRUE]
  /\ lease' = [lease EXCEPT ![r] = FALSE]
  /\ pauses' = pauses + 1
  /\ UNCHANGED <<published, dead, attempts, claim, phase, event, seen, attempted, crashes, requeues>>

\* A replica's process ends and starts again.
Crash(r) ==
  /\ Busy(r) /\ crashes < MaxCrashes
  /\ AbortPoll(r)
  /\ crashes' = crashes + 1
  /\ UNCHANGED <<rows, pauses, requeues>>

\* requeue: an operator gives a dead-lettered event all its attempts back.
Requeue(e) ==
  /\ dead[e] /\ ~published[e] /\ requeues < MaxRequeues
  /\ dead' = [dead EXCEPT ![e] = FALSE]
  /\ attempts' = [attempts EXCEPT ![e] = 0]
  /\ claim' = [claim EXCEPT ![e] = Nobody]
  /\ stale' = [stale EXCEPT ![e] = FALSE]
  /\ requeues' = requeues + 1
  /\ UNCHANGED <<published, replicas, pauses, crashes>>

Environment ==
  \/ \E r \in Replica : Heartbeat(r) \/ Pause(r)
  \/ \E e \in Event : Expire(e) \/ Requeue(e)

RelayNext ==
  \/ \E r \in Replica : RelayStep(r) \/ HandlersSucceed(r) \/ HandlersFail(r) \/ Crash(r)
  \/ Environment

RelaySpec == RelayInit /\ [][RelayNext]_relayVars

\* A replica's timer fires again and again, handlers end, and time passes for the claims
\* that nobody renews.
RelayFairness ==
  /\ \A r \in Replica :
       /\ WF_relayVars(RelayStep(r))
       /\ WF_relayVars(HandlersSucceed(r) \/ HandlersFail(r))
  /\ \A e \in Event : WF_relayVars(Expire(e))

RelayFairSpec == RelaySpec /\ RelayFairness
-----------------------------------------------------------------------------
(* Properties. *)

RelayTypeOK ==
  /\ published \in [Event -> BOOLEAN]
  /\ dead \in [Event -> BOOLEAN]
  /\ attempts \in [Event -> 0 .. MaxAttempts]
  /\ claim \in [Event -> Replica \cup {Nobody}]
  /\ stale \in [Event -> BOOLEAN]
  /\ phase \in [Replica -> {"idle", "handle", "publish", "fail", "write"}]
  /\ event \in [Replica -> Event \cup {Nobody}]
  /\ seen \in [Replica -> 0 .. MaxAttempts - 1]
  /\ attempted \in [Replica -> SUBSET Event]
  /\ lease \in [Replica -> BOOLEAN]
  /\ pauses \in 0 .. MaxPauses /\ crashes \in 0 .. MaxCrashes /\ requeues \in 0 .. MaxRequeues

\* "A durable, expiring database claim ensures only one API replica dispatches an event
\* at a time": no two replicas whose claims have not expired are at the same event.
OneLeasedDispatcher ==
  \A r, s \in Replica :
    r # s /\ lease[r] /\ lease[s] => event[r] # event[s]

\* The lists of dead letters and of delivered events are disjoint, and no claim on a
\* settled event is left (markPublished, recordFailure).
SettledOnce ==
  \A e \in Event :
    /\ ~(published[e] /\ dead[e])
    /\ published[e] \/ dead[e] => claim[e] = Nobody /\ \A r \in Replica : event[r] # e

\* While the heartbeats of live replicas renew their claims, neither a crash nor the expiry
\* of the claims it leaves behind puts two replicas at an event or has it settled twice.
ExclusiveWhileRenewed == pauses = 0 => OneLeasedDispatcher /\ SettledOnce

\* No crash, failure or pause leaves an event in the outbox for ever: it is published, or
\* a dead letter for the operators ("failures retry and eventually dead-letter without
\* blocking the rest of the queue").
EventuallySettled == \A e \in Event : []<>(published[e] \/ dead[e])
=============================================================================
