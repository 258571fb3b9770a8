------------------------------ MODULE WakeProofs ------------------------------
(***************************************************************************)
(* Proofs about EventRelay and AgentWake, for any events, replicas and     *)
(* requisitions, any limits, and any number of crashes, expired claims,    *)
(* requeues, orders of people and deletions of old keys.                   *)
(***************************************************************************)
EXTENDS AgentWake, TLAPS

-----------------------------------------------------------------------------
(* The relay. *)

\* A dead letter is claimed by nobody, and an event that has used up its attempts is one.
DeadInv ==
  \A e \in Event :
    /\ dead[e] => claim[e] = Nobody
    /\ attempts[e] = MaxAttempts => dead[e]

IdleInv == \A r \in Replica : phase[r] = "idle" <=> event[r] = Nobody

\* While claims are renewed, a replica that is at an event holds its claim, alone and not
\* yet settled; only such a replica has a lease.
HoldInv ==
  pauses = 0 =>
    /\ \A r \in Replica : event[r] # Nobody => /\ claim[event[r]] = r /\ ~stale[event[r]]
                                               /\ ~published[event[r]] /\ ~dead[event[r]]
    /\ \A r \in Replica : lease[r] => event[r] # Nobody
    /\ \A e \in Event : published[e] => claim[e] = Nobody /\ ~dead[e]

RelayIInv == RelayTypeOK /\ DeadInv /\ IdleInv /\ HoldInv

LEMMA RelayInitIInv == RelayInit => RelayIInv
  BY RelayAssumption DEF RelayInit, RelayIInv, RelayTypeOK, DeadInv, IdleInv, HoldInv

LEMMA LeaveType ==
  ASSUME RelayTypeOK, NEW r \in Replica, NEW tried \in SUBSET Event, Leave(r, tried)
  PROVE  /\ phase' \in [Replica -> {"idle", "handle", "publish", "fail", "write"}]
         /\ event' \in [Replica -> Event \cup {Nobody}]
         /\ seen' \in [Replica -> 0 .. MaxAttempts - 1]
         /\ attempted' \in [Replica -> SUBSET Event]
         /\ lease' \in [Replica -> BOOLEAN]
         /\ event'[r] = Nobody /\ phase'[r] = "idle" /\ ~lease'[r]
         /\ \A s \in Replica \ {r} : event'[s] = event[s] /\ phase'[s] = phase[s] /\ lease'[s] = lease[s]
  BY RelayAssumption DEF RelayTypeOK, Leave

\* Whoever leaves its event takes nothing from the others.
LEMMA LeaveIInv ==
  ASSUME RelayIInv, NEW r \in Replica, NEW tried \in SUBSET Event, Leave(r, tried), UNCHANGED rows,
         pauses' = pauses, crashes' \in 0 .. MaxCrashes, requeues' = requeues
  PROVE  RelayIInv'
  <1> USE DEF RelayIInv
  <1>1. RelayTypeOK'
    BY LeaveType DEF RelayTypeOK, rows
  <1>2. DeadInv' /\ IdleInv' /\ HoldInv'
    BY LeaveType DEF RelayTypeOK, DeadInv, IdleInv, HoldInv, rows
  <1> QED
    BY <1>1, <1>2

\* A replica that settles, releases or requeues an event takes nothing from those at others.
LEMMA SettleHold ==
  ASSUME RelayIInv, NEW e \in Event, pauses' = pauses,
         claim' = [claim EXCEPT ![e] = Nobody], stale' = [stale EXCEPT ![e] = FALSE],
         \A d \in Event \ {e} : published'[d] = published[d] /\ dead'[d] = dead[d],
         pauses = 0 => \A s \in Replica : event'[s] # e /\ (event'[s] = Nobody \/ event'[s] = event[s]),
         pauses = 0 => \A s \in Replica : lease'[s] => lease[s] /\ event'[s] = event[s],
         pauses = 0 => ~(published'[e] /\ dead'[e])
  PROVE  HoldInv'
  <1> SUFFICES ASSUME pauses = 0
               PROVE  HoldInv'
    BY DEF HoldInv
  <1>1. \A d \in Event \ {e} : claim'[d] = claim[d] /\ stale'[d] = stale[d]
    BY DEF RelayIInv, RelayTypeOK
  <1>2. claim'[e] = Nobody
    BY DEF RelayIInv, RelayTypeOK
  <1>3. ASSUME NEW s \in Replica, event'[s] # Nobody
        PROVE  /\ claim'[event'[s]] = s /\ ~stale'[event'[s]]
               /\ ~published'[event'[s]] /\ ~dead'[event'[s]]
    <2>1. event'[s] = event[s] /\ event[s] \in Event \ {e}
      BY <1>3 DEF RelayIInv, RelayTypeOK
    <2> QED
      BY <2>1, <1>1, <1>3 DEF RelayIInv, HoldInv
  <1>4. \A s \in Replica : lease'[s] => event'[s] # Nobody
    BY DEF RelayIInv, HoldInv
  <1>5. \A d \in Event : published'[d] => claim'[d] = Nobody /\ ~dead'[d]
    BY <1>1, <1>2 DEF RelayIInv, HoldInv
  <1> QED
    BY <1>3, <1>4, <1>5 DEF HoldInv

LEMMA ClaimNextIInv ==
  ASSUME RelayIInv, NEW r \in Replica, ClaimNext(r)
  PROVE  RelayIInv'
  <1> USE DEF RelayIInv
  <1>1. PICK e \in Event :
          /\ Claimable(r, e)
          /\ claim' = [claim EXCEPT ![e] = r]
          /\ stale' = [stale EXCEPT ![e] = FALSE]
          /\ event' = [event EXCEPT ![r] = e]
          /\ attempted' = [attempted EXCEPT ![r] = @ \cup {e}]
          /\ phase' = [phase EXCEPT ![r] = IF e \in Subscribed THEN "handle" ELSE "publish"]
    BY DEF ClaimNext
  <1>2. UNCHANGED <<published, dead, attempts, seen, bounds>> /\ lease' = [lease EXCEPT ![r] = TRUE]
    BY DEF ClaimNext
  <1>3. RelayTypeOK'
    BY <1>1, <1>2 DEF RelayTypeOK, bounds
  <1>4. DeadInv' /\ IdleInv'
    BY <1>1, <1>2, RelayAssumption DEF RelayTypeOK, Claimable, DeadInv, IdleInv
  <1>5. HoldInv'
    <2> SUFFICES ASSUME pauses = 0
                 PROVE  HoldInv'
      BY <1>2 DEF HoldInv, bounds
    <2>1. ~published[e] /\ ~dead[e] /\ (claim[e] = Nobody \/ stale[e])
      BY <1>1 DEF Claimable
    <2>2. \A s \in Replica : event[s] # e
      BY <2>1, RelayAssumption DEF HoldInv
    <2>3. \A s \in Replica \ {r} :
            /\ event'[s] = event[s] /\ lease'[s] = lease[s]
            /\ event[s] # Nobody => claim'[event[s]] = claim[event[s]] /\ stale'[event[s]] = stale[event[s]]
      BY <1>1, <1>2, <2>2 DEF RelayTypeOK
    <2>4. event'[r] = e /\ claim'[e] = r /\ ~stale'[e]
      BY <1>1 DEF RelayTypeOK
    <2>5. \A d \in Event : published'[d] => claim'[d] = Nobody /\ ~dead'[d]
      BY <1>1, <1>2, <2>1 DEF RelayTypeOK, HoldInv
    <2> QED
      BY <1>2, <2>1, <2>3, <2>4, <2>5, RelayAssumption DEF HoldInv
  <1> QED
    BY <1>3, <1>4, <1>5

LEMMA MarkPublishedIInv ==
  ASSUME RelayIInv, NEW r \in Replica, MarkPublished(r)
  PROVE  RelayIInv'
  <1> USE DEF RelayIInv
  <1> DEFINE e == event[r]
  <1>1. phase[r] = "publish" /\ e \in Event /\ UNCHANGED bounds
    BY DEF MarkPublished, IdleInv, RelayTypeOK
  <1>2. CASE claim[e] = r /\ ~published[e]
    <2>1. /\ published' = [published EXCEPT ![e] = TRUE]
          /\ claim' = [claim EXCEPT ![e] = Nobody]
          /\ stale' = [stale EXCEPT ![e] = FALSE]
          /\ Leave(r, attempted[r])
          /\ UNCHANGED <<dead, attempts>>
      BY <1>2 DEF MarkPublished
    <2>2. ~dead[e]
      BY <1>1, <1>2, RelayAssumption DEF DeadInv
    <2>3. RelayTypeOK'
      <3>1. attempted[r] \in SUBSET Event
        BY DEF RelayTypeOK
      <3> QED
        BY <1>1, <2>1, <3>1, LeaveType DEF RelayTypeOK, bounds
    <2>4. DeadInv' /\ IdleInv'
      BY <1>1, <2>1 DEF DeadInv, IdleInv, RelayTypeOK, Leave
    <2>5. HoldInv'
      <3>1. pauses = 0 => \A s \in Replica \ {r} : event[s] # e
        BY <1>1, <1>2, RelayAssumption DEF HoldInv
      <3>2. /\ event'[r] = Nobody /\ ~lease'[r]
            /\ \A s \in Replica \ {r} : event'[s] = event[s] /\ lease'[s] = lease[s]
        BY <2>1 DEF Leave, RelayTypeOK
      <3>3. ~dead'[e] /\ \A d \in Event \ {e} : published'[d] = published[d] /\ dead'[d] = dead[d]
        BY <2>1, <2>2 DEF RelayTypeOK
      <3>4. pauses' = pauses
        BY <1>1 DEF bounds
      <3>5. pauses = 0 => \A s \in Replica : event'[s] # e /\ (event'[s] = Nobody \/ event'[s] = event[s])
        BY <1>1, <3>1, <3>2, RelayAssumption
      <3>6. pauses = 0 => \A s \in Replica : lease'[s] => lease[s] /\ event'[s] = event[s]
        BY <3>2
      <3> HIDE DEF e
      <3> QED
        BY <1>1, <2>1, <3>3, <3>4, <3>5, <3>6, SettleHold
    <2> QED
      BY <2>3, <2>4, <2>5
  <1>3. CASE ~(claim[e] = r /\ ~published[e])
    <2>1. CASE e \in Subscribed
      <3>1. /\ phase' = [phase EXCEPT ![r] = "fail"]
            /\ UNCHANGED <<rows, event, seen, attempted, lease>>
        BY <1>3, <2>1 DEF MarkPublished
      <3>2. RelayTypeOK'
        BY <1>1, <3>1 DEF RelayTypeOK, rows, bounds
      <3>3. DeadInv' /\ HoldInv'
        BY <1>1, <3>1 DEF DeadInv, HoldInv, rows, bounds
      <3>4. IdleInv'
        BY <1>1, <3>1, RelayAssumption DEF IdleInv, RelayTypeOK
      <3> QED
        BY <3>2, <3>3, <3>4
    <2>2. CASE e \notin Subscribed
      <3>1. Leave(r, {}) /\ UNCHANGED rows
        BY <1>3, <2>2 DEF MarkPublished, AbortPoll
      <3> QED
        BY <1>1, <3>1, LeaveIInv DEF RelayTypeOK, bounds
    <2> QED
      BY <2>1, <2>2
  <1> QED
    BY <1>2, <1>3

LEMMA WriteFailureIInv ==
  ASSUME RelayIInv, NEW r \in Replica, WriteFailure(r)
  PROVE  RelayIInv'
  <1> USE DEF RelayIInv
  <1> DEFINE e == event[r]
             n == seen[r] + 1
  <1>1. /\ e \in Event /\ n \in 1 .. MaxAttempts
        /\ attempts' = [attempts EXCEPT ![e] = n]
        /\ dead' = [dead EXCEPT ![e] = dead[e] \/ n >= MaxAttempts]
        /\ claim' = [claim EXCEPT ![e] = Nobody]
        /\ stale' = [stale EXCEPT ![e] = FALSE]
        /\ Leave(r, attempted[r])
        /\ UNCHANGED <<published, bounds>>
    BY RelayAssumption DEF WriteFailure, IdleInv, RelayTypeOK, Exhausted
  <1>2. RelayTypeOK'
    <2>1. attempted[r] \in SUBSET Event
      BY DEF RelayTypeOK
    <2>2. attempts' \in [Event -> 0 .. MaxAttempts] /\ dead' \in [Event -> BOOLEAN]
      BY <1>1 DEF RelayTypeOK
    <2> QED
      BY <1>1, <2>1, <2>2, LeaveType DEF RelayTypeOK, bounds
  <1>3. DeadInv'
    <2>1. \A d \in Event \ {e} : dead'[d] = dead[d] /\ claim'[d] = claim[d] /\ attempts'[d] = attempts[d]
      BY <1>1 DEF RelayTypeOK
    <2>2. claim'[e] = Nobody /\ attempts'[e] = n /\ dead'[e] = (dead[e] \/ n >= MaxAttempts)
      BY <1>1 DEF RelayTypeOK
    <2>3. n = MaxAttempts => n >= MaxAttempts
      BY <1>1, RelayAssumption
    <2> HIDE DEF e, n
    <2> QED
      BY <1>1, <2>1, <2>2, <2>3 DEF DeadInv
  <1>4. IdleInv'
    BY <1>1 DEF IdleInv, Leave, RelayTypeOK
  <1>5. HoldInv'
    <2>1. /\ event'[r] = Nobody /\ ~lease'[r]
          /\ \A s \in Replica \ {r} : event'[s] = event[s] /\ lease'[s] = lease[s]
      BY <1>1 DEF Leave, RelayTypeOK
    <2>2. pauses = 0 => ~published[e] /\ \A s \in Replica \ {r} : event[s] # e
      BY <1>1, RelayAssumption DEF HoldInv
    <2>3. \A d \in Event \ {e} : published'[d] = published[d] /\ dead'[d] = dead[d]
      BY <1>1 DEF RelayTypeOK
    <2>4. pauses' = pauses /\ published' = published
      BY <1>1 DEF bounds
    <2>5. pauses = 0 => \A s \in Replica : event'[s] # e /\ (event'[s] = Nobody \/ event'[s] = event[s])
      BY <1>1, <2>1, <2>2, RelayAssumption
    <2>6. pauses = 0 => \A s \in Replica : lease'[s] => lease[s] /\ event'[s] = event[s]
      BY <2>1
    <2>7. pauses = 0 => ~(published'[e] /\ dead'[e])
      BY <2>2, <2>4
    <2> HIDE DEF e
    <2> QED
      BY <1>1, <2>3, <2>4, <2>5, <2>6, <2>7, SettleHold
  <1> QED
    BY <1>2, <1>3, <1>4, <1>5

LEMMA RelayStepIInv ==
  ASSUME RelayIInv, NEW r \in Replica, RelayStep(r)
  PROVE  RelayIInv'
  <1>1. CASE EndPoll(r)
    <2>1. RelayTypeOK'
      BY <1>1 DEF RelayIInv, RelayTypeOK, EndPoll, rows, bounds
    <2> QED
      BY <1>1, <2>1 DEF RelayIInv, DeadInv, IdleInv, HoldInv, EndPoll, rows, bounds
  <1>2. CASE ReadFailure(r)
    <2>1. event[r] \in Event
      BY <1>2 DEF RelayIInv, IdleInv, RelayTypeOK, ReadFailure
    <2>2. CASE claim[event[r]] = r
      <3>1. /\ phase' = [phase EXCEPT ![r] = "write"]
            /\ seen' = [seen EXCEPT ![r] = attempts[event[r]]]
            /\ UNCHANGED <<rows, event, attempted, lease, bounds>>
        BY <1>2, <2>2 DEF ReadFailure
      <3>2. attempts[event[r]] \in 0 .. MaxAttempts - 1
        <4>1. attempts[event[r]] # MaxAttempts
          BY <2>1, <2>2, RelayAssumption DEF RelayIInv, DeadInv
        <4>2. attempts[event[r]] \in 0 .. MaxAttempts
          BY <2>1 DEF RelayIInv, RelayTypeOK
        <4> QED
          BY <4>1, <4>2, RelayAssumption
      <3>3. RelayTypeOK'
        BY <3>1, <3>2 DEF RelayIInv, RelayTypeOK, rows, bounds
      <3>4. IdleInv'
        BY <1>2, <3>1 DEF RelayIInv, RelayTypeOK, IdleInv, ReadFailure
      <3> QED
        BY <3>1, <3>3, <3>4 DEF RelayIInv, DeadInv, HoldInv, rows, bounds
    <2>3. CASE claim[event[r]] # r
      BY <1>2, <2>3, LeaveIInv DEF ReadFailure, AbortPoll, bounds, RelayIInv, RelayTypeOK
    <2> QED
      BY <2>2, <2>3
  <1> QED
    BY <1>1, <1>2, ClaimNextIInv, MarkPublishedIInv, WriteFailureIInv DEF RelayStep

LEMMA HandlersIInv ==
  ASSUME RelayIInv, NEW r \in Replica, HandlersSucceed(r) \/ HandlersFail(r)
  PROVE  RelayIInv'
  <1>1. /\ phase[r] = "handle"
        /\ \E p \in {"publish", "fail"} : phase' = [phase EXCEPT ![r] = p]
        /\ UNCHANGED <<rows, event, seen, attempted, lease, bounds>>
    BY DEF HandlersSucceed, HandlersFail
  <1>2. RelayTypeOK'
    BY <1>1 DEF RelayIInv, RelayTypeOK, rows, bounds
  <1>3. IdleInv'
    BY <1>1 DEF RelayIInv, RelayTypeOK, IdleInv
  <1> QED
    BY <1>1, <1>2, <1>3 DEF RelayIInv, DeadInv, HoldInv, rows, bounds

LEMMA CrashIInv ==
  ASSUME RelayIInv, NEW r \in Replica, Crash(r)
  PROVE  RelayIInv'
  <1>1. crashes' \in 0 .. MaxCrashes
    BY RelayAssumption DEF Crash, RelayIInv, RelayTypeOK
  <1> QED
    BY <1>1, LeaveIInv DEF Crash, AbortPoll

LEMMA EnvironmentIInv ==
  ASSUME RelayIInv, Environment
  PROVE  RelayIInv'
  <1> USE DEF RelayIInv
  <1>1. ASSUME NEW r \in Replica, Heartbeat(r)
        PROVE  RelayIInv'
    <2>1. /\ stale' = [stale EXCEPT ![event[r]] = FALSE]
          /\ UNCHANGED <<published, dead, attempts, claim, replicas, bounds>>
      BY <1>1 DEF Heartbeat
    <2>2. RelayTypeOK'
      BY <2>1 DEF RelayTypeOK, replicas, bounds
    <2>3. \A e \in Event : stale'[e] => stale[e]
      BY <2>1 DEF RelayTypeOK
    <2>4. HoldInv'
      BY <2>1, <2>3 DEF HoldInv, RelayTypeOK, replicas, bounds
    <2> QED
      BY <2>1, <2>2, <2>4 DEF DeadInv, IdleInv, replicas
  <1>2. ASSUME NEW e \in Event, Expire(e)
        PROVE  RelayIInv'
    <2>1. /\ stale' = [stale EXCEPT ![e] = TRUE]
          /\ event[claim[e]] # e
          /\ UNCHANGED <<published, dead, attempts, claim, replicas, bounds>>
      BY <1>2 DEF Expire
    <2>2. RelayTypeOK'
      BY <2>1 DEF RelayTypeOK, replicas, bounds
    <2>3. \A d \in Event \ {e} : stale'[d] = stale[d]
      BY <2>1 DEF RelayTypeOK
    <2>4. HoldInv'
      BY <2>1, <2>3, RelayAssumption DEF HoldInv, RelayTypeOK, replicas, bounds
    <2> QED
      BY <2>1, <2>2, <2>4 DEF DeadInv, IdleInv, replicas
  <1>3. ASSUME NEW r \in Replica, Pause(r)
        PROVE  RelayIInv'
    <2>1. /\ stale' = [stale EXCEPT ![event[r]] = TRUE]
          /\ lease' = [lease EXCEPT ![r] = FALSE]
          /\ pauses' = pauses + 1 /\ pauses < MaxPauses
          /\ UNCHANGED <<published, dead, attempts, claim, phase, event, seen, attempted, crashes, requeues>>
      BY <1>3 DEF Pause
    <2>2. RelayTypeOK'
      <3>1. pauses' \in 0 .. MaxPauses
        BY <2>1, RelayAssumption DEF RelayTypeOK
      <3>2. stale' \in [Event -> BOOLEAN] /\ lease' \in [Replica -> BOOLEAN]
        BY <2>1 DEF RelayTypeOK
      <3> QED
        BY <2>1, <3>1, <3>2 DEF RelayTypeOK
    <2>3. HoldInv'
      <3>1. pauses' # 0
        BY <2>1, RelayAssumption DEF RelayTypeOK
      <3> QED
        BY <3>1 DEF HoldInv
    <2> QED
      BY <2>1, <2>2, <2>3 DEF DeadInv, IdleInv
  <1>4. ASSUME NEW e \in Event, Requeue(e)
        PROVE  RelayIInv'
    <2>1. /\ dead[e] /\ ~published[e]
          /\ dead' = [dead EXCEPT ![e] = FALSE]
          /\ attempts' = [attempts EXCEPT ![e] = 0]
          /\ claim' = [claim EXCEPT ![e] = Nobody]
          /\ stale' = [stale EXCEPT ![e] = FALSE]
          /\ requeues' = requeues + 1 /\ requeues < MaxRequeues
          /\ UNCHANGED <<published, replicas, pauses, crashes>>
      BY <1>4 DEF Requeue
    <2>2. RelayTypeOK'
      BY <2>1, RelayAssumption DEF RelayTypeOK, replicas
    <2>3. DeadInv' /\ IdleInv'
      BY <2>1, RelayAssumption DEF DeadInv, IdleInv, RelayTypeOK, replicas
    <2>4. HoldInv'
      <3>1. pauses = 0 => \A s \in Replica : event[s] # e
        BY <2>1, RelayAssumption DEF HoldInv
      <3>2. ~dead'[e] /\ \A d \in Event \ {e} : published'[d] = published[d] /\ dead'[d] = dead[d]
        BY <2>1 DEF RelayTypeOK
      <3>3. UNCHANGED <<event, lease, pauses>>
        BY <2>1 DEF replicas
      <3> QED
        BY <2>1, <3>1, <3>2, <3>3, SettleHold
    <2> QED
      BY <2>2, <2>3, <2>4
  <1> QED
    BY <1>1, <1>2, <1>3, <1>4 DEF Environment

LEMMA RelayNextIInv == RelayIInv /\ [RelayNext]_relayVars => RelayIInv'
  <1>1. RelayIInv /\ UNCHANGED relayVars => RelayIInv'
    BY DEF RelayIInv, RelayTypeOK, DeadInv, IdleInv, HoldInv, relayVars, rows, replicas, bounds
  <1> QED
    BY <1>1, RelayStepIInv, HandlersIInv, CrashIInv, EnvironmentIInv DEF RelayNext

LEMMA RelayInvariant == RelaySpec => []RelayIInv
  BY RelayInitIInv, RelayNextIInv, PTL DEF RelaySpec

\* Attempts stay within their limit, also when a late failure is written to an event that
\* another replica has claimed (recordFailure).
THEOREM RelayTypeCorrect == RelaySpec => []RelayTypeOK
  BY RelayInvariant, PTL DEF RelayIInv

LEMMA Exclusive == RelayIInv => ExclusiveWhileRenewed
  <1> SUFFICES ASSUME RelayIInv, pauses = 0
               PROVE  OneLeasedDispatcher /\ SettledOnce
    BY DEF ExclusiveWhileRenewed
  <1>1. OneLeasedDispatcher
    BY DEF RelayIInv, HoldInv, OneLeasedDispatcher
  <1>2. SettledOnce
    BY RelayAssumption DEF RelayIInv, HoldInv, DeadInv, SettledOnce
  <1> QED
    BY <1>1, <1>2

\* For any events and replicas, crashes and requeues: while claims are renewed no two replicas
\* are at an event, and none is settled twice (claimNext, markPublished, recordFailure).
THEOREM ExclusiveWhileRenewedAlways == RelaySpec => []ExclusiveWhileRenewed
  BY RelayInvariant, Exclusive, PTL
-----------------------------------------------------------------------------
(* The handler. *)

\* A handler's step is one of the relay's handlers, or none of its business: what AgentWake
\* adds to the relay (agent-wake.service.ts) leaves the outbox's protocol as it is.
THEOREM WakeRefinesRelay == WakeSpec => RelaySpec
  <1>1. WakeInit => RelayInit
    BY DEF WakeInit
  <1>2. [WakeNext]_wakeVars => [RelayNext]_relayVars
    <2>1. ASSUME NEW r \in Replica, HandlerStep(r)
          PROVE  [RelayNext]_relayVars
      BY <2>1 DEF HandlerStep, BeginRun, ReadRun, ReclaimRun, Look, IssueOrder, Recover, FinishRun,
                  FailRun, Goto, RelayNext
    <2>2. ASSUME NEW r \in Replica, Relay(r)
          PROVE  RelayNext
      BY <2>2 DEF Relay, RelayNext
    <2>3. (\E q \in Requisition : IssueByHand(q) \/ CancelOrder(q)) => UNCHANGED relayVars
      BY DEF IssueByHand, CancelOrder
    <2>4. (\E e \in Event : CancelStaleRun(e)) => UNCHANGED relayVars
      BY DEF CancelStaleRun
    <2>5. (\E old \in SUBSET Event : PruneKeys(old)) => UNCHANGED relayVars
      BY DEF PruneKeys
    <2> QED
      BY <2>1, <2>2, <2>3, <2>4, <2>5 DEF WakeNext, RelayNext, wakeVars
  <1> QED
    BY <1>1, <1>2, PTL DEF WakeSpec, RelaySpec

StepType == step \in [Replica -> {"begin", "existing", "reclaim", "look", "issue", "recover", "finish"}]

RowType ==
  /\ run \in [Event -> {"none", "running", "failed", "succeeded", "cancelled"}]
  /\ decided \in [Event -> BOOLEAN]
  /\ ordered \in [Requisition -> BOOLEAN]
  /\ keyed \in [Event -> BOOLEAN]
  /\ pruned \in [Event -> 0 .. MaxPrunes]
  /\ issued \in [Event -> Nat]
  /\ manual \in [Requisition -> 0 .. MaxManual]

\* The key of an event is stored with its order or its decision; there is an order at most
\* for every time it was stored: as often as it was deleted, and once more while it is there.
KeyInv ==
  \A e \in Event :
    /\ issued[e] <= pruned[e] + 1
    /\ keyed[e] => Answered(e)
    /\ ~keyed[e] => issued[e] <= pruned[e]

\* An order is a handler's or a person's.
OrderInv ==
  \A q \in Requisition :
    ordered[q] => manual[q] > 0 \/ \E d \in Event : RequisitionOf[d] = q /\ issued[d] > 0

\* A run succeeds, or is about to, when its event has been answered.
RunInv ==
  /\ \A e \in Event : run[e] = "succeeded" => Answered(e)
  /\ \A r \in Replica : At(r, "finish") => Answered(event[r])

\* While claims are renewed no other replica touches the run of an event that is published.
TraceInv ==
  pauses = 0 =>
    /\ \A r \in Replica : phase[r] = "publish" => run[event[r]] = "succeeded"
    /\ \A e \in Event : published[e] => run[e] = "succeeded"

WakeIInv == RelayIInv /\ StepType /\ RowType /\ KeyInv /\ OrderInv /\ RunInv /\ TraceInv

LEMMA WakeInitIInv == WakeInit => WakeIInv
  <1> SUFFICES ASSUME WakeInit PROVE WakeIInv
    OBVIOUS
  <1>1. RelayIInv
    BY RelayInitIInv DEF WakeInit
  <1>2. StepType /\ RowType /\ KeyInv /\ OrderInv
    BY WakeAssumption DEF WakeInit, StepType, RowType, KeyInv, OrderInv
  <1>3. RunInv /\ TraceInv
    BY DEF WakeInit, RelayInit, RunInv, TraceInv, At
  <1> QED
    BY <1>1, <1>2, <1>3 DEF WakeIInv

\* What has been answered stays so.
LEMMA AnsweredStays ==
  ASSUME NEW e \in Event, Answered(e), RowType,
         \A d \in Event : issued'[d] > 0 \/ issued'[d] = issued[d],
         \A q \in Requisition : manual'[q] > 0 \/ manual'[q] = manual[q],
         \A d \in Event : decided[d] => decided'[d]
  PROVE  Answered(e)'
  BY WakeAssumption DEF Answered, RowType

\* What a statement of the relay leaves to the handlers.
LEMMA RelayFrame ==
  ASSUME RelayIInv, NEW r \in Replica, RelayStep(r) \/ Crash(r)
  PROVE  /\ pauses' = pauses
         /\ \A s \in Replica \ {r} : phase'[s] = phase[s] /\ event'[s] = event[s]
         /\ phase'[r] # "publish"
         /\ Crash(r) => phase'[r] = "idle"
         /\ \A e \in Event : published'[e] => published[e] \/ (phase[r] = "publish" /\ event[r] = e)
  <1> USE DEF RelayIInv, RelayTypeOK, bounds, rows
  <1>1. CASE ClaimNext(r)
    BY <1>1, WakeAssumption DEF ClaimNext, Crash, Busy
  <1>2. CASE EndPoll(r)
    BY <1>2 DEF EndPoll, Crash, Busy
  <1>3. CASE MarkPublished(r)
    BY <1>3 DEF MarkPublished, Leave, AbortPoll, Crash
  <1>4. CASE ReadFailure(r)
    BY <1>4 DEF ReadFailure, Leave, AbortPoll, Crash
  <1>5. CASE WriteFailure(r)
    BY <1>5 DEF WriteFailure, Leave, Crash
  <1>6. CASE Crash(r)
    BY <1>6 DEF Crash, Leave, AbortPoll
  <1> QED
    BY <1>1, <1>2, <1>3, <1>4, <1>5, <1>6 DEF RelayStep

LEMMA RelayWakeIInv ==
  ASSUME WakeIInv, NEW r \in Replica, Relay(r) \/ (Crash(r) /\ UNCHANGED <<step, wakeRows>>)
  PROVE  WakeIInv'
  <1> USE DEF WakeIInv
  <1>1. RelayStep(r) \/ Crash(r)
    BY DEF Relay
  <1>2. RelayIInv'
    BY <1>1, RelayStepIInv, CrashIInv
  <1>3. UNCHANGED wakeRows /\ (step' = [step EXCEPT ![r] = "begin"] \/ step' = step)
    BY DEF Relay
  <1>4. StepType' /\ RowType' /\ KeyInv' /\ OrderInv'
    BY <1>3 DEF StepType, RowType, KeyInv, OrderInv, Answered, wakeRows
  <1>5. RunInv'
    <2>1. ASSUME NEW s \in Replica, At(s, "finish")'
          PROVE  At(s, "finish") /\ event'[s] = event[s]
      BY <1>1, <1>3, <2>1, RelayFrame DEF At, Relay, StepType
    <2> QED
      BY <1>3, <2>1 DEF RunInv, Answered, wakeRows
  <1>6. TraceInv'
    BY <1>1, <1>3, RelayFrame DEF TraceInv, wakeRows
  <1> QED
    BY <1>2, <1>4, <1>5, <1>6

LEMMA EnvironmentWakeIInv ==
  ASSUME WakeIInv, Environment, UNCHANGED <<step, wakeRows>>
  PROVE  WakeIInv'
  <1> USE DEF WakeIInv
  <1>1. RelayIInv'
    BY EnvironmentIInv
  <1>2. UNCHANGED <<published, phase, event>> /\ (pauses' = 0 => pauses = 0)
    BY DEF Environment, Heartbeat, Pause, Expire, Requeue, replicas, bounds, RelayIInv, RelayTypeOK
  <1>3. StepType' /\ RowType' /\ KeyInv' /\ OrderInv'
    BY DEF StepType, RowType, KeyInv, OrderInv, Answered, wakeRows
  <1>4. RunInv' /\ TraceInv'
    BY <1>2 DEF RunInv, TraceInv, Answered, At, wakeRows
  <1> QED
    BY <1>1, <1>3, <1>4

\* While claims are renewed, whoever handles an event is alone with it.
LEMMA AloneWithIt ==
  ASSUME RelayIInv, NEW r \in Replica, phase[r] = "handle", pauses = 0
  PROVE  /\ event[r] \in Event /\ ~published[event[r]]
         /\ \A s \in Replica \ {r} : event[s] # event[r]
  BY RelayAssumption DEF RelayIInv, RelayTypeOK, IdleInv, HoldInv

\* A handler's transition to another step of its own.
LEMMA GotoIInv ==
  ASSUME WakeIInv, NEW r \in Replica, phase[r] = "handle",
         NEW s \in {"existing", "reclaim", "look", "issue", "recover", "finish"}, Goto(r, s),
         RowType', KeyInv', OrderInv',
         \A e \in Event : Answered(e) => Answered(e)',
         s = "finish" => Answered(event[r])',
         \A e \in Event \ {event[r]} : run'[e] = run[e],
         run'[event[r]] \in {run[event[r]], "running"}
  PROVE  WakeIInv'
  <1> USE DEF WakeIInv
  <1>1. RelayIInv'
    BY DEF Goto, relayVars, rows, replicas, bounds, RelayIInv, RelayTypeOK, DeadInv, IdleInv, HoldInv
  <1>2. event[r] \in Event
    BY DEF RelayIInv, RelayTypeOK, IdleInv
  <1>3. UNCHANGED <<published, phase, event, pauses>>
    BY DEF Goto, relayVars, rows, replicas, bounds
  <1>4. StepType' /\ step'[r] = s /\ \A t \in Replica \ {r} : step'[t] = step[t]
    BY DEF Goto, StepType
  <1>5. RunInv'
    <2>1. ASSUME NEW e \in Event, run'[e] = "succeeded"
          PROVE  Answered(e)'
      BY <2>1 DEF RunInv
    <2>2. ASSUME NEW t \in Replica, phase[t] = "handle", step'[t] = "finish"
          PROVE  event[t] \in Event /\ Answered(event[t])'
      <3>1. event[t] \in Event /\ event'[t] = event[t]
        BY <1>3, <2>2 DEF RelayIInv, RelayTypeOK, IdleInv
      <3>2. t # r => Answered(event[t])
        BY <1>4, <2>2 DEF RunInv, At
      <3>3. Answered(event[t]) => Answered(event[t])'
        BY <3>1 DEF Answered
      <3> QED
        BY <1>4, <2>2, <3>1, <3>2, <3>3
    <2>3. ASSUME NEW t \in Replica, At(t, "finish")'
          PROVE  Answered(event[t])'
      BY <1>3, <2>2, <2>3 DEF At
    <2> QED
      BY <1>3, <2>1, <2>3 DEF RunInv, Answered
  <1>6. TraceInv'
    <2> SUFFICES ASSUME pauses = 0
                 PROVE  TraceInv'
      BY <1>3 DEF TraceInv
    <2>1. ASSUME NEW t \in Replica, phase[t] = "publish"
          PROVE  run'[event[t]] = "succeeded"
      BY <2>1, AloneWithIt DEF TraceInv, RelayIInv, RelayTypeOK, IdleInv
    <2>2. ASSUME NEW e \in Event, published[e]
          PROVE  run'[e] = "succeeded"
      BY <2>2, AloneWithIt DEF TraceInv
    <2> QED
      BY <1>3, <2>1, <2>2 DEF TraceInv
  <1> QED
    BY <1>1, <1>4, <1>5, <1>6

\* The end of a handler, with the run of its event recorded or left as it is.
LEMMA EndIInv ==
  ASSUME WakeIInv, NEW r \in Replica, HandlersSucceed(r) \/ HandlersFail(r),
         UNCHANGED <<step, decided, ordered, keyed, pruned, issued, manual>>, RowType',
         \A e \in Event \ {event[r]} : run'[e] = run[e],
         run'[event[r]] = "succeeded" => Answered(event[r]),
         HandlersSucceed(r) => run'[event[r]] = "succeeded"
  PROVE  WakeIInv'
  <1> USE DEF WakeIInv
  <1>1. RelayIInv'
    BY HandlersIInv
  <1>2. /\ phase[r] = "handle" /\ phase'[r] # "handle"
        /\ phase'[r] = "publish" => HandlersSucceed(r)
        /\ \A t \in Replica \ {r} : phase'[t] = phase[t]
        /\ UNCHANGED <<published, event, pauses>>
    BY DEF HandlersSucceed, HandlersFail, rows, bounds, RelayIInv, RelayTypeOK
  <1>3. StepType' /\ KeyInv' /\ OrderInv'
    BY DEF StepType, KeyInv, OrderInv, Answered
  <1>4. RunInv'
    <2>1. \A e \in Event : run'[e] = "succeeded" => Answered(e)
      BY DEF RunInv
    <2>2. \A t \in Replica : At(t, "finish")' => Answered(event[t])
      BY <1>2 DEF RunInv, At
    <2> QED
      BY <1>2, <2>1, <2>2 DEF RunInv, Answered
  <1>5. TraceInv'
    <2> SUFFICES ASSUME pauses = 0
                 PROVE  TraceInv'
      BY <1>2 DEF TraceInv
    <2>1. ASSUME NEW t \in Replica, phase'[t] = "publish"
          PROVE  run'[event[t]] = "succeeded"
      BY <1>2, <2>1, AloneWithIt DEF TraceInv, RelayIInv, RelayTypeOK, IdleInv
    <2>2. ASSUME NEW e \in Event, published[e]
          PROVE  run'[e] = "succeeded"
      BY <1>2, <2>2, AloneWithIt DEF TraceInv
    <2> QED
      BY <1>2, <2>1, <2>2 DEF TraceInv
  <1> QED
    BY <1>1, <1>3, <1>4, <1>5

LEMMA HandlerWakeIInv ==
  ASSUME WakeIInv, NEW r \in Replica, HandlerStep(r)
  PROVE  WakeIInv'
  <1> USE DEF WakeIInv
  <1> DEFINE e == event[r]
             q == RequisitionOf[e]
  <1>1. phase[r] = "handle" /\ e \in Event /\ q \in Requisition
    <2>1. phase[r] = "handle"
      BY DEF HandlerStep, BeginRun, ReadRun, ReclaimRun, Look, IssueOrder, Recover, FinishRun, FailRun, At
    <2> QED
      BY <2>1, WakeAssumption DEF RelayIInv, RelayTypeOK, IdleInv
  <1>2. CASE BeginRun(r)
    <2>1. PICK s \in {"existing", "look"} : Goto(r, s)
      BY <1>2 DEF BeginRun
    <2>2. /\ run' = run \/ run' = [run EXCEPT ![e] = "running"]
          /\ UNCHANGED <<decided, ordered, keyed, pruned, issued, manual>>
      BY <1>2 DEF BeginRun
    <2>3. RowType' /\ \A d \in Event \ {e} : run'[d] = run[d]
      BY <2>2 DEF RowType
    <2>4. run'[e] \in {run[e], "running"}
      BY <1>1, <2>2 DEF RowType
    <2>5. KeyInv' /\ OrderInv' /\ \A d \in Event : Answered(d) => Answered(d)'
      BY <2>2 DEF KeyInv, OrderInv, Answered
    <2> HIDE DEF e, q, WakeIInv
    <2>6. WakeIInv'
      BY <1>1, <2>1, <2>3, <2>4, <2>5, GotoIInv DEF e
    <2> QED
      BY <2>6
  <1>3. CASE ReadRun(r)
    <2>1. UNCHANGED wakeRows
      BY <1>3 DEF ReadRun
    <2>2. RowType' /\ KeyInv' /\ OrderInv' /\ \A d \in Event : Answered(d) => Answered(d)'
      BY <2>1 DEF wakeRows, RowType, KeyInv, OrderInv, Answered
    <2>3. CASE run[e] = "succeeded"
      <3>1. HandlersSucceed(r) /\ UNCHANGED step
        BY <1>3, <2>3 DEF ReadRun, NeedsNoMore
      <3>2. Answered(e)
        BY <1>1, <2>3 DEF RunInv
      <3> QED
        BY <2>1, <2>2, <2>3, <3>1, <3>2, EndIInv DEF wakeRows
    <2>4. CASE run[e] # "succeeded"
      <3>1. Goto(r, "reclaim")
        BY <1>3, <2>4 DEF ReadRun, NeedsNoMore
      <3> HIDE DEF WakeIInv
      <3> QED
        BY <1>1, <2>1, <2>2, <3>1, GotoIInv DEF wakeRows
    <2> QED
      BY <2>3, <2>4
  <1>4. CASE ReclaimRun(r)
    <2>1. /\ Goto(r, "look")
          /\ run' = [run EXCEPT ![e] = "running"]
          /\ UNCHANGED <<decided, ordered, keyed, pruned, issued, manual>>
      BY <1>4 DEF ReclaimRun
    <2>2. RowType' /\ run'[e] = "running" /\ \A d \in Event \ {e} : run'[d] = run[d]
      BY <1>1, <2>1 DEF RowType
    <2>3. KeyInv' /\ OrderInv' /\ \A d \in Event : Answered(d) => Answered(d)'
      BY <2>1 DEF KeyInv, OrderInv, Answered
    <2> HIDE DEF WakeIInv
    <2> QED
      BY <1>1, <2>1, <2>2, <2>3, GotoIInv
  <1>5. CASE Look(r)
    <2>1. UNCHANGED <<run, ordered, keyed, pruned, issued, manual>>
      BY <1>5 DEF Look
    <2>2. CASE Goto(r, "finish") /\ ordered[q] /\ UNCHANGED decided
      <3>1. RowType' /\ KeyInv' /\ OrderInv' /\ \A d \in Event : Answered(d) => Answered(d)'
        BY <2>1, <2>2 DEF RowType, KeyInv, OrderInv, Answered
      <3>2. Answered(e)
        BY <1>1, <2>2 DEF OrderInv, Answered
      <3>3. Answered(event[r])'
        BY <2>1, <2>2, <3>2 DEF Answered, Goto, relayVars, replicas
      <3> HIDE DEF WakeIInv
      <3> QED
        BY <1>1, <2>1, <2>2, <3>1, <3>3, GotoIInv
    <2>3. CASE Goto(r, "issue") /\ UNCHANGED decided
      <3>1. RowType' /\ KeyInv' /\ OrderInv' /\ \A d \in Event : Answered(d) => Answered(d)'
        BY <2>1, <2>3 DEF RowType, KeyInv, OrderInv, Answered
      <3> HIDE DEF WakeIInv
      <3> QED
        BY <1>1, <2>1, <2>3, <3>1, GotoIInv
    <2>4. CASE Goto(r, "finish") /\ decided' = [decided EXCEPT ![e] = TRUE]
      <3>1. RowType' /\ \A d \in Event : decided[d] => decided'[d]
        BY <2>1, <2>4 DEF RowType
      <3>2. \A d \in Event : Answered(d) => Answered(d)'
        BY <2>1, <3>1, AnsweredStays
      <3>3. KeyInv' /\ OrderInv'
        BY <2>1, <3>2 DEF KeyInv, OrderInv
      <3>4. Answered(event[r])'
        BY <1>1, <2>4 DEF Answered, Goto, relayVars, replicas, RowType
      <3> HIDE DEF WakeIInv
      <3> QED
        BY <1>1, <2>1, <2>4, <3>1, <3>2, <3>3, <3>4, GotoIInv
    <2> QED
      BY <1>5, <2>2, <2>3, <2>4 DEF Look
  <1>6. CASE IssueOrder(r)
    <2>1. UNCHANGED <<run, pruned, manual>>
      BY <1>6 DEF IssueOrder
    <2>2. CASE keyed[e] /\ Goto(r, "finish") /\ UNCHANGED <<decided, ordered, keyed, issued>>
      <3>1. RowType' /\ KeyInv' /\ OrderInv' /\ \A d \in Event : Answered(d) => Answered(d)'
        BY <2>1, <2>2 DEF RowType, KeyInv, OrderInv, Answered
      <3>2. Answered(e)
        BY <1>1, <2>2 DEF KeyInv
      <3>3. Answered(event[r])'
        BY <2>1, <2>2, <3>2 DEF Answered, Goto, relayVars, replicas
      <3> HIDE DEF WakeIInv
      <3> QED
        BY <1>1, <2>1, <2>2, <3>1, <3>3, GotoIInv
    <2>3. CASE Goto(r, "recover") /\ UNCHANGED <<decided, ordered, keyed, issued>>
      <3>1. RowType' /\ KeyInv' /\ OrderInv' /\ \A d \in Event : Answered(d) => Answered(d)'
        BY <2>1, <2>3 DEF RowType, KeyInv, OrderInv, Answered
      <3> HIDE DEF WakeIInv
      <3> QED
        BY <1>1, <2>1, <2>3, <3>1, GotoIInv
    <2>4. CASE /\ ~keyed[e] /\ Goto(r, "finish")
               /\ keyed' = [keyed EXCEPT ![e] = TRUE]
               /\ ordered' = [ordered EXCEPT ![q] = TRUE]
               /\ issued' = [issued EXCEPT ![e] = @ + 1]
               /\ UNCHANGED decided
      <3>1. issued[e] \in Nat /\ pruned[e] \in Nat /\ issued[e] <= pruned[e]
        BY <1>1, <2>4, WakeAssumption DEF KeyInv, RowType
      <3>2. /\ issued'[e] = issued[e] + 1 /\ issued'[e] > 0 /\ issued'[e] <= pruned'[e] + 1
            /\ \A d \in Event \ {e} : issued'[d] = issued[d]
        BY <1>1, <2>1, <2>4, <3>1 DEF RowType
      <3>3. RowType'
        BY <1>1, <2>1, <2>4 DEF RowType
      <3>4. \A d \in Event : Answered(d) => Answered(d)'
        BY <1>1, <2>1, <2>4, <3>2, AnsweredStays
      <3>5. Answered(e)' /\ Answered(event[r])'
        <4>1. event' = event
          BY <2>4 DEF Goto, relayVars, replicas
        <4> QED
          BY <1>1, <3>2, <4>1 DEF Answered
      <3>6. KeyInv'
        <4>1. keyed'[e] /\ \A d \in Event \ {e} : keyed'[d] = keyed[d]
          BY <1>1, <2>4 DEF RowType
        <4>2. ASSUME NEW d \in Event
              PROVE  /\ issued'[d] <= pruned'[d] + 1
                     /\ keyed'[d] => Answered(d)'
                     /\ ~keyed'[d] => issued'[d] <= pruned'[d]
          <5>1. CASE d = event[r]
            <6>1. \E c \in Event : RequisitionOf[c] = RequisitionOf[d] /\ issued'[c] > 0
              BY <5>1, <3>2, <1>1
            <6> QED
              BY <5>1, <6>1, <3>2, <4>1 DEF Answered
          <5>2. CASE d # event[r]
            <6>1. /\ issued'[d] = issued[d] /\ pruned'[d] = pruned[d] /\ keyed'[d] = keyed[d]
                  /\ Answered(d) => Answered(d)'
              BY <1>1, <2>1, <5>2, <3>2, <3>4, <4>1
            <6> HIDE DEF WakeIInv
            <6> QED
              BY <6>1 DEF KeyInv, WakeIInv
          <5> QED
            BY <5>1, <5>2
        <4> QED
          BY <4>2 DEF KeyInv
      <3>7. OrderInv'
        <4>1. \A p \in Requisition \ {q} : ordered'[p] = ordered[p]
          BY <2>4 DEF RowType
        <4>2. \A d \in Event : issued[d] > 0 => issued'[d] > 0
          BY <3>2
        <4>3. \E d \in Event : RequisitionOf[d] = q /\ issued'[d] > 0
          BY <1>1, <3>2
        <4> HIDE DEF e, q
        <4> QED
          BY <2>1, <4>1, <4>2, <4>3 DEF OrderInv
      <3> HIDE DEF WakeIInv
      <3> QED
        BY <1>1, <2>1, <2>4, <3>3, <3>4, <3>5, <3>6, <3>7, GotoIInv
    <2>5. CASE /\ ~keyed[e] /\ Goto(r, "finish")
               /\ keyed' = [keyed EXCEPT ![e] = TRUE]
               /\ decided' = [decided EXCEPT ![e] = TRUE]
               /\ UNCHANGED <<ordered, issued>>
      <3>1. RowType' /\ \A d \in Event : decided[d] => decided'[d]
        BY <2>1, <2>5 DEF RowType
      <3>2. \A d \in Event : Answered(d) => Answered(d)'
        BY <2>1, <2>5, <3>1, AnsweredStays
      <3>3. decided'[e]
        BY <1>1, <2>5 DEF RowType
      <3>4. KeyInv'
        <4>1. keyed'[e] /\ \A d \in Event \ {e} : keyed'[d] = keyed[d]
          BY <1>1, <2>5 DEF RowType
        <4>2. ASSUME NEW d \in Event
              PROVE  /\ issued'[d] <= pruned'[d] + 1
                     /\ keyed'[d] => Answered(d)'
                     /\ ~keyed'[d] => issued'[d] <= pruned'[d]
          <5>1. CASE d = event[r]
            <6>1. issued'[d] = issued[d] /\ pruned'[d] = pruned[d] /\ keyed'[d] /\ Answered(d)'
              BY <1>1, <2>1, <5>1, <2>5, <3>3, <4>1 DEF Answered
            <6> HIDE DEF WakeIInv
            <6> QED
              BY <6>1 DEF KeyInv, WakeIInv
          <5>2. CASE d # event[r]
            <6>1. /\ issued'[d] = issued[d] /\ pruned'[d] = pruned[d] /\ keyed'[d] = keyed[d]
                  /\ Answered(d) => Answered(d)'
              BY <1>1, <2>1, <5>2, <2>5, <3>2, <4>1
            <6> HIDE DEF WakeIInv
            <6> QED
              BY <6>1 DEF KeyInv, WakeIInv
          <5> QED
            BY <5>1, <5>2
        <4> QED
          BY <4>2 DEF KeyInv
      <3>5. OrderInv'
        BY <2>1, <2>5 DEF OrderInv
      <3>6. Answered(event[r])'
        BY <1>1, <2>5, <3>3 DEF Answered, Goto, relayVars, replicas
      <3> HIDE DEF WakeIInv
      <3> QED
        BY <1>1, <2>1, <2>5, <3>1, <3>2, <3>4, <3>5, <3>6, GotoIInv
    <2> QED
      BY <1>6, <2>2, <2>3, <2>4, <2>5 DEF IssueOrder, Replayed
  <1>7. CASE Recover(r)
    <2>1. ordered[q] /\ Goto(r, "finish") /\ UNCHANGED wakeRows
      BY <1>7 DEF Recover
    <2>2. RowType' /\ KeyInv' /\ OrderInv' /\ \A d \in Event : Answered(d) => Answered(d)'
      BY <2>1 DEF RowType, KeyInv, OrderInv, Answered, wakeRows
    <2>3. Answered(e)
      BY <1>1, <2>1 DEF OrderInv, Answered
    <2>4. Answered(event[r])'
      BY <2>1, <2>3 DEF Answered, Goto, relayVars, replicas, wakeRows
    <2> HIDE DEF WakeIInv
    <2> QED
      BY <1>1, <2>1, <2>2, <2>4, GotoIInv DEF wakeRows
  <1>8. CASE FinishRun(r)
    <2>1. /\ At(r, "finish") /\ HandlersSucceed(r)
          /\ run' = [run EXCEPT ![e] = "succeeded"]
          /\ UNCHANGED <<step, decided, ordered, keyed, pruned, issued, manual>>
      BY <1>8 DEF FinishRun
    <2>2. RowType' /\ run'[e] = "succeeded" /\ \A d \in Event \ {e} : run'[d] = run[d]
      BY <1>1, <2>1 DEF RowType
    <2>3. Answered(e)
      BY <2>1 DEF RunInv
    <2> QED
      BY <2>1, <2>2, <2>3, EndIInv
  <1>9. CASE FailRun(r)
    <2>1. /\ HandlersFail(r)
          /\ run' = run \/ run' = [run EXCEPT ![e] = "failed"]
          /\ UNCHANGED <<step, decided, ordered, keyed, pruned, issued, manual>>
      BY <1>9 DEF FailRun
    <2>2. RowType' /\ \A d \in Event \ {e} : run'[d] = run[d]
      BY <2>1 DEF RowType
    <2>3. run'[e] = "succeeded" => Answered(e)
      BY <1>1, <2>1 DEF RunInv, RowType
    <2>4. ~HandlersSucceed(r)
      BY <1>1, <2>1 DEF HandlersSucceed, HandlersFail, RelayIInv, RelayTypeOK
    <2> QED
      BY <2>1, <2>2, <2>3, <2>4, EndIInv
  <1> QED
    BY <1>2, <1>3, <1>4, <1>5, <1>6, <1>7, <1>8, <1>9 DEF HandlerStep

\* People issue and cancel orders, and cancel runs that have not succeeded; retention deletes
\* keys.
LEMMA PeopleWakeIInv ==
  ASSUME WakeIInv,
         \/ \E q \in Requisition : IssueByHand(q) \/ CancelOrder(q)
         \/ \E e \in Event : CancelStaleRun(e)
         \/ \E old \in SUBSET Event : PruneKeys(old)
  PROVE  WakeIInv'
  <1> USE DEF WakeIInv
  <1>1. UNCHANGED <<relayVars, step>>
    BY DEF IssueByHand, CancelOrder, CancelStaleRun, PruneKeys
  <1>2. RelayIInv' /\ StepType'
    BY <1>1 DEF relayVars, rows, replicas, bounds, RelayIInv, RelayTypeOK, DeadInv, IdleInv, HoldInv, StepType
  <1>3. UNCHANGED <<phase, event, published, pauses, step>>
    BY <1>1 DEF relayVars, rows, replicas, bounds
  <1>4. ASSUME NEW q \in Requisition, IssueByHand(q)
        PROVE  WakeIInv'
    <2>1. /\ ordered' = [ordered EXCEPT ![q] = TRUE]
          /\ manual' = [manual EXCEPT ![q] = @ + 1] /\ manual[q] < MaxManual
          /\ UNCHANGED <<run, decided, keyed, pruned, issued>>
      BY <1>4 DEF IssueByHand
    <2>2. manual[q] \in 0 .. MaxManual /\ manual'[q] = manual[q] + 1
      BY <2>1 DEF RowType
    <2>3. RowType'
      <3>1. manual[q] + 1 \in 0 .. MaxManual
        BY <2>1, <2>2, WakeAssumption
      <3> QED
        BY <2>1, <3>1 DEF RowType
    <2>4. manual'[q] > 0 /\ \A p \in Requisition \ {q} : manual'[p] = manual[p] /\ ordered'[p] = ordered[p]
      BY <2>1, <2>2 DEF RowType
    <2>5. \A e \in Event : Answered(e) => Answered(e)'
      BY <2>1, <2>4, AnsweredStays
    <2>6. KeyInv' /\ OrderInv'
      BY <2>1, <2>4, <2>5 DEF KeyInv, OrderInv
    <2>7. RunInv'
      <3>1. ASSUME NEW r \in Replica, At(r, "finish")
            PROVE  event[r] \in Event /\ Answered(event[r])
        BY <3>1 DEF RunInv, At, RelayIInv, RelayTypeOK, IdleInv
      <3>2. ASSUME NEW r \in Replica, At(r, "finish")
            PROVE  Answered(event[r])'
        BY <1>3, <2>5, <3>1, <3>2 DEF Answered
      <3> QED
        BY <1>3, <2>1, <2>5, <3>2 DEF RunInv, At
    <2>8. TraceInv'
      BY <1>3, <2>1 DEF TraceInv
    <2> QED
      BY <1>2, <2>3, <2>6, <2>7, <2>8
  <1>5. ASSUME NEW q \in Requisition, CancelOrder(q)
        PROVE  WakeIInv'
    <2>1. /\ ordered' = [ordered EXCEPT ![q] = FALSE]
          /\ UNCHANGED <<run, decided, keyed, pruned, issued, manual>>
      BY <1>5 DEF CancelOrder
    <2>2. RowType' /\ \A p \in Requisition : ordered'[p] => ordered[p]
      BY <2>1 DEF RowType
    <2>3. KeyInv' /\ OrderInv'
      BY <2>1, <2>2 DEF KeyInv, OrderInv, Answered
    <2>4. RunInv' /\ TraceInv'
      BY <1>3, <2>1 DEF RunInv, TraceInv, At, Answered
    <2> QED
      BY <1>2, <2>2, <2>3, <2>4
  <1>6. ASSUME NEW e \in Event, CancelStaleRun(e)
        PROVE  WakeIInv'
    <2>1. /\ run[e] = "running" /\ run' = [run EXCEPT ![e] = "cancelled"]
          /\ UNCHANGED <<decided, ordered, keyed, pruned, issued, manual>>
      BY <1>6 DEF CancelStaleRun
    <2>2. RowType' /\ \A d \in Event : run'[d] = "succeeded" <=> run[d] = "succeeded"
      BY <2>1 DEF RowType
    <2>3. KeyInv' /\ OrderInv'
      BY <2>1 DEF KeyInv, OrderInv, Answered
    <2>4. RunInv'
      BY <1>3, <2>1, <2>2 DEF RunInv, At, Answered
    <2>5. TraceInv'
      BY <1>3, <2>2 DEF TraceInv, RelayIInv, RelayTypeOK, IdleInv
    <2> QED
      BY <1>2, <2>2, <2>3, <2>4, <2>5
  <1>7. ASSUME NEW old \in SUBSET Event, PruneKeys(old)
        PROVE  WakeIInv'
    <2>1. /\ \A e \in old : keyed[e] /\ pruned[e] < MaxPrunes
          /\ keyed' = [e \in Event |-> keyed[e] /\ e \notin old]
          /\ pruned' = [e \in Event |-> IF e \in old THEN pruned[e] + 1 ELSE pruned[e]]
          /\ UNCHANGED <<run, decided, ordered, issued, manual>>
      BY <1>7 DEF PruneKeys
    <2>2. RowType'
      <3>1. \A e \in Event : pruned'[e] \in 0 .. MaxPrunes
        BY <2>1, WakeAssumption DEF RowType
      <3>2. keyed' \in [Event -> BOOLEAN]
        BY <2>1
      <3> QED
        BY <2>1, <3>1, <3>2 DEF RowType
    <2>3. KeyInv'
      <3> SUFFICES ASSUME NEW e \in Event
                   PROVE  /\ issued'[e] <= pruned'[e] + 1
                          /\ keyed'[e] => Answered(e)'
                          /\ ~keyed'[e] => issued'[e] <= pruned'[e]
        BY DEF KeyInv
      <3>1. /\ issued[e] \in Nat /\ pruned[e] \in Nat
            /\ issued[e] <= pruned[e] + 1 /\ (~keyed[e] => issued[e] <= pruned[e])
        BY WakeAssumption DEF RowType, KeyInv
      <3>2. keyed'[e] => Answered(e)'
        BY <2>1 DEF KeyInv, Answered
      <3>3. CASE e \in old
        BY <2>1, <3>1, <3>2, <3>3
      <3>4. CASE e \notin old
        BY <2>1, <3>1, <3>2, <3>4
      <3> QED
        BY <3>3, <3>4
    <2>4. OrderInv'
      BY <2>1 DEF OrderInv
    <2>5. RunInv' /\ TraceInv'
      BY <1>3, <2>1 DEF RunInv, TraceInv, At, Answered
    <2> QED
      BY <1>2, <2>2, <2>3, <2>4, <2>5
  <1> QED
    BY <1>4, <1>5, <1>6, <1>7

LEMMA WakeNextIInv == WakeIInv /\ [WakeNext]_wakeVars => WakeIInv'
  <1>1. ASSUME WakeIInv, UNCHANGED wakeVars
        PROVE  WakeIInv'
    <2>1. UNCHANGED <<relayVars, step, wakeRows>>
      BY <1>1 DEF wakeVars
    <2>2. RelayIInv'
      BY <1>1, <2>1, RelayNextIInv DEF WakeIInv
    <2>3. UNCHANGED <<phase, event, published, pauses, step>>
      BY <2>1 DEF relayVars, rows, replicas, bounds
    <2>4. StepType' /\ RowType' /\ KeyInv' /\ OrderInv' /\ RunInv' /\ TraceInv'
      BY <1>1, <2>1, <2>3 DEF WakeIInv, StepType, RowType, KeyInv, OrderInv, RunInv, TraceInv, At,
                             Answered, wakeRows
    <2> QED
      BY <2>2, <2>4 DEF WakeIInv
  <1> QED
    BY <1>1, RelayWakeIInv, EnvironmentWakeIInv, HandlerWakeIInv, PeopleWakeIInv DEF WakeNext

LEMMA WakeInvariant == WakeSpec => []WakeIInv
  BY WakeInitIInv, WakeNextIInv, PTL DEF WakeSpec

\* The handlers' steps and the rows they write keep their types, for any events, replicas
\* and requisitions (agent-wake.service.ts).
THEOREM WakeTypeCorrect == WakeSpec => []WakeTypeOK
  <1>1. WakeIInv => WakeTypeOK
    BY DEF WakeIInv, RelayIInv, StepType, RowType, WakeTypeOK
  <1> QED
    BY <1>1, WakeInvariant, PTL

\* However often an approval is delivered, by however many replicas that crash or lose their
\* claims, a further order needs a further deletion of the stored result; while claims are
\* renewed, a delivered one has been answered and its run says so (beginRun,
\* issuePurchaseOrder, prune).
THEOREM OneOrderPerStoredResultAlways == WakeSpec => []OneOrderPerStoredResult
  <1>1. WakeIInv => OneOrderPerStoredResult
    BY DEF WakeIInv, KeyInv, RunInv, TraceInv, OneOrderPerStoredResult
  <1> QED
    BY <1>1, WakeInvariant, PTL
=============================================================================
