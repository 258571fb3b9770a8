---------------------------- MODULE MessageProofs ----------------------------
(***************************************************************************)
(* Proofs about MessageDispatch, for any messages, users, callers and      *)
(* dispatchers, any batch size and any bounds.                             *)
(***************************************************************************)
EXTENDS MessageDispatch, TLAPS

-----------------------------------------------------------------------------
(* The invariant. *)

\* A worker that is not idle is at a message.
TargetInv == \A w \in Worker : phase[w] # "idle" => target[w] \in Message

\* An attempt is under way or over once the start of one is recorded.
Attempts(m) == IF started[m] = "null" THEN 0 ELSE 1

\* A claim takes the row from its release to an attempt, which only a recovery takes back.
\* A gated message gets there by way of its approval.
ClaimInv ==
  \A m \in Message :
    /\ claims[m] <= recoveries[m] + Attempts(m)
    /\ m \notin Automatic /\ claims[m] > 0 =>
         approvedBy[m] # Nobody /\ status[m] \notin {"none", "queued", "rejected"}

Sends(w, m) == target[w] = m /\ phase[w] \in {"send", "accepted", "refused"}

\* A message that is at the provider is so in the hands of one worker, its row says that it
\* is being sent, and the provider has what the worker knows of.
SenderInv(m) ==
  \A w \in Worker : Sends(w, m) =>
    /\ status[m] = "sending" /\ started[m] # "null"
    /\ phase[w] = "send" => delivered[m] = 0
    /\ phase[w] = "accepted" => delivered[m] = 1
    /\ \A x \in Worker \ {w} : ~Sends(x, m)

DeliveryInv ==
  \A m \in Message \ unquiesced :
    /\ delivered[m] <= 1
    /\ status[m] = "sent" => delivered[m] > 0
    /\ started[m] = "null" => delivered[m] = 0
    /\ SenderInv(m)

IInv == TypeOK /\ TargetInv /\ ClaimInv /\ DeliveryInv

LEMMA InitIInv == Init => IInv
  <1> SUFFICES ASSUME Init PROVE IInv
    OBVIOUS
  <1>1. TypeOK
    BY MessageAssumption DEF Init, TypeOK
  <1>2. TargetInv /\ ClaimInv /\ DeliveryInv
    BY DEF Init, TargetInv, ClaimInv, Attempts, DeliveryInv, SenderInv, Sends
  <1> QED
    BY <1>1, <1>2 DEF IInv

-----------------------------------------------------------------------------
(* Workers. *)

WorkerType ==
  /\ phase \in [Worker -> {"idle", "claim", "send", "accepted", "refused"}]
  /\ target \in [Worker -> Message \cup {Nobody}]
  /\ expected \in [Worker -> {"none", "queued", "approved"}]

\* A worker that sets out for a message, or leaves it, is not at the provider; those of the
\* others go on with theirs.
LEMMA ReleaseFacts ==
  ASSUME TypeOK, TargetInv, NEW w \in Worker, NEW m \in Message, NEW from \in {"queued", "approved"},
         Release(w, m, from)
  PROVE  /\ WorkerType' /\ TargetInv'
         /\ \A n : ~Sends(w, n)'
         /\ \A x \in Worker \ {w} : target'[x] = target[x] /\ phase'[x] = phase[x]
  <1>1. WorkerType
    BY DEF TypeOK, WorkerType
  <1>2. WorkerType'
    BY <1>1 DEF WorkerType, Release
  <1>3. /\ phase'[w] = "claim" /\ target'[w] = m
        /\ \A x \in Worker \ {w} : target'[x] = target[x] /\ phase'[x] = phase[x]
    BY <1>1 DEF WorkerType, Release
  <1> QED
    BY <1>2, <1>3 DEF TargetInv, Sends

LEMMA IdleFacts ==
  ASSUME TypeOK, TargetInv, NEW w \in Worker, Idle(w)
  PROVE  /\ WorkerType' /\ TargetInv'
         /\ \A n : ~Sends(w, n)'
         /\ \A x \in Worker \ {w} : target'[x] = target[x] /\ phase'[x] = phase[x]
  <1>1. WorkerType
    BY DEF TypeOK, WorkerType
  <1>2. WorkerType'
    BY <1>1 DEF WorkerType, Idle
  <1>3. /\ phase'[w] = "idle"
        /\ \A x \in Worker \ {w} : target'[x] = target[x] /\ phase'[x] = phase[x]
    BY <1>1 DEF WorkerType, Idle
  <1> QED
    BY <1>2, <1>3 DEF TargetInv, Sends

\* Nobody gets to the provider, and the rows of the messages that are there stay.
LEMMA NoSenderDelivery ==
  ASSUME IInv, NEW m \in Message,
         \A n \in Message \ {m} : status'[n] = status[n] /\ started'[n] = started[n],
         delivered' = delivered, unquiesced \subseteq unquiesced',
         \A x \in Worker, n \in Message : Sends(x, n)' => Sends(x, n) /\ phase'[x] = phase[x],
         m \in unquiesced' \/ \A x \in Worker : ~Sends(x, m)',
         m \in unquiesced' \/ (status'[m] = "sent" => delivered[m] > 0),
         m \in unquiesced' \/ (started'[m] = "null" => delivered[m] = 0)
  PROVE  DeliveryInv'
  <1> SUFFICES ASSUME NEW n \in Message \ unquiesced'
               PROVE  /\ delivered'[n] <= 1
                      /\ status'[n] = "sent" => delivered'[n] > 0
                      /\ started'[n] = "null" => delivered'[n] = 0
                      /\ SenderInv(n)'
    BY DEF DeliveryInv
  <1>1. n \in Message \ unquiesced
    OBVIOUS
  <1>2. CASE n = m
    BY <1>1, <1>2 DEF IInv, DeliveryInv, SenderInv
  <1>3. CASE n # m
    <2>1. SenderInv(n)'
      BY <1>1, <1>3 DEF IInv, DeliveryInv, SenderInv
    <2> QED
      BY <1>1, <1>3, <2>1 DEF IInv, DeliveryInv
  <1> QED
    BY <1>2, <1>3

-----------------------------------------------------------------------------
(* Requests. *)

\* While a message is not being sent nobody has it at the provider.
LEMMA NotSending ==
  ASSUME IInv, NEW m \in Message \ unquiesced, status[m] # "sending" \/ started[m] = "null"
  PROVE  \A x \in Worker : ~Sends(x, m)
  BY DEF IInv, DeliveryInv, SenderInv

LEMMA SubmitIInv ==
  ASSUME IInv, requests' \in 0 .. MaxRequests, NEW c \in Caller, NEW m \in Message, Submit(c, m)
  PROVE  IInv'
  <1> USE DEF IInv
  <1>1. /\ phase[c] = "idle" /\ status[m] = "none" /\ c \in Worker
        /\ status' = [status EXCEPT ![m] = "queued"]
        /\ Release(c, m, "queued") \/ UNCHANGED <<phase, target, expected>>
        /\ UNCHANGED <<approvedBy, started, resolution, eligible, todo, counts>>
    BY DEF Submit, Worker
  <1>2. /\ WorkerType' /\ TargetInv'
        /\ \A x \in Worker, n \in Message : Sends(x, n)' => Sends(x, n) /\ phase'[x] = phase[x]
    <2>1. CASE Release(c, m, "queued")
      BY <1>1, <2>1, ReleaseFacts DEF Sends
    <2>2. CASE UNCHANGED <<phase, target, expected>>
      BY <2>2 DEF TypeOK, WorkerType, TargetInv, Sends
    <2> QED
      BY <1>1, <2>1, <2>2
  <1>3. /\ status'[m] = "queued" /\ \A n \in Message \ {m} : status'[n] = status[n]
        /\ status' \in [Message -> {"none", "queued", "approved", "rejected", "sending", "sent", "failed"}]
    BY <1>1 DEF TypeOK
  <1>4. TypeOK'
    BY <1>1, <1>2, <1>3 DEF TypeOK, WorkerType, counts
  <1>5. ClaimInv'
    BY <1>1, <1>3 DEF ClaimInv, Attempts, counts
  <1>6. DeliveryInv'
    <2>1. m \in unquiesced' \/ \A x \in Worker : ~Sends(x, m)'
      BY <1>1, <1>2, NotSending DEF counts
    <2>2. m \in unquiesced' \/ (started'[m] = "null" => delivered[m] = 0)
      BY <1>1 DEF DeliveryInv, counts
    <2> HIDE DEF IInv
    <2> QED
      BY <1>1, <1>2, <1>3, <2>1, <2>2, NoSenderDelivery DEF counts
  <1> QED
    BY <1>2, <1>4, <1>5, <1>6

LEMMA ApproveIInv ==
  ASSUME IInv, requests' \in 0 .. MaxRequests, NEW u \in User, NEW c \in Caller, NEW m \in Message,
         Approve(u, c, m)
  PROVE  IInv'
  <1> USE DEF IInv
  <1>1. /\ phase[c] = "idle" /\ status[m] = "queued" /\ c \in Worker
        /\ status' = [status EXCEPT ![m] = "approved"]
        /\ approvedBy' = [approvedBy EXCEPT ![m] = u]
        /\ Release(c, m, "approved")
        /\ UNCHANGED <<started, resolution, eligible, todo, counts>>
    BY DEF Approve, MayDecide, Worker
  <1>2. /\ WorkerType' /\ TargetInv'
        /\ \A x \in Worker, n \in Message : Sends(x, n)' => Sends(x, n) /\ phase'[x] = phase[x]
    BY <1>1, ReleaseFacts DEF Sends
  <1>3. /\ status'[m] = "approved" /\ approvedBy'[m] = u
        /\ \A n \in Message \ {m} : status'[n] = status[n] /\ approvedBy'[n] = approvedBy[n]
        /\ status' \in [Message -> {"none", "queued", "approved", "rejected", "sending", "sent", "failed"}]
        /\ approvedBy' \in [Message -> User \cup {Nobody}]
    BY <1>1 DEF TypeOK
  <1>4. TypeOK'
    BY <1>1, <1>2, <1>3 DEF TypeOK, WorkerType, counts
  <1>5. ClaimInv'
    BY <1>1, <1>3, MessageAssumption DEF ClaimInv, Attempts, counts
  <1>6. DeliveryInv'
    <2>1. m \in unquiesced' \/ \A x \in Worker : ~Sends(x, m)'
      BY <1>1, <1>2, NotSending DEF counts
    <2>2. m \in unquiesced' \/ (started'[m] = "null" => delivered[m] = 0)
      BY <1>1 DEF DeliveryInv, counts
    <2> HIDE DEF IInv
    <2> QED
      BY <1>1, <1>2, <1>3, <2>1, <2>2, NoSenderDelivery DEF counts
  <1> QED
    BY <1>2, <1>4, <1>5, <1>6

LEMMA RejectIInv ==
  ASSUME IInv, requests' \in 0 .. MaxRequests, NEW u \in User, NEW m \in Message, Reject(u, m)
  PROVE  IInv'
  <1> USE DEF IInv
  <1>1. /\ status[m] = "queued"
        /\ status' = [status EXCEPT ![m] = "rejected"]
        /\ approvedBy' = [approvedBy EXCEPT ![m] = u]
        /\ UNCHANGED <<started, resolution, eligible, workers, counts>>
    BY DEF Reject, MayDecide
  <1>2. /\ status'[m] = "rejected"
        /\ \A n \in Message \ {m} : status'[n] = status[n] /\ approvedBy'[n] = approvedBy[n]
        /\ status' \in [Message -> {"none", "queued", "approved", "rejected", "sending", "sent", "failed"}]
        /\ approvedBy' \in [Message -> User \cup {Nobody}]
    BY <1>1 DEF TypeOK
  <1>3. TypeOK' /\ TargetInv'
    BY <1>1, <1>2 DEF TypeOK, TargetInv, workers, counts
  <1>4. ClaimInv'
    <2>1. m \notin Automatic => ~(claims[m] > 0)
      BY <1>1 DEF ClaimInv
    <2> QED
      BY <1>1, <1>2, <2>1 DEF ClaimInv, Attempts, counts
  <1>5. DeliveryInv'
    <2>1. m \in unquiesced' \/ \A x \in Worker : ~Sends(x, m)'
      BY <1>1, NotSending DEF Sends, workers, counts
    <2>2. m \in unquiesced' \/ (started'[m] = "null" => delivered[m] = 0)
      BY <1>1 DEF DeliveryInv, counts
    <2>3. \A x \in Worker, n \in Message : Sends(x, n)' => Sends(x, n) /\ phase'[x] = phase[x]
      BY <1>1 DEF Sends, workers
    <2> HIDE DEF IInv
    <2> QED
      BY <1>1, <1>2, <2>1, <2>2, <2>3, NoSenderDelivery DEF counts
  <1> QED
    BY <1>3, <1>4, <1>5

\* An operator who resolves a message that is at the provider is noted.
LEMMA ResolveFacts ==
  ASSUME IInv, NEW u \in User, NEW m \in Message, Resolve(u, m)
  PROVE  /\ status[m] \in {"failed", "sending"}
         /\ unquiesced' \subseteq Message /\ unquiesced \subseteq unquiesced'
         /\ m \in unquiesced' \/ \A x \in Worker : ~Sends(x, m)
  BY DEF IInv, TypeOK, Resolve, MayResolve, AtProvider, Sends

LEMMA ConfirmSentIInv ==
  ASSUME IInv, requests' \in 0 .. MaxRequests, NEW u \in User, NEW m \in Message, ConfirmSent(u, m)
  PROVE  IInv'
  <1> USE DEF IInv
  <1>1. /\ delivered[m] > 0
        /\ status' = [status EXCEPT ![m] = "sent"]
        /\ resolution' = [resolution EXCEPT ![m] = "confirmed_sent"]
        /\ UNCHANGED <<approvedBy, started, eligible, workers, delivered, claims, recoveries, crashes>>
    BY DEF ConfirmSent
  <1>2. /\ status[m] \in {"failed", "sending"}
        /\ unquiesced' \subseteq Message /\ unquiesced \subseteq unquiesced'
        /\ m \in unquiesced' \/ \A x \in Worker : ~Sends(x, m)
    BY ResolveFacts DEF ConfirmSent
  <1>3. /\ status'[m] = "sent" /\ \A n \in Message \ {m} : status'[n] = status[n]
        /\ status' \in [Message -> {"none", "queued", "approved", "rejected", "sending", "sent", "failed"}]
        /\ resolution' \in [Message -> {"none", "confirmed_sent", "confirmed_not_sent"}]
    BY <1>1 DEF TypeOK
  <1>4. TypeOK' /\ TargetInv'
    BY <1>1, <1>2, <1>3 DEF TypeOK, TargetInv, workers
  <1>5. ClaimInv'
    BY <1>1, <1>3 DEF ClaimInv, Attempts
  <1>6. DeliveryInv'
    <2>1. \A x \in Worker, n \in Message : Sends(x, n)' <=> Sends(x, n)
      BY <1>1 DEF Sends, workers
    <2>2. m \in unquiesced' \/ (started'[m] = "null" => delivered[m] = 0)
      BY <1>1, <1>2 DEF DeliveryInv
    <2>3. phase' = phase
      BY <1>1 DEF workers
    <2> HIDE DEF IInv
    <2> QED
      BY <1>1, <1>2, <1>3, <2>1, <2>2, <2>3, NoSenderDelivery
  <1> QED
    BY <1>4, <1>5, <1>6

LEMMA ConfirmNotSentIInv ==
  ASSUME IInv, requests' \in 0 .. MaxRequests, NEW u \in User, NEW c \in Caller, NEW m \in Message,
         ConfirmNotSent(u, c, m)
  PROVE  IInv'
  <1> USE DEF IInv
  <1> DEFINE again == IF m \in Automatic THEN "queued" ELSE "approved"
  <1>1. /\ status' = [status EXCEPT ![m] = again]
        /\ Release(c, m, again)
    BY DEF ConfirmNotSent
  <1>2. /\ c \in Worker /\ delivered[m] = 0 /\ recoveries[m] < MaxRecoveries
        /\ resolution' = [resolution EXCEPT ![m] = "confirmed_not_sent"]
        /\ started' = [started EXCEPT ![m] = "null"]
        /\ recoveries' = [recoveries EXCEPT ![m] = @ + 1]
        /\ UNCHANGED <<approvedBy, eligible, todo, delivered, claims, crashes>>
    BY DEF ConfirmNotSent, Worker
  <1>3. /\ unquiesced' \subseteq Message /\ unquiesced \subseteq unquiesced'
        /\ m \in unquiesced' \/ \A x \in Worker : ~Sends(x, m)
    BY ResolveFacts DEF ConfirmNotSent
  <1>4. /\ WorkerType' /\ TargetInv'
        /\ \A x \in Worker, n \in Message : Sends(x, n)' => Sends(x, n) /\ phase'[x] = phase[x]
    BY <1>1, <1>2, ReleaseFacts DEF Sends
  <1>5. /\ status'[m] = again /\ started'[m] = "null"
        /\ \A n \in Message \ {m} : status'[n] = status[n] /\ started'[n] = started[n]
        /\ status' \in [Message -> {"none", "queued", "approved", "rejected", "sending", "sent", "failed"}]
        /\ started' \in [Message -> {"null", "fresh", "stale"}]
        /\ resolution' \in [Message -> {"none", "confirmed_sent", "confirmed_not_sent"}]
    BY <1>1, <1>2 DEF TypeOK
  <1>6. /\ recoveries' \in [Message -> 0 .. MaxRecoveries]
        /\ recoveries'[m] = recoveries[m] + 1 /\ \A n \in Message \ {m} : recoveries'[n] = recoveries[n]
    <2>1. recoveries \in [Message -> 0 .. MaxRecoveries]
      BY DEF TypeOK
    <2>2. recoveries[m] + 1 \in 0 .. MaxRecoveries
      BY <1>2, <2>1, MessageAssumption
    <2> QED
      BY <1>2, <2>1, <2>2
  <1>7. TypeOK'
    BY <1>2, <1>3, <1>4, <1>5, <1>6 DEF TypeOK, WorkerType
  <1>8. ClaimInv'
    <2>1. claims[m] \in Nat /\ recoveries[m] \in Nat
      BY MessageAssumption DEF TypeOK
    <2>2. claims'[m] <= recoveries'[m] + Attempts(m)'
      <3>1. claims[m] <= recoveries[m] + 1
        BY <2>1 DEF ClaimInv, Attempts
      <3>2. Attempts(m)' = 0
        BY <1>5 DEF Attempts
      <3> QED
        BY <1>2, <1>6, <2>1, <3>1, <3>2
    <2>3. \A n \in Message \ {m} : claims'[n] <= recoveries'[n] + Attempts(n)'
      BY <1>2, <1>5, <1>6 DEF ClaimInv, Attempts
    <2>4. \A n \in Message : n \notin Automatic /\ claims'[n] > 0 =>
            approvedBy'[n] # Nobody /\ status'[n] \notin {"none", "queued", "rejected"}
      BY <1>1, <1>2, <1>5 DEF ClaimInv
    <2> QED
      BY <2>2, <2>3, <2>4 DEF ClaimInv
  <1>9. DeliveryInv'
    <2> HIDE DEF IInv
    <2> QED
      BY <1>2, <1>3, <1>4, <1>5, NoSenderDelivery
  <1> QED
    BY <1>4, <1>7, <1>8, <1>9

\* A message that is given up or grows stale is where it was, and so is every worker.
LEMMA RevokeIInv ==
  ASSUME IInv, requests' \in 0 .. MaxRequests, NEW m \in Message, Revoke(m)
  PROVE  IInv'
  <1>1. /\ eligible' = [eligible EXCEPT ![m] = FALSE]
        /\ UNCHANGED <<status, approvedBy, started, resolution, workers, counts>>
    BY DEF Revoke
  <1>2. TypeOK' /\ TargetInv'
    BY <1>1 DEF IInv, TypeOK, TargetInv, workers, counts
  <1>3. ClaimInv'
    BY <1>1 DEF IInv, ClaimInv, Attempts, counts
  <1>4. DeliveryInv'
    BY <1>1 DEF IInv, DeliveryInv, SenderInv, Sends, workers, counts
  <1> QED
    BY <1>2, <1>3, <1>4 DEF IInv

LEMMA GrowStaleIInv ==
  ASSUME IInv, requests' = requests, NEW m \in Message, GrowStale(m)
  PROVE  IInv'
  <1>1. /\ started[m] = "fresh" /\ started' = [started EXCEPT ![m] = "stale"]
        /\ UNCHANGED <<status, approvedBy, resolution, eligible, workers, counts>>
    BY DEF GrowStale
  <1>2. /\ started' \in [Message -> {"null", "fresh", "stale"}]
        /\ \A n \in Message : started'[n] = "null" <=> started[n] = "null"
    BY <1>1 DEF IInv, TypeOK
  <1>3. TypeOK' /\ TargetInv'
    BY <1>1, <1>2 DEF IInv, TypeOK, TargetInv, workers, counts
  <1>4. ClaimInv'
    BY <1>1, <1>2 DEF IInv, ClaimInv, Attempts, counts
  <1>5. DeliveryInv'
    BY <1>1, <1>2 DEF IInv, DeliveryInv, SenderInv, Sends, workers, counts
  <1> QED
    BY <1>3, <1>4, <1>5 DEF IInv

-----------------------------------------------------------------------------
(* Dispatchers and the dispatch. *)

LEMMA PollIInv ==
  ASSUME IInv, requests' = requests, NEW d \in Dispatcher, Poll(d)
  PROVE  IInv'
  <1>1. /\ todo' = [todo EXCEPT ![d] = {<<m, status[m]>> : m \in Batch}]
        /\ UNCHANGED <<rows, phase, target, expected, counts>>
    BY DEF Poll
  <1>2. todo' \in [Dispatcher -> SUBSET (Message \X {"queued", "approved"})]
    <2>1. {<<m, status[m]>> : m \in Batch} \in SUBSET (Message \X {"queued", "approved"})
      <3>1. ASSUME NEW m \in Batch
            PROVE  <<m, status[m]>> \in Message \X {"queued", "approved"}
        BY DEF Batch, Staged
      <3> QED
        BY <3>1
    <2>2. todo \in [Dispatcher -> SUBSET (Message \X {"queued", "approved"})]
      BY DEF IInv, TypeOK
    <2> QED
      BY <1>1, <2>1, <2>2
  <1>3. TypeOK' /\ TargetInv'
    BY <1>1, <1>2 DEF IInv, TypeOK, TargetInv, rows, counts
  <1>4. ClaimInv'
    BY <1>1 DEF IInv, ClaimInv, Attempts, rows, counts
  <1>5. DeliveryInv'
    BY <1>1 DEF IInv, DeliveryInv, SenderInv, Sends, rows, counts
  <1> QED
    BY <1>3, <1>4, <1>5 DEF IInv

LEMMA TakeIInv ==
  ASSUME IInv, requests' = requests, NEW d \in Dispatcher, Take(d)
  PROVE  IInv'
  <1> USE DEF IInv
  <1>1. PICK next \in todo[d] :
          Release(d, next[1], next[2]) /\ todo' = [todo EXCEPT ![d] = @ \ {next}]
    BY DEF Take
  <1>2. d \in Worker /\ UNCHANGED <<rows, counts>>
    BY DEF Take, Worker
  <1>3. todo \in [Dispatcher -> SUBSET (Message \X {"queued", "approved"})]
    BY DEF TypeOK
  <1>4. next[1] \in Message /\ next[2] \in {"queued", "approved"}
    BY <1>1, <1>3
  <1>5. /\ WorkerType' /\ TargetInv'
        /\ \A x \in Worker, n \in Message : Sends(x, n)' => Sends(x, n) /\ phase'[x] = phase[x]
    BY <1>1, <1>2, <1>4, ReleaseFacts DEF Sends
  <1>6. todo' \in [Dispatcher -> SUBSET (Message \X {"queued", "approved"})]
    BY <1>1, <1>3
  <1>7. TypeOK'
    BY <1>2, <1>5, <1>6 DEF TypeOK, WorkerType, rows, counts
  <1>8. ClaimInv'
    BY <1>2 DEF ClaimInv, Attempts, rows, counts
  <1>9. DeliveryInv'
    BY <1>2, <1>5 DEF DeliveryInv, SenderInv, rows, counts
  <1> QED
    BY <1>5, <1>7, <1>8, <1>9

LEMMA ClaimIInv ==
  ASSUME IInv, requests' = requests, NEW w \in Worker, Claim(w)
  PROVE  IInv'
  <1> USE DEF IInv
  <1>0. PICK m \in Message : m = target[w]
    BY DEF Claim, TargetInv
  <1>1. /\ phase[w] = "claim"
        /\ UNCHANGED <<todo, unquiesced, delivered, recoveries, crashes>>
    BY DEF Claim
  <1>2. CASE ~Claimable(m, expected[w]) \/ m \in Poison
    <2>1. Idle(w) /\ UNCHANGED <<rows, claims>>
      BY <1>0, <1>2 DEF Claim
    <2>2. /\ WorkerType' /\ TargetInv'
          /\ \A x \in Worker, n \in Message : Sends(x, n)' => Sends(x, n) /\ phase'[x] = phase[x]
      BY <2>1, IdleFacts DEF Sends
    <2>3. TypeOK'
      BY <1>1, <2>1, <2>2 DEF TypeOK, WorkerType, rows
    <2>4. ClaimInv'
      BY <1>1, <2>1 DEF ClaimInv, Attempts, rows
    <2>5. DeliveryInv'
      BY <1>1, <2>1, <2>2 DEF DeliveryInv, SenderInv, rows
    <2> QED
      BY <2>2, <2>3, <2>4, <2>5
  <1>3. CASE Claimable(m, expected[w]) /\ m \notin Poison
    <2>1. /\ started' = [started EXCEPT ![m] = "fresh"]
          /\ UNCHANGED <<approvedBy, resolution, eligible>>
      BY <1>0, <1>3 DEF Claim
    <2>2. /\ started[m] = "null" /\ status[m] \in {"queued", "approved"}
          /\ m \notin Automatic => status[m] = "approved" /\ approvedBy[m] # Nobody
      BY <1>3 DEF Claimable, Staged
    <2>3. /\ started' \in [Message -> {"null", "fresh", "stale"}]
          /\ started'[m] = "fresh" /\ \A n \in Message \ {m} : started'[n] = started[n]
      BY <1>1, <2>1 DEF TypeOK
    <2>4. claims[m] \in Nat /\ recoveries[m] \in Nat /\ claims[m] <= recoveries[m]
      <3>1. claims[m] \in Nat /\ recoveries[m] \in Nat
        <4>1. claims \in [Message -> Nat] /\ recoveries \in [Message -> 0 .. MaxRecoveries]
          BY DEF TypeOK
        <4> QED
          BY <4>1, MessageAssumption
      <3>2. claims[m] <= recoveries[m] + 0
        BY <1>1, <2>2 DEF ClaimInv, Attempts
      <3> QED
        BY <3>1, <3>2
    <2>5. m \notin unquiesced => delivered[m] = 0 /\ \A x \in Worker : ~Sends(x, m)
      BY <1>1, <2>2, NotSending DEF DeliveryInv
    <2>6. CASE eligible[m]
      <3>1. /\ status' = [status EXCEPT ![m] = "sending"]
            /\ claims' = [claims EXCEPT ![m] = @ + 1]
            /\ phase' = [phase EXCEPT ![w] = "send"]
            /\ UNCHANGED <<target, expected>>
        BY <1>0, <1>3, <2>6 DEF Claim
      <3>2. /\ status' \in [Message -> {"none", "queued", "approved", "rejected", "sending", "sent", "failed"}]
            /\ status'[m] = "sending" /\ \A n \in Message \ {m} : status'[n] = status[n]
        BY <1>1, <3>1 DEF TypeOK
      <3>3. /\ claims' \in [Message -> Nat]
            /\ claims'[m] = claims[m] + 1 /\ \A n \in Message \ {m} : claims'[n] = claims[n]
        <4>1. claims \in [Message -> Nat]
          BY DEF TypeOK
        <4> QED
          BY <1>1, <3>1, <4>1
      <3>4. /\ phase' \in [Worker -> {"idle", "claim", "send", "accepted", "refused"}]
            /\ phase'[w] = "send" /\ \A x \in Worker \ {w} : phase'[x] = phase[x]
        BY <3>1 DEF TypeOK
      <3>5. TypeOK'
        BY <1>1, <2>1, <2>3, <3>1, <3>2, <3>3, <3>4 DEF TypeOK
      <3>6. TargetInv'
        BY <1>0, <1>1, <3>1, <3>4 DEF TargetInv
      <3>7. ClaimInv'
        <4>1. ASSUME NEW n \in Message
              PROVE  claims'[n] <= recoveries[n] + (IF started'[n] = "null" THEN 0 ELSE 1)
          <5>1. CASE n = m
            BY <5>1, <2>3, <2>4, <3>3
          <5>2. CASE n # m
            BY <5>2, <2>3, <3>3 DEF ClaimInv, Attempts
          <5> QED
            BY <5>1, <5>2
        <4>2. \A n \in Message : n \notin Automatic /\ claims'[n] > 0 =>
                approvedBy[n] # Nobody /\ status'[n] \notin {"none", "queued", "rejected"}
          BY <2>2, <3>2, <3>3 DEF ClaimInv
        <4> QED
          BY <1>1, <2>1, <4>1, <4>2 DEF ClaimInv, Attempts
      <3>8. DeliveryInv'
        <4>1. ASSUME NEW n \in Message \ unquiesced, n # m
              PROVE  SenderInv(n)'
          BY <1>0, <1>1, <2>3, <3>1, <3>2, <3>4, <4>1 DEF DeliveryInv, SenderInv, Sends
        <4>2. ASSUME NEW n \in Message \ unquiesced, n = m
              PROVE  SenderInv(n)'
          BY <1>1, <2>3, <2>5, <3>1, <3>2, <3>4, <4>2 DEF SenderInv, Sends
        <4> QED
          BY <1>1, <2>3, <2>5, <3>2, <4>1, <4>2 DEF DeliveryInv
      <3> QED
        BY <3>5, <3>6, <3>7, <3>8
    <2>7. CASE ~eligible[m]
      <3>1. status' = [status EXCEPT ![m] = "failed"] /\ Idle(w) /\ UNCHANGED claims
        BY <1>0, <1>3, <2>7 DEF Claim
      <3>2. /\ status' \in [Message -> {"none", "queued", "approved", "rejected", "sending", "sent", "failed"}]
            /\ status'[m] = "failed" /\ \A n \in Message \ {m} : status'[n] = status[n]
        BY <1>1, <3>1 DEF TypeOK
      <3>3. /\ WorkerType' /\ TargetInv'
            /\ \A x \in Worker, n \in Message : Sends(x, n)' => Sends(x, n) /\ phase'[x] = phase[x]
        BY <3>1, IdleFacts DEF Sends
      <3>4. TypeOK'
        BY <1>1, <2>1, <2>3, <3>1, <3>2, <3>3 DEF TypeOK, WorkerType
      <3>5. ClaimInv'
        <4>1. ASSUME NEW n \in Message
              PROVE  claims[n] <= recoveries[n] + (IF started'[n] = "null" THEN 0 ELSE 1)
          <5>1. CASE n = m
            BY <5>1, <2>3, <2>4
          <5>2. CASE n # m
            BY <5>2, <2>3 DEF ClaimInv, Attempts
          <5> QED
            BY <5>1, <5>2
        <4>2. \A n \in Message : n \notin Automatic /\ claims[n] > 0 =>
                approvedBy[n] # Nobody /\ status'[n] \notin {"none", "queued", "rejected"}
          BY <3>2 DEF ClaimInv
        <4> QED
          BY <1>1, <2>1, <3>1, <4>1, <4>2 DEF ClaimInv, Attempts
      <3>6. DeliveryInv'
        <4>1. m \in unquiesced' \/ \A x \in Worker : ~Sends(x, m)'
          BY <1>1, <2>5, <3>3
        <4> HIDE DEF IInv
        <4> QED
          BY <1>1, <2>3, <3>2, <3>3, <4>1, NoSenderDelivery
      <3> QED
        BY <3>3, <3>4, <3>5, <3>6
    <2> QED
      BY <2>6, <2>7
  <1> QED
    BY <1>2, <1>3
LEMMA TransportIInv ==
  ASSUME IInv, requests' = requests, NEW w \in Worker, Transport(w)
  PROVE  IInv'
  <1> USE DEF IInv
  <1>0. PICK m \in Message : m = target[w]
    BY DEF Transport, TargetInv
  <1>1. /\ phase[w] = "send"
        /\ UNCHANGED <<rows, target, expected, todo, unquiesced, claims, recoveries, crashes>>
    BY DEF Transport
  <1>2. PICK accepted \in BOOLEAN, answer \in {"accepted", "refused"} :
          /\ answer = "accepted" => accepted
          /\ phase' = [phase EXCEPT ![w] = answer]
          /\ delivered' = [delivered EXCEPT ![m] = IF accepted THEN @ + 1 ELSE @]
    BY <1>0 DEF Transport
  <1>3. /\ phase' \in [Worker -> {"idle", "claim", "send", "accepted", "refused"}]
        /\ phase'[w] = answer /\ \A x \in Worker \ {w} : phase'[x] = phase[x]
    BY <1>2 DEF TypeOK
  <1>4. /\ delivered' \in [Message -> Nat] /\ delivered[m] \in Nat
        /\ delivered'[m] = IF accepted THEN delivered[m] + 1 ELSE delivered[m]
        /\ \A n \in Message \ {m} : delivered'[n] = delivered[n]
    <2>1. delivered \in [Message -> Nat]
      BY DEF TypeOK
    <2> QED
      BY <1>2, <2>1
  <1>5. TypeOK' /\ TargetInv'
    BY <1>1, <1>3, <1>4 DEF TypeOK, TargetInv, rows
  <1>6. ClaimInv'
    BY <1>1 DEF ClaimInv, Attempts, rows
  <1>7. \A x \in Worker, n \in Message : Sends(x, n)' <=> Sends(x, n)
    BY <1>1, <1>3 DEF Sends
  <1>8. DeliveryInv'
    <2>1. ASSUME NEW n \in Message \ unquiesced
          PROVE  /\ delivered'[n] <= 1
                 /\ status[n] = "sent" => delivered'[n] > 0
                 /\ started[n] = "null" => delivered'[n] = 0
                 /\ SenderInv(n)'
      <3>1. CASE n = m
        <4>1. /\ status[n] = "sending" /\ started[n] # "null" /\ delivered[n] = 0
              /\ \A x \in Worker \ {w} : ~Sends(x, n)
          BY <1>0, <1>1, <3>1 DEF DeliveryInv, SenderInv, Sends
        <4>2. delivered'[n] \in {0, 1} /\ (answer = "accepted" => delivered'[n] = 1)
          BY <1>2, <1>4, <3>1, <4>1
        <4>3. SenderInv(n)'
          BY <1>1, <1>3, <1>7, <4>1, <4>2 DEF SenderInv, rows
        <4> QED
          BY <4>1, <4>2, <4>3
      <3>2. CASE n # m
        <4>1. ~Sends(w, n)
          BY <1>0, <3>2 DEF Sends
        <4>2. SenderInv(n)'
          BY <1>1, <1>3, <1>4, <1>7, <3>2, <4>1 DEF DeliveryInv, SenderInv, rows
        <4> QED
          BY <1>4, <3>2, <4>2 DEF DeliveryInv
      <3> QED
        BY <3>1, <3>2
    <2> QED
      BY <1>1, <2>1 DEF DeliveryInv, rows
  <1> QED
    BY <1>5, <1>6, <1>8

LEMMA RecordIInv ==
  ASSUME IInv, requests' = requests, NEW w \in Worker, Record(w)
  PROVE  IInv'
  <1> USE DEF IInv
  <1>0. PICK m \in Message : m = target[w]
    BY DEF Record, TargetInv
  <1>1. /\ phase[w] \in {"accepted", "refused"} /\ Idle(w)
        /\ UNCHANGED <<approvedBy, started, resolution, eligible, todo, counts>>
    BY DEF Record
  <1>2. PICK next \in Outcomes(phase[w]) :
          status' = IF status[m] = "sending" THEN [status EXCEPT ![m] = next] ELSE status
    BY <1>0 DEF Record
  <1>3. next \in {"sent", "failed"} /\ (next = "sent" => phase[w] = "accepted")
    BY <1>1, <1>2 DEF Outcomes
  <1>4. /\ status' \in [Message -> {"none", "queued", "approved", "rejected", "sending", "sent", "failed"}]
        /\ status'[m] = IF status[m] = "sending" THEN next ELSE status[m]
        /\ \A n \in Message \ {m} : status'[n] = status[n]
    BY <1>2, <1>3 DEF TypeOK
  <1>5. /\ WorkerType' /\ TargetInv'
        /\ \A n : ~Sends(w, n)'
        /\ \A x \in Worker, n \in Message : Sends(x, n)' => Sends(x, n) /\ phase'[x] = phase[x]
    BY <1>1, IdleFacts DEF Sends
  <1>6. TypeOK'
    BY <1>1, <1>4, <1>5 DEF TypeOK, WorkerType, counts
  <1>7. ClaimInv'
    <2>1. status'[m] \in {"none", "queued", "rejected"} => status[m] = status'[m]
      BY <1>3, <1>4
    <2> QED
      BY <1>1, <1>4, <2>1 DEF ClaimInv, Attempts, counts
  <1>8. DeliveryInv'
    <2>1. m \in unquiesced' \/ \A x \in Worker : ~Sends(x, m)'
      <3>1. m \in unquiesced \/ \A x \in Worker \ {w} : ~Sends(x, m)
        BY <1>0, <1>1 DEF DeliveryInv, SenderInv, Sends
      <3> QED
        BY <1>1, <1>5, <3>1 DEF counts
    <2>2. m \in unquiesced' \/ (status'[m] = "sent" => delivered[m] > 0)
      <3>1. m \in unquiesced \/ (phase[w] = "accepted" => delivered[m] = 1)
        BY <1>0, <1>1 DEF DeliveryInv, SenderInv, Sends
      <3> QED
        BY <1>1, <1>3, <1>4, <3>1 DEF DeliveryInv, counts
    <2>3. m \in unquiesced' \/ (started'[m] = "null" => delivered[m] = 0)
      BY <1>1 DEF DeliveryInv, counts
    <2> HIDE DEF IInv
    <2> QED
      BY <1>1, <1>4, <1>5, <2>1, <2>2, <2>3, NoSenderDelivery DEF counts
  <1> QED
    BY <1>5, <1>6, <1>7, <1>8

LEMMA CrashIInv ==
  ASSUME IInv, requests' = requests, NEW w \in Worker, Crash(w)
  PROVE  IInv'
  <1> USE DEF IInv
  <1>1. /\ crashes < MaxCrashes /\ crashes' = crashes + 1 /\ Idle(w)
        /\ todo' = IF w \in Dispatcher THEN [todo EXCEPT ![w] = {}] ELSE todo
        /\ UNCHANGED <<rows, unquiesced, claims, recoveries>>
        /\ \/ UNCHANGED delivered
           \/ phase[w] = "send" /\ delivered' = [delivered EXCEPT ![target[w]] = @ + 1]
    BY DEF Crash
  <1>2. /\ WorkerType' /\ TargetInv'
        /\ \A n : ~Sends(w, n)'
        /\ \A x \in Worker, n \in Message : Sends(x, n)' => Sends(x, n) /\ phase'[x] = phase[x] /\ x # w
    BY <1>1, IdleFacts DEF Sends
  <1>3. delivered \in [Message -> Nat] /\ delivered' \in [Message -> Nat]
    <2>1. delivered \in [Message -> Nat]
      BY DEF TypeOK
    <2>2. CASE phase[w] = "send" /\ delivered' = [delivered EXCEPT ![target[w]] = @ + 1]
      <3>1. target[w] \in Message
        BY <2>2 DEF TargetInv
      <3> QED
        BY <2>1, <2>2, <3>1
    <2> QED
      BY <1>1, <2>1, <2>2
  <1>4. todo' \in [Dispatcher -> SUBSET (Message \X {"queued", "approved"})]
    BY <1>1 DEF TypeOK
  <1>5. crashes' \in 0 .. MaxCrashes
    BY <1>1, MessageAssumption DEF TypeOK
  <1>6. TypeOK'
    BY <1>1, <1>2, <1>3, <1>4, <1>5 DEF TypeOK, WorkerType, rows
  <1>7. ClaimInv'
    BY <1>1 DEF ClaimInv, Attempts, rows
  <1>8. DeliveryInv'
    <2>1. ASSUME NEW n \in Message \ unquiesced
          PROVE  /\ delivered'[n] <= 1
                 /\ status[n] = "sent" => delivered'[n] > 0
                 /\ started[n] = "null" => delivered'[n] = 0
                 /\ SenderInv(n)'
      <3>1. CASE delivered'[n] = delivered[n]
        <4>1. SenderInv(n)'
          BY <1>1, <1>2, <3>1 DEF DeliveryInv, SenderInv, rows
        <4> QED
          BY <3>1, <4>1 DEF DeliveryInv
      <3>2. CASE delivered'[n] # delivered[n]
        <4>1. /\ phase[w] = "send" /\ target[w] = n /\ delivered'[n] = delivered[n] + 1
          BY <1>1, <1>3, <3>2
        <4>2. /\ delivered[n] = 0 /\ status[n] = "sending" /\ started[n] # "null"
              /\ \A x \in Worker \ {w} : ~Sends(x, n)
          BY <4>1 DEF DeliveryInv, SenderInv, Sends
        <4>3. SenderInv(n)'
          BY <1>2, <4>2 DEF SenderInv
        <4> QED
          BY <4>1, <4>2, <4>3
      <3> QED
        BY <3>1, <3>2
    <2> QED
      BY <1>1, <2>1 DEF DeliveryInv, rows
  <1> QED
    BY <1>2, <1>6, <1>7, <1>8

-----------------------------------------------------------------------------
LEMMA NextIInv == IInv /\ [Next]_vars => IInv'
  <1>1. ASSUME IInv, UNCHANGED vars
        PROVE  IInv'
    <2>1. TypeOK' /\ TargetInv'
      BY <1>1 DEF IInv, TypeOK, TargetInv, vars, rows, workers, counts
    <2>2. ClaimInv'
      BY <1>1 DEF IInv, ClaimInv, Attempts, vars, rows, counts
    <2>3. DeliveryInv'
      BY <1>1 DEF IInv, DeliveryInv, SenderInv, Sends, vars, rows, workers, counts
    <2> QED
      BY <2>1, <2>2, <2>3 DEF IInv
  <1>2. ASSUME IInv, RequestStep
        PROVE  IInv'
    <2>1. requests' \in 0 .. MaxRequests
      BY <1>2, MessageAssumption DEF IInv, TypeOK, RequestStep
    <2> QED
      BY <1>2, <2>1, SubmitIInv, ApproveIInv, RejectIInv, ConfirmSentIInv, ConfirmNotSentIInv, RevokeIInv
      DEF RequestStep
  <1>3. ASSUME IInv, NEW w \in Worker, WorkerStep(w)
        PROVE  IInv'
    BY <1>3, PollIInv, TakeIInv, ClaimIInv, TransportIInv, RecordIInv DEF WorkerStep
  <1> QED
    BY <1>1, <1>2, <1>3, CrashIInv, GrowStaleIInv DEF Next

LEMMA Invariant == Spec => []IInv
  BY InitIInv, NextIInv, PTL DEF Spec

\* Rows, workers and their batches keep their types, for any messages and workers.
THEOREM TypeCorrect == Spec => []TypeOK
  BY Invariant, PTL DEF IInv

\* However many callers and dispatchers race and crash, a message whose sender was stopped
\* before it was resolved is accepted once at most (claimAndDispatch).
THEOREM AtMostOneDeliveryAlways == Spec => []AtMostOneDelivery
  <1>1. IInv => AtMostOneDelivery
    BY DEF IInv, DeliveryInv, AtMostOneDelivery
  <1> QED
    BY <1>1, Invariant, PTL

\* For any messages and workers, what is recorded as sent was accepted, and what was
\* accepted is not staged again (claimAndDispatch, resolveFailedDelivery).
THEOREM RecordMatchesProviderAlways == Spec => []RecordMatchesProvider
  <1>1. IInv => RecordMatchesProvider
    <2> SUFFICES ASSUME IInv, NEW m \in Message \ unquiesced
                 PROVE  /\ status[m] = "sent" => delivered[m] > 0
                        /\ delivered[m] > 0 => ~Staged(m)
      BY DEF RecordMatchesProvider
    <2> QED
      BY DEF IInv, DeliveryInv, Staged
  <1> QED
    BY <1>1, Invariant, PTL

\* For any number of attempts, late senders and recoveries, every claim is authorized, and
\* that of a gated message by a human (stagedMessageWhere, approve).
THEOREM OneClaimPerAuthorizationAlways == Spec => []OneClaimPerAuthorization
  <1>1. IInv => OneClaimPerAuthorization
    <2> SUFFICES ASSUME IInv, NEW m \in Message
                 PROVE  /\ claims[m] <= 1 + recoveries[m]
                        /\ m \notin Automatic /\ claims[m] > 0 =>
                             approvedBy[m] # Nobody /\ status[m] \notin {"queued", "rejected"}
      BY DEF OneClaimPerAuthorization
    <2>1. claims \in [Message -> Nat] /\ recoveries \in [Message -> 0 .. MaxRecoveries]
      BY DEF IInv, TypeOK
    <2>2. claims[m] <= recoveries[m] + Attempts(m) /\ Attempts(m) \in {0, 1}
      BY DEF IInv, ClaimInv, Attempts
    <2>3. claims[m] <= 1 + recoveries[m]
      BY <2>1, <2>2, MessageAssumption
    <2> QED
      BY <2>3 DEF IInv, ClaimInv
  <1> QED
    BY <1>1, Invariant, PTL
=============================================================================
