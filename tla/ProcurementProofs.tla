-------------------------- MODULE ProcurementProofs --------------------------
(***************************************************************************)
(* Proofs about Procurement, for any requisitions, vendors, buyers and     *)
(* sweepers, and any bounds.                                               *)
(***************************************************************************)
EXTENDS Procurement, FiniteSetTheorems, TLAPS

-----------------------------------------------------------------------------
(* The invariant. *)

\* An open transaction is about a requisition and a vendor.
TxInv ==
  \A b \in Buyer : doing[b] # "nothing" => requisition[b] \in Requisition /\ vendor[b] \in Vendor

\* Only an approved requisition has other approvals than its own, or an order.
GateInv ==
  /\ StatusFollowsApproval
  /\ \A q \in Requisition :
       reqStatus[q] # "approved" =>
         live[q] = 0 /\ \A k \in Kind \ {"requisition"} : gate[q][k] = "none"

\* An order is alone, and a pending cancellation is that of one.
LiveInv ==
  \A q \in Requisition :
    live[q] <= 1 /\ (gate[q]["poCancellation"] = "pending" => live[q] = 1)

\* Who issues an order holds the requisition's row, and what it has read there holds.
IssueInv ==
  \A b \in Buyer : doing[b] = "issue" =>
    /\ reqStatus[requisition[b]] = "approved" /\ live[requisition[b]] = 0
    /\ \A c \in Buyer \ {b} : doing[c] = "issue" => requisition[c] # requisition[b]
    /\ terms[b] > 0 =>
         /\ Accepted(requisition[b]) = {vendor[b]}
         /\ terms[b] = offer[requisition[b]][vendor[b]]

Awarding(b) == doing[b] \in {"award", "accept"}

\* Who awards holds the lock, and nothing is accepted meanwhile.
AwardInv ==
  \A b \in Buyer : Awarding(b) =>
    /\ Accepted(requisition[b]) = {}
    /\ \A c \in Buyer \ {b} : Awarding(c) => requisition[c] # requisition[b]

AtMostOne(S) == \A v, w \in S : v = w

\* What was ordered on a quote is the one award, dead orders included.
OrderInv ==
  \A q \in Requisition :
    /\ AtMostOne(Accepted(q))
    /\ orderOffer[q] > 0 =>
         /\ Accepted(q) = {orderVendor[q]}
         /\ orderOffer[q] = offer[q][orderVendor[q]]

IInv == TypeOK /\ TxInv /\ GateInv /\ LiveInv /\ IssueInv /\ AwardInv /\ OrderInv

LEMMA InitIInv == Init => IInv
  <1> SUFFICES ASSUME Init PROVE IInv
    OBVIOUS
  <1>1. TypeOK
    BY ProcurementAssumption DEF Init, TypeOK
  <1>2. \A q \in Requisition : Accepted(q) = {}
    BY DEF Init, Accepted
  <1>3. "requisition" \in Kind /\ "poCancellation" \in Kind
    BY DEF Kind
  <1>4. TxInv /\ GateInv /\ LiveInv /\ IssueInv /\ AwardInv /\ OrderInv
    BY <1>2, <1>3 DEF Init, TxInv, GateInv, StatusFollowsApproval, LiveInv, IssueInv, AwardInv, Awarding,
                 OrderInv, AtMostOne
  <1> QED
    BY <1>1, <1>4 DEF IInv

\* A table with one entry replaced.
LEMMA Replaced ==
  ASSUME NEW S, NEW T, NEW U, NEW f \in [S -> [T -> U]], NEW s \in S, NEW t \in T, NEW u \in U
  PROVE  /\ [f EXCEPT ![s][t] = u] \in [S -> [T -> U]]
         /\ [f EXCEPT ![s][t] = u][s][t] = u
         /\ \A x \in S, y \in T : x # s \/ y # t => [f EXCEPT ![s][t] = u][x][y] = f[x][y]
  OBVIOUS

Verdicts == {"none", "pending", "approved", "rejected"}

\* One approval is given a new status.
LEMMA GateReplaced ==
  ASSUME TypeOK, NEW q \in Requisition, NEW k \in Kind, NEW g \in Verdicts,
         gate' = [gate EXCEPT ![q][k] = g]
  PROVE  /\ gate' \in [Requisition -> [Kind -> Verdicts]]
         /\ gate'[q][k] = g
         /\ \A x \in Requisition, y \in Kind : x # q \/ y # k => gate'[x][y] = gate[x][y]
  <1>1. gate \in [Requisition -> [Kind -> Verdicts]]
    BY DEF TypeOK, Verdicts
  <1> HIDE DEF Verdicts
  <1> QED
    BY <1>1, Replaced

-----------------------------------------------------------------------------
(* Requisitions and their approvals. *)

LEMMA SubmitIInv ==
  ASSUME IInv, NEW q \in Requisition, Submit(q)
  PROVE  IInv'
  <1> USE DEF IInv
  <1>0. "requisition" \in Kind /\ "poCancellation" \in Kind
    BY DEF Kind
  <1>1. /\ reqStatus[q] = "draft"
        /\ UNCHANGED <<vendorVars, quoteVars, orderVars, txVars, slaVars>>
        /\ \E s \in {"approved", "submitted"}, g \in {"approved", "pending"} :
             /\ reqStatus' = [reqStatus EXCEPT ![q] = s]
             /\ gate' = [gate EXCEPT ![q]["requisition"] = g]
             /\ s = "approved" <=> g = "approved"
             /\ s = "approved" => approvedEvents' = [approvedEvents EXCEPT ![q] = @ + 1]
             /\ s # "approved" => approvedEvents' = approvedEvents
    BY DEF Submit
  <1>2. TypeOK'
    <2>1. gate' \in [Requisition -> [Kind -> Verdicts]]
      BY <1>0, <1>1, GateReplaced DEF Verdicts
    <2>2. reqStatus' \in [Requisition -> {"draft", "submitted", "approved", "rejected"}]
      BY <1>1 DEF TypeOK
    <2>3. approvedEvents' \in [Requisition -> Nat]
      <3>1. approvedEvents' = approvedEvents \/ approvedEvents' = [approvedEvents EXCEPT ![q] = @ + 1]
        BY DEF Submit
      <3>2. approvedEvents \in [Requisition -> Nat]
        BY DEF TypeOK
      <3> QED
        BY <3>1, <3>2
    <2> QED
      BY <1>1, <2>1, <2>2, <2>3 DEF TypeOK, Verdicts, vendorVars, quoteVars, orderVars, txVars, slaVars
  <1>3. GateInv'
    BY <1>0, <1>1 DEF TypeOK, GateInv, StatusFollowsApproval, orderVars
  <1>4. LiveInv'
    BY <1>0, <1>1 DEF TypeOK, LiveInv, orderVars
  <1>5. TxInv' /\ IssueInv' /\ AwardInv' /\ OrderInv'
    <2>1. \A p \in Requisition : Accepted(p)' = Accepted(p)
      BY <1>1 DEF Accepted, quoteVars
    <2>2. \A p \in Requisition : reqStatus[p] = "approved" => reqStatus'[p] = "approved"
      BY <1>1 DEF TypeOK
    <2> QED
      BY <1>1, <2>1, <2>2 DEF TxInv, IssueInv, AwardInv, Awarding, OrderInv, AtMostOne, Accepted, orderVars, txVars,
                              quoteVars
  <1> QED
    BY <1>2, <1>3, <1>4, <1>5

LEMMA DecideIInv ==
  ASSUME IInv, NEW q \in Requisition, NEW k \in Kind, NEW verdict \in {"approve", "reject"},
         Decide(q, k, verdict)
  PROVE  IInv'
  <1> USE DEF IInv
  <1> DEFINE g == Decided(verdict)
  <1>0. "requisition" \in Kind /\ "poCancellation" \in Kind /\ g \in {"approved", "rejected"}
    BY DEF Kind, Decided
  <1>1. /\ gate[q][k] = "pending"
        /\ gate' = [gate EXCEPT ![q][k] = g]
        /\ UNCHANGED <<quoteVars, orderVendor, orderOffer, orderedQuotes, orders, txVars, slaVars>>
    BY DEF Decide
  <1>2. /\ gate' \in [Requisition -> [Kind -> Verdicts]]
        /\ gate'[q][k] = g
        /\ \A x \in Requisition, y \in Kind : x # q \/ y # k => gate'[x][y] = gate[x][y]
    <2> HIDE DEF g
    <2> QED
      BY <1>0, <1>1, GateReplaced DEF Verdicts
  <1>3. \A p \in Requisition : Accepted(p)' = Accepted(p)
    BY <1>1 DEF Accepted, quoteVars
  <1>4. TxInv' /\ AwardInv' /\ OrderInv'
    BY <1>1, <1>3 DEF TxInv, AwardInv, Awarding, OrderInv, AtMostOne, txVars, quoteVars
  <1>5. k # "requisition" => reqStatus[q] = "approved"
    BY <1>1 DEF GateInv
  <1> HIDE DEF g
  <1>6. CASE k = "poCancellation"
    <2>1. /\ live' = live \/ live' = [live EXCEPT ![q] = @ - 1]
          /\ UNCHANGED <<reqStatus, approvedEvents, vendorVars>>
      BY <1>6, ProcurementAssumption DEF Decide, IsVendorGate
    <2>2. live[q] = 1
      BY <1>1, <1>6 DEF LiveInv
    <2>3. live' \in [Requisition -> Nat]
      <3>1. live \in [Requisition -> Nat]
        BY DEF TypeOK
      <3> QED
        BY <2>1, <2>2, <3>1
    <2>4. live'[q] \in {0, 1} /\ \A p \in Requisition \ {q} : live'[p] = live[p]
      <3>1. live \in [Requisition -> Nat]
        BY DEF TypeOK
      <3> QED
        BY <2>1, <2>2, <3>1
    <2>5. TypeOK'
      BY <1>1, <1>2, <2>1, <2>3 DEF TypeOK, Verdicts, vendorVars, quoteVars, txVars, slaVars
    <2>6. GateInv'
      <3>1. StatusFollowsApproval'
        <4>1. \A p \in Requisition : gate'[p]["requisition"] = gate[p]["requisition"]
          BY <1>0, <1>2, <1>6
        <4> QED
          BY <2>1, <4>1 DEF GateInv, StatusFollowsApproval
      <3>2. ASSUME NEW p \in Requisition, reqStatus'[p] # "approved"
            PROVE  live'[p] = 0 /\ \A j \in Kind \ {"requisition"} : gate'[p][j] = "none"
        <4>1. p # q /\ reqStatus[p] # "approved"
          BY <1>5, <1>6, <2>1, <3>2
        <4> QED
          BY <1>2, <2>4, <4>1 DEF GateInv
      <3> QED
        BY <3>1, <3>2 DEF GateInv
    <2>7. LiveInv'
      BY <1>0, <1>2, <1>6, <2>4 DEF LiveInv
    <2>8. IssueInv'
      BY <1>1, <1>3, <2>1, <2>2, <2>4 DEF TxInv, IssueInv, txVars, quoteVars
    <2> QED
      BY <1>4, <2>5, <2>6, <2>7, <2>8
  <1>7. CASE k \in Vendor
    <2>0. k # "requisition" /\ k # "poCancellation"
      BY <1>7, ProcurementAssumption
    <2>1. /\ vendorStatus' = vendorStatus \/ vendorStatus' = [vendorStatus EXCEPT ![k] = "active"]
          /\ UNCHANGED <<reqStatus, approvedEvents, qualifications, live>>
      BY <1>7, <2>0 DEF Decide, IsVendorGate
    <2>2. vendorStatus' \in [Vendor -> {"prospective", "active", "blacklisted"}]
      BY <2>1 DEF TypeOK
    <2>3. TypeOK'
      BY <1>1, <1>2, <2>1, <2>2 DEF TypeOK, Verdicts, quoteVars, txVars, slaVars
    <2>4. GateInv' /\ LiveInv'
      BY <1>0, <1>2, <1>5, <2>0, <2>1 DEF GateInv, LiveInv, StatusFollowsApproval
    <2>5. IssueInv'
      BY <1>1, <1>3, <2>1 DEF TxInv, IssueInv, txVars, quoteVars
    <2> QED
      BY <1>4, <2>3, <2>4, <2>5
  <1>8. CASE k = "requisition"
    <2>1. ConcludeRequisition(q, k, verdict) /\ UNCHANGED <<vendorVars, live>>
      BY <1>8, ProcurementAssumption DEF Decide, IsVendorGate
    <2>2. reqStatus[q] = "submitted" /\ approvedEvents[q] = 0
      BY <1>0, <1>1, <1>8 DEF GateInv, StatusFollowsApproval
    <2>3. live[q] = 0 /\ \A y \in Kind \ {k} : gate[q][y] = "none"
      BY <1>8, <2>2 DEF GateInv
    <2>4. NextStatus(q, k, verdict) = g
      BY <2>3 DEF NextStatus, g, Decided
    <2>5. /\ reqStatus' = [reqStatus EXCEPT ![q] = g]
          /\ g = "approved" => approvedEvents' = [approvedEvents EXCEPT ![q] = @ + 1]
          /\ g # "approved" => approvedEvents' = approvedEvents
      BY <2>1, <2>4 DEF ConcludeRequisition
    <2>6. /\ reqStatus' \in [Requisition -> {"draft", "submitted", "approved", "rejected"}]
          /\ reqStatus'[q] = g /\ \A p \in Requisition \ {q} : reqStatus'[p] = reqStatus[p]
      BY <1>0, <2>5 DEF TypeOK
    <2>7. /\ approvedEvents' \in [Requisition -> Nat]
          /\ approvedEvents'[q] = (IF g = "approved" THEN 1 ELSE 0)
          /\ \A p \in Requisition \ {q} : approvedEvents'[p] = approvedEvents[p]
      <3>1. approvedEvents \in [Requisition -> Nat]
        BY DEF TypeOK
      <3> QED
        BY <2>2, <2>5, <3>1
    <2>8. TypeOK'
      BY <1>1, <1>2, <2>1, <2>6, <2>7 DEF TypeOK, Verdicts, vendorVars, quoteVars, txVars, slaVars
    <2>9. GateInv' /\ LiveInv'
      <3>1. StatusFollowsApproval'
        BY <1>0, <1>2, <1>8, <2>6, <2>7 DEF GateInv, StatusFollowsApproval
      <3>2. LiveInv'
        BY <1>0, <1>2, <1>8, <2>1 DEF LiveInv
      <3> QED
        BY <1>0, <1>2, <1>8, <2>1, <2>3, <2>6, <3>1, <3>2 DEF GateInv
    <2>10. IssueInv'
      BY <1>1, <1>3, <2>1, <2>2, <2>6 DEF TxInv, IssueInv, txVars, quoteVars
    <2> QED
      BY <1>4, <2>8, <2>9, <2>10
  <1> QED
    BY <1>6, <1>7, <1>8 DEF Kind

\* Who opens a gate other than the requisition's own for an approved requisition: OpenGate
\* and what it leaves of the invariant.
LEMMA OpenGateIInv ==
  ASSUME IInv, NEW q \in Requisition, NEW k \in Kind \ {"requisition"}, OpenGate(q, k),
         reqStatus[q] = "approved", k = "poCancellation" => live[q] = 1,
         UNCHANGED <<reqStatus, approvedEvents, vendorVars, quoteVars, orderVars, sweeps, losers>>,
         doing' \in [Buyer -> {"nothing", "award", "accept", "issue"}],
         requisition' \in [Buyer -> Requisition \cup {Nobody}],
         vendor' \in [Buyer -> Vendor \cup {Nobody}],
         terms' \in [Buyer -> 0 .. MaxOffers],
         TxInv', IssueInv', AwardInv'
  PROVE  IInv'
  <1> USE DEF IInv
  <1>0. "requisition" \in Kind /\ "poCancellation" \in Kind
    BY DEF Kind
  <1>1. /\ gate' \in [Requisition -> [Kind -> Verdicts]]
        /\ gate'[q][k] = "pending"
        /\ \A x \in Requisition, y \in Kind : x # q \/ y # k => gate'[x][y] = gate[x][y]
    BY GateReplaced DEF OpenGate, Verdicts
  <1>2. escalated' \in [Requisition -> [Kind -> Nat]]
    BY Replaced DEF OpenGate, TypeOK
  <1>3. overdue' \in [Sweeper -> SUBSET (Requisition \X Kind)]
    <2>1. overdue \in [Sweeper -> SUBSET (Requisition \X Kind)]
      BY DEF TypeOK
    <2>2. overdue' = [s \in Sweeper |-> overdue[s] \ {<<q, k>>}]
      BY DEF OpenGate
    <2> QED
      BY <2>1, <2>2
  <1>4. TypeOK'
    BY <1>1, <1>2, <1>3 DEF TypeOK, Verdicts, vendorVars, quoteVars, orderVars
  <1>5. GateInv' /\ LiveInv'
    <2>1. \A p \in Requisition : gate'[p]["requisition"] = gate[p]["requisition"]
      BY <1>0, <1>1
    <2>2. StatusFollowsApproval'
      BY <2>1 DEF GateInv, StatusFollowsApproval
    <2>3. ASSUME NEW p \in Requisition, reqStatus[p] # "approved"
          PROVE  live'[p] = 0 /\ \A j \in Kind \ {"requisition"} : gate'[p][j] = "none"
      BY <1>1, <2>3 DEF GateInv, orderVars
    <2>4. LiveInv'
      BY <1>0, <1>1 DEF LiveInv, orderVars
    <2> QED
      BY <2>2, <2>3, <2>4 DEF GateInv
  <1>6. \A p \in Requisition : Accepted(p)' = Accepted(p)
    BY DEF Accepted, quoteVars
  <1>7. OrderInv'
    BY <1>6 DEF OrderInv, AtMostOne, quoteVars, orderVars
  <1> QED
    BY <1>4, <1>5, <1>7

LEMMA RequestCancellationIInv ==
  ASSUME IInv, NEW q \in Requisition, RequestCancellation(q)
  PROVE  IInv'
  <1> USE DEF IInv
  <1> DEFINE k == "poCancellation"
  <1>1. live[q] > 0 /\ OpenGate(q, k)
        /\ UNCHANGED <<reqStatus, approvedEvents, vendorVars, quoteVars, orderVars, txVars, sweeps>>
    BY DEF RequestCancellation
  <1>2. k \in Kind \ {"requisition"}
    BY DEF Kind
  <1>3. live[q] = 1 /\ reqStatus[q] = "approved"
    <2>1. live[q] \in Nat
      BY DEF TypeOK
    <2> QED
      BY <1>1, <2>1 DEF LiveInv, GateInv
  <1>4. \A p \in Requisition : Accepted(p)' = Accepted(p)
    BY <1>1 DEF Accepted, quoteVars
  <1>5. TxInv' /\ IssueInv' /\ AwardInv'
    BY <1>1, <1>4 DEF TxInv, IssueInv, AwardInv, Awarding, txVars, quoteVars, orderVars
  <1>6. /\ doing' \in [Buyer -> {"nothing", "award", "accept", "issue"}]
        /\ requisition' \in [Buyer -> Requisition \cup {Nobody}]
        /\ vendor' \in [Buyer -> Vendor \cup {Nobody}]
        /\ terms' \in [Buyer -> 0 .. MaxOffers]
    BY <1>1 DEF TypeOK, txVars
  <1> HIDE DEF k, IInv
  <1> QED
    BY <1>1, <1>2, <1>3, <1>5, <1>6, OpenGateIInv DEF txVars

\* Vendor statuses and the escalations are read by nothing of the invariant.
LEMMA QuietIInv ==
  ASSUME IInv, UNCHANGED <<gateVars, quoteVars, orderVars, txVars>>, TypeOK'
  PROVE  IInv'
  <1>1. \A p \in Requisition : Accepted(p)' = Accepted(p)
    BY DEF Accepted, quoteVars
  <1>2. TxInv' /\ GateInv' /\ LiveInv'
    BY DEF IInv, TxInv, GateInv, StatusFollowsApproval, LiveInv, gateVars, orderVars, txVars
  <1>3. IssueInv' /\ AwardInv' /\ OrderInv'
    BY <1>1 DEF IInv, TxInv, IssueInv, AwardInv, Awarding, OrderInv, AtMostOne, gateVars, quoteVars,
                orderVars, txVars
  <1> QED
    BY <1>2, <1>3 DEF IInv

LEMMA UpdateVendorIInv ==
  ASSUME IInv, NEW v \in Vendor, NEW status \in {"prospective", "active", "blacklisted"},
         UpdateVendor(v, status)
  PROVE  IInv'
  <1>1. /\ qualifications < MaxQualifications /\ qualifications' = qualifications + 1
        /\ vendorStatus' = [vendorStatus EXCEPT ![v] = status]
        /\ UNCHANGED <<gateVars, quoteVars, orderVars, txVars, slaVars>>
    BY DEF UpdateVendor
  <1>2. vendorStatus' \in [Vendor -> {"prospective", "active", "blacklisted"}]
    BY <1>1 DEF IInv, TypeOK
  <1>3. qualifications' \in 0 .. MaxQualifications
    <2>1. qualifications \in 0 .. MaxQualifications
      BY DEF IInv, TypeOK
    <2> QED
      BY <1>1, <2>1, ProcurementAssumption
  <1>4. TypeOK'
    BY <1>1, <1>2, <1>3 DEF IInv, TypeOK, gateVars, quoteVars, orderVars, txVars, slaVars
  <1> QED
    BY <1>1, <1>4, QuietIInv

LEMMA SweeperIInv ==
  ASSUME IInv, NEW s \in Sweeper,
         \/ BeginSweep(s) \/ AbortSweep(s)
         \/ \E q \in Requisition, k \in Kind : Escalate(s, q, k)
  PROVE  IInv'
  <1>1. UNCHANGED <<gateVars, vendorVars, quoteVars, orderVars, txVars>>
    BY DEF BeginSweep, AbortSweep, Escalate
  <1>2. overdue \in [Sweeper -> SUBSET (Requisition \X Kind)]
    BY DEF IInv, TypeOK
  <1>3. overdue' \in [Sweeper -> SUBSET (Requisition \X Kind)]
    <2>1. PICK late \in SUBSET (Requisition \X Kind) : overdue' = [overdue EXCEPT ![s] = late]
      <3>1. CASE BeginSweep(s)
        BY <3>1 DEF BeginSweep, Pending
      <3>2. CASE AbortSweep(s)
        BY <3>2 DEF AbortSweep
      <3>3. ASSUME NEW q \in Requisition, NEW k \in Kind, Escalate(s, q, k)
            PROVE  \E late \in SUBSET (Requisition \X Kind) : overdue' = [overdue EXCEPT ![s] = late]
        <4>1. overdue' = [overdue EXCEPT ![s] = overdue[s] \ {<<q, k>>}]
          BY <3>3 DEF Escalate
        <4>2. overdue[s] \ {<<q, k>>} \in SUBSET (Requisition \X Kind)
          BY <1>2
        <4> QED
          BY <4>1, <4>2
      <3> QED
        BY <3>1, <3>2, <3>3
    <2> QED
      BY <1>2, <2>1
  <1>4. escalated' \in [Requisition -> [Kind -> Nat]]
    <2>1. escalated \in [Requisition -> [Kind -> Nat]]
      BY DEF IInv, TypeOK
    <2>2. ASSUME NEW q \in Requisition, NEW k \in Kind, Escalate(s, q, k)
          PROVE  escalated' \in [Requisition -> [Kind -> Nat]]
      <3>1. escalated[q][k] + 1 \in Nat
        BY <2>1
      <3>2. escalated' = escalated \/ escalated' = [escalated EXCEPT ![q][k] = escalated[q][k] + 1]
        BY <2>2 DEF Escalate
      <3> QED
        BY <2>1, <3>1, <3>2, Replaced
    <2> QED
      BY <2>1, <2>2 DEF BeginSweep, AbortSweep
  <1>5. sweeps' \in 0 .. MaxSweeps
    <2>1. sweeps \in 0 .. MaxSweeps
      BY DEF IInv, TypeOK
    <2>2. sweeps' = sweeps \/ (sweeps < MaxSweeps /\ sweeps' = sweeps + 1)
      BY DEF BeginSweep, AbortSweep, Escalate
    <2> QED
      BY <2>1, <2>2, ProcurementAssumption
  <1>6. TypeOK'
    BY <1>1, <1>3, <1>4, <1>5 DEF IInv, TypeOK, gateVars, vendorVars, quoteVars, orderVars, txVars
  <1> QED
    BY <1>1, <1>6, QuietIInv
-----------------------------------------------------------------------------
(* Quotes. *)

QuoteStatus == {"none", "requested", "received", "accepted", "rejected"}

\* What happens to quotes that are open leaves the award and the order made from it alone.
LEMMA OpenQuoteIInv ==
  ASSUME IInv, UNCHANGED <<gateVars, vendorVars, orderVars, txVars, slaVars>>,
         quote' \in [Requisition -> [Vendor -> QuoteStatus]],
         offer' \in [Requisition -> [Vendor -> 0 .. MaxOffers]],
         expired' \in [Requisition -> [Vendor -> BOOLEAN]],
         \A q \in Requisition, v \in Vendor : quote'[q][v] = "accepted" <=> quote[q][v] = "accepted",
         \A q \in Requisition, v \in Vendor : quote[q][v] = "accepted" => offer'[q][v] = offer[q][v]
  PROVE  IInv'
  <1> USE DEF IInv
  <1>1. TypeOK'
    BY DEF TypeOK, QuoteStatus, gateVars, vendorVars, orderVars, txVars, slaVars
  <1>2. \A q \in Requisition : Accepted(q)' = Accepted(q)
    BY DEF Accepted
  <1>3. TxInv' /\ GateInv' /\ LiveInv'
    BY DEF TxInv, GateInv, StatusFollowsApproval, LiveInv, gateVars, orderVars, txVars
  <1>7. AwardInv'
    BY <1>2 DEF TxInv, AwardInv, Awarding, txVars
  <1>4. \A q \in Requisition, v \in Vendor : Accepted(q) = {v} => offer'[q][v] = offer[q][v]
    BY DEF Accepted
  <1>5. IssueInv'
    <2>1. ASSUME NEW b \in Buyer, doing[b] = "issue"
          PROVE  /\ Accepted(requisition[b])' = Accepted(requisition[b])
                 /\ Accepted(requisition[b]) = {vendor[b]} =>
                      offer'[requisition[b]][vendor[b]] = offer[requisition[b]][vendor[b]]
      BY <1>2, <1>4, <2>1 DEF TxInv, Accepted, txVars
    <2> QED
      BY <2>1 DEF IssueInv, Accepted, gateVars, orderVars, txVars
  <1>6. OrderInv'
    <2>1. \A q \in Requisition : \A v : Accepted(q) = {v} => v \in Vendor
      BY DEF Accepted
    <2> QED
      BY <1>2, <1>4, <2>1 DEF OrderInv, AtMostOne, orderVars
  <1> QED
    BY <1>1, <1>3, <1>5, <1>6, <1>7

LEMMA QuoteIInv ==
  ASSUME IInv, NEW q \in Requisition, NEW v \in Vendor,
         RequestQuote(q, v) \/ ReceiveOffer(q, v) \/ ExpireOffer(q, v)
  PROVE  IInv'
  <1>1. /\ quote \in [Requisition -> [Vendor -> QuoteStatus]]
        /\ offer \in [Requisition -> [Vendor -> 0 .. MaxOffers]]
        /\ expired \in [Requisition -> [Vendor -> BOOLEAN]]
    BY DEF IInv, TypeOK, QuoteStatus
  <1>2. CASE RequestQuote(q, v)
    <2>1. /\ quote[q][v] = "none" /\ quote' = [quote EXCEPT ![q][v] = "requested"]
          /\ UNCHANGED <<gateVars, vendorVars, offer, expired, orderVars, txVars, slaVars>>
      BY <1>2 DEF RequestQuote
    <2>2. /\ quote' \in [Requisition -> [Vendor -> QuoteStatus]] /\ quote'[q][v] = "requested"
          /\ \A x \in Requisition, y \in Vendor : x # q \/ y # v => quote'[x][y] = quote[x][y]
      <3>1. "requested" \in QuoteStatus
        BY DEF QuoteStatus
      <3> QED
        BY <1>1, <2>1, <3>1, Replaced
    <2>3. \A x \in Requisition, y \in Vendor : quote'[x][y] = "accepted" <=> quote[x][y] = "accepted"
      BY <2>1, <2>2
    <2> QED
      BY <1>1, <2>1, <2>2, <2>3, OpenQuoteIInv
  <1>3. CASE ReceiveOffer(q, v)
    <2>1. /\ quote[q][v] # "accepted" /\ offer[q][v] < MaxOffers
          /\ quote' = [quote EXCEPT ![q][v] = "received"]
          /\ offer' = [offer EXCEPT ![q][v] = offer[q][v] + 1]
          /\ \E over \in {FALSE, expired[q][v]} : expired' = [expired EXCEPT ![q][v] = over]
          /\ UNCHANGED <<gateVars, vendorVars, orderVars, txVars, slaVars>>
      BY <1>3 DEF ReceiveOffer, OpenForOffers
    <2>2. /\ quote' \in [Requisition -> [Vendor -> QuoteStatus]] /\ quote'[q][v] = "received"
          /\ \A x \in Requisition, y \in Vendor : x # q \/ y # v => quote'[x][y] = quote[x][y]
      <3>1. "received" \in QuoteStatus
        BY DEF QuoteStatus
      <3> QED
        BY <1>1, <2>1, <3>1, Replaced
    <2>3. /\ offer' \in [Requisition -> [Vendor -> 0 .. MaxOffers]]
          /\ \A x \in Requisition, y \in Vendor : x # q \/ y # v => offer'[x][y] = offer[x][y]
      <3>1. offer[q][v] \in 0 .. MaxOffers
        BY <1>1
      <3>2. offer[q][v] + 1 \in 0 .. MaxOffers
        BY <2>1, <3>1, ProcurementAssumption
      <3> QED
        BY <1>1, <2>1, <3>2, Replaced
    <2>4. expired' \in [Requisition -> [Vendor -> BOOLEAN]]
      <3>0. expired[q][v] \in BOOLEAN
        BY <1>1
      <3>1. PICK over \in BOOLEAN : expired' = [expired EXCEPT ![q][v] = over]
        <4>1. PICK over \in {FALSE, expired[q][v]} : expired' = [expired EXCEPT ![q][v] = over]
          BY <2>1
        <4>2. over \in BOOLEAN
          BY <3>0, <4>1
        <4> QED
          BY <4>1, <4>2
      <3> QED
        BY <1>1, <3>1, Replaced
    <2>5. \A x \in Requisition, y \in Vendor : quote'[x][y] = "accepted" <=> quote[x][y] = "accepted"
      BY <2>1, <2>2
    <2>6. \A x \in Requisition, y \in Vendor : quote[x][y] = "accepted" => offer'[x][y] = offer[x][y]
      BY <2>1, <2>3
    <2> QED
      BY <2>1, <2>2, <2>3, <2>4, <2>5, <2>6, OpenQuoteIInv
  <1>4. CASE ExpireOffer(q, v)
    <2>1. /\ expired' = [expired EXCEPT ![q][v] = TRUE]
          /\ UNCHANGED <<gateVars, vendorVars, quote, offer, orderVars, txVars, slaVars>>
      BY <1>4 DEF ExpireOffer
    <2>2. expired' \in [Requisition -> [Vendor -> BOOLEAN]]
      BY <1>1, <2>1, Replaced
    <2> QED
      BY <1>1, <2>1, <2>2, OpenQuoteIInv
  <1> QED
    BY <1>2, <1>3, <1>4

-----------------------------------------------------------------------------
(* Awards and orders. *)

TxType ==
  /\ doing \in [Buyer -> {"nothing", "award", "accept", "issue"}]
  /\ requisition \in [Buyer -> Requisition \cup {Nobody}]
  /\ vendor \in [Buyer -> Vendor \cup {Nobody}]
  /\ terms \in [Buyer -> 0 .. MaxOffers]

\* A buyer's transaction begins, ends or goes on; those of the others do not change.
LEMMA BeginFacts ==
  ASSUME TypeOK, NEW b \in Buyer, NEW what \in {"nothing", "award", "accept", "issue"},
         NEW q \in Requisition \cup {Nobody}, NEW v \in Vendor \cup {Nobody}, NEW o \in 0 .. MaxOffers,
         Begin(b, what, q, v, o)
  PROVE  /\ TxType'
         /\ doing'[b] = what /\ requisition'[b] = q /\ vendor'[b] = v /\ terms'[b] = o
         /\ \A c \in Buyer \ {b} : /\ doing'[c] = doing[c] /\ requisition'[c] = requisition[c]
                                   /\ vendor'[c] = vendor[c] /\ terms'[c] = terms[c]
  <1>1. TxType
    BY DEF TypeOK, TxType
  <1> QED
    BY <1>1 DEF TxType, Begin

LEMMA EndFacts ==
  ASSUME TypeOK, NEW b \in Buyer, End(b)
  PROVE  /\ TxType'
         /\ doing'[b] = "nothing"
         /\ \A c \in Buyer \ {b} : /\ doing'[c] = doing[c] /\ requisition'[c] = requisition[c]
                                   /\ vendor'[c] = vendor[c] /\ terms'[c] = terms[c]
  BY BeginFacts, ProcurementAssumption DEF End

\* Only a transaction changes: the rows are as they were.
LEMMA TxOnlyIInv ==
  ASSUME IInv, TxType', losers' \in [Buyer -> SUBSET Vendor],
         UNCHANGED <<gateVars, vendorVars, quoteVars, orderVars, slaVars>>,
         TxInv', IssueInv', AwardInv'
  PROVE  IInv'
  <1>1. TypeOK'
    BY DEF IInv, TypeOK, TxType, gateVars, vendorVars, quoteVars, orderVars, slaVars
  <1>2. \A q \in Requisition : Accepted(q)' = Accepted(q)
    BY DEF Accepted, quoteVars
  <1>3. GateInv' /\ LiveInv' /\ OrderInv'
    BY <1>2 DEF IInv, GateInv, StatusFollowsApproval, LiveInv, OrderInv, AtMostOne, gateVars, quoteVars, orderVars
  <1> QED
    BY <1>1, <1>3 DEF IInv

LEMMA CheckAwardIInv ==
  ASSUME IInv, NEW b \in Buyer, NEW q \in Requisition, NEW v \in Vendor, CheckAward(b, q, v)
  PROVE  IInv'
  <1> USE DEF IInv
  <1>1. /\ AwardLockFree(q) /\ Accepted(q) = {} /\ Begin(b, "award", q, v, 0)
        /\ UNCHANGED <<gateVars, vendorVars, quoteVars, orderVars, losers, slaVars>>
    BY DEF CheckAward
  <1>2. /\ TxType'
        /\ doing'[b] = "award" /\ requisition'[b] = q /\ vendor'[b] = v
        /\ \A c \in Buyer \ {b} : /\ doing'[c] = doing[c] /\ requisition'[c] = requisition[c]
                                  /\ vendor'[c] = vendor[c] /\ terms'[c] = terms[c]
    BY <1>1, BeginFacts, ProcurementAssumption
  <1>3. \A p \in Requisition : Accepted(p)' = Accepted(p)
    BY <1>1 DEF Accepted, quoteVars
  <1>4. TxInv'
    BY <1>2 DEF TxInv
  <1>5. IssueInv'
    BY <1>1, <1>2, <1>3 DEF TxInv, IssueInv, gateVars, quoteVars, orderVars
  <1>6. AwardInv'
    BY <1>1, <1>2, <1>3 DEF TxInv, AwardInv, Awarding, AwardLockFree
  <1>7. losers' \in [Buyer -> SUBSET Vendor]
    BY <1>1 DEF TypeOK
  <1> HIDE DEF IInv
  <1> QED
    BY <1>1, <1>2, <1>4, <1>5, <1>6, <1>7, TxOnlyIInv

LEMMA RejectOthersIInv ==
  ASSUME IInv, NEW b \in Buyer, RejectOthers(b)
  PROVE  IInv'
  <1> USE DEF IInv
  <1>1. /\ doing[b] = "award" /\ doing' = [doing EXCEPT ![b] = "accept"]
        /\ \E out \in SUBSET Vendor : losers' = [losers EXCEPT ![b] = out]
        /\ UNCHANGED <<gateVars, vendorVars, quoteVars, orderVars, requisition, vendor, terms, slaVars>>
    BY DEF RejectOthers
  <1>2. TxType' /\ doing'[b] = "accept" /\ \A c \in Buyer \ {b} : doing'[c] = doing[c]
    BY <1>1 DEF TypeOK, TxType
  <1>3. losers' \in [Buyer -> SUBSET Vendor]
    BY <1>1 DEF TypeOK
  <1>4. \A p \in Requisition : Accepted(p)' = Accepted(p)
    BY <1>1 DEF Accepted, quoteVars
  <1>5. TxInv'
    BY <1>1, <1>2 DEF TxInv
  <1>6. IssueInv'
    BY <1>1, <1>2, <1>4 DEF TxInv, IssueInv, gateVars, quoteVars, orderVars
  <1>7. AwardInv'
    BY <1>1, <1>2, <1>4 DEF TxInv, AwardInv, Awarding
  <1> HIDE DEF IInv
  <1> QED
    BY <1>1, <1>2, <1>3, <1>5, <1>6, <1>7, TxOnlyIInv

LEMMA AbortIInv ==
  ASSUME IInv, NEW b \in Buyer, Abort(b)
  PROVE  IInv'
  <1> USE DEF IInv
  <1>1. /\ losers' = [losers EXCEPT ![b] = {}] /\ End(b)
        /\ UNCHANGED <<gateVars, vendorVars, quoteVars, orderVars, slaVars>>
    BY DEF Abort
  <1>2. /\ TxType' /\ doing'[b] = "nothing"
        /\ \A c \in Buyer \ {b} : /\ doing'[c] = doing[c] /\ requisition'[c] = requisition[c]
                                  /\ vendor'[c] = vendor[c] /\ terms'[c] = terms[c]
    BY <1>1, EndFacts
  <1>3. losers' \in [Buyer -> SUBSET Vendor]
    BY <1>1 DEF TypeOK
  <1>4. \A p \in Requisition : Accepted(p)' = Accepted(p)
    BY <1>1 DEF Accepted, quoteVars
  <1>5. TxInv'
    BY <1>2 DEF TxInv
  <1>6. IssueInv'
    BY <1>1, <1>2, <1>4 DEF TxInv, IssueInv, gateVars, quoteVars, orderVars
  <1>7. AwardInv'
    BY <1>1, <1>2, <1>4 DEF TxInv, AwardInv, Awarding
  <1> HIDE DEF IInv
  <1> QED
    BY <1>1, <1>2, <1>3, <1>5, <1>6, <1>7, TxOnlyIInv

LEMMA CheckIssueIInv ==
  ASSUME IInv, NEW b \in Buyer, NEW q \in Requisition, NEW v \in Vendor, CheckIssue(b, q, v)
  PROVE  IInv'
  <1> USE DEF IInv
  <1>1. /\ RowFree(q) /\ reqStatus[q] = "approved" /\ live[q] = 0
        /\ UNCHANGED <<gateVars, vendorVars, quoteVars, orderVars, losers, slaVars>>
    BY DEF CheckIssue
  <1>2. PICK o \in 0 .. MaxOffers : OnTerms(q, v, o) /\ Begin(b, "issue", q, v, o)
    BY DEF CheckIssue
  <1>3. /\ TxType'
        /\ doing'[b] = "issue" /\ requisition'[b] = q /\ vendor'[b] = v /\ terms'[b] = o
        /\ \A c \in Buyer \ {b} : /\ doing'[c] = doing[c] /\ requisition'[c] = requisition[c]
                                  /\ vendor'[c] = vendor[c] /\ terms'[c] = terms[c]
    BY <1>2, BeginFacts, ProcurementAssumption
  <1>4. \A p \in Requisition : Accepted(p)' = Accepted(p)
    BY <1>1 DEF Accepted, quoteVars
  <1>5. TxInv'
    BY <1>3 DEF TxInv
  <1>6. IssueInv'
    <2>1. o > 0 => Accepted(q) = {v} /\ o = offer[q][v]
      BY <1>2 DEF OnTerms
    <2>2. \A c \in Buyer \ {b} : doing[c] = "issue" => requisition[c] # q
      BY <1>1 DEF RowFree
    <2> QED
      BY <1>1, <1>3, <1>4, <2>1, <2>2 DEF TxInv, IssueInv, gateVars, quoteVars, orderVars
  <1>7. AwardInv'
    BY <1>1, <1>3, <1>4 DEF TxInv, AwardInv, Awarding
  <1>8. losers' \in [Buyer -> SUBSET Vendor]
    BY <1>1 DEF TypeOK
  <1> HIDE DEF IInv
  <1> QED
    BY <1>1, <1>3, <1>5, <1>6, <1>7, <1>8, TxOnlyIInv

\* Who issues an order is not disturbed by a transaction that ends, if what it has read
\* of its requisition stays.
LEMMA OthersIssueInv ==
  ASSUME IssueInv, NEW b \in Buyer, doing'[b] # "issue",
         \A c \in Buyer \ {b} : /\ doing'[c] = doing[c] /\ requisition'[c] = requisition[c]
                                /\ vendor'[c] = vendor[c] /\ terms'[c] = terms[c],
         \A c \in Buyer \ {b} : doing[c] = "issue" =>
           reqStatus'[requisition[c]] = "approved" /\ live'[requisition[c]] = 0,
         \A c \in Buyer \ {b} : doing[c] = "issue" /\ terms[c] > 0 =>
           {w \in Vendor : quote'[requisition[c]][w] = "accepted"} = Accepted(requisition[c]),
         offer' = offer
  PROVE  IssueInv'
  <1>1. \A c \in Buyer : doing'[c] = "issue" => /\ c # b /\ doing[c] = "issue"
                                                /\ requisition'[c] = requisition[c]
                                                /\ vendor'[c] = vendor[c] /\ terms'[c] = terms[c]
    OBVIOUS
  <1>2. ASSUME NEW c \in Buyer, doing'[c] = "issue"
        PROVE  /\ (reqStatus[requisition[c]] = "approved" /\ live[requisition[c]] = 0)'
               /\ \A d \in Buyer \ {c} : doing'[d] = "issue" => requisition'[d] # requisition'[c]
               /\ terms'[c] > 0 => (/\ Accepted(requisition[c]) = {vendor[c]}
                                    /\ terms[c] = offer[requisition[c]][vendor[c]])'
    <2>1. c # b /\ doing[c] = "issue"
          /\ requisition'[c] = requisition[c] /\ vendor'[c] = vendor[c] /\ terms'[c] = terms[c]
      BY <1>1, <1>2
    <2>2. (reqStatus[requisition[c]] = "approved" /\ live[requisition[c]] = 0)'
      BY <2>1
    <2>3. \A d \in Buyer \ {c} : doing'[d] = "issue" => requisition'[d] # requisition'[c]
      BY <1>1, <2>1 DEF IssueInv
    <2>4. terms'[c] > 0 => (/\ Accepted(requisition[c]) = {vendor[c]}
                            /\ terms[c] = offer[requisition[c]][vendor[c]])'
      BY <2>1 DEF IssueInv, Accepted
    <2> QED
      BY <2>2, <2>3, <2>4
  <1> QED
    BY <1>2, Zenon DEF IssueInv

LEMMA CommitAwardIInv ==
  ASSUME IInv, NEW b \in Buyer, CommitAward(b)
  PROVE  IInv'
  <1> USE DEF IInv
  <1> DEFINE q == requisition[b]
             v == vendor[b]
  <1>1. /\ doing[b] = "accept" /\ q \in Requisition /\ v \in Vendor
        /\ losers' = [losers EXCEPT ![b] = {}] /\ End(b)
        /\ UNCHANGED <<gateVars, vendorVars, offer, expired, orderVars, slaVars>>
    BY DEF CommitAward, TxInv
  <1>2. /\ TxType' /\ doing'[b] = "nothing"
        /\ \A c \in Buyer \ {b} : /\ doing'[c] = doing[c] /\ requisition'[c] = requisition[c]
                                  /\ vendor'[c] = vendor[c] /\ terms'[c] = terms[c]
    BY <1>1, EndFacts
  <1>3. /\ quote' \in [Requisition -> [Vendor -> QuoteStatus]]
        /\ quote'[q][v] = "accepted"
        /\ \A w \in Vendor \ {v} : quote'[q][w] \in {quote[q][w], "rejected"}
        /\ \A p \in Requisition \ {q} : quote'[p] = quote[p]
    <2> DEFINE row == [w \in Vendor |-> IF w = v THEN "accepted"
                                        ELSE IF w \in losers[b] /\ quote[q][w] = "received" THEN "rejected"
                                        ELSE quote[q][w]]
    <2>1. quote' = [quote EXCEPT ![q] = row]
      BY DEF CommitAward
    <2>2. quote \in [Requisition -> [Vendor -> QuoteStatus]]
      BY DEF TypeOK, QuoteStatus
    <2>3. \A w \in Vendor : quote[q][w] \in QuoteStatus
      BY <1>1, <2>2
    <2>4. row \in [Vendor -> QuoteStatus]
      BY <2>3 DEF QuoteStatus
    <2>5. row[v] = "accepted" /\ \A w \in Vendor \ {v} : row[w] \in {quote[q][w], "rejected"}
      BY <1>1
    <2> HIDE DEF row, q, v
    <2> QED
      BY <1>1, <2>1, <2>2, <2>4, <2>5
  <1>4. Accepted(q) = {}
    BY <1>1 DEF AwardInv, Awarding
  <1>5. /\ {w \in Vendor : quote'[q][w] = "accepted"} = {v}
        /\ \A p \in Requisition \ {q} : {w \in Vendor : quote'[p][w] = "accepted"} = Accepted(p)
    BY <1>1, <1>3, <1>4 DEF Accepted
  <1>6. TypeOK'
    BY <1>1, <1>2, <1>3 DEF TypeOK, TxType, QuoteStatus, gateVars, vendorVars, orderVars, slaVars
  <1>7. TxInv'
    BY <1>2 DEF TxInv
  <1>8. GateInv' /\ LiveInv'
    BY <1>1 DEF GateInv, StatusFollowsApproval, LiveInv, gateVars, orderVars
  <1> HIDE DEF q, v
  <1>9. IssueInv'
    <2>1. ASSUME NEW c \in Buyer \ {b}, doing[c] = "issue", terms[c] > 0
          PROVE  requisition[c] # q
      BY <1>1, <1>4, <2>1 DEF IssueInv
    <2>2. ASSUME NEW c \in Buyer \ {b}, doing[c] = "issue", terms[c] > 0
          PROVE  {w \in Vendor : quote'[requisition[c]][w] = "accepted"} = Accepted(requisition[c])
      BY <1>5, <2>1, <2>2 DEF TxInv
    <2> QED
      BY <1>1, <1>2, <2>2, OthersIssueInv DEF IssueInv, gateVars, orderVars
  <1>10. AwardInv'
    <2>1. ASSUME NEW c \in Buyer \ {b}, Awarding(c)
          PROVE  {w \in Vendor : quote'[requisition[c]][w] = "accepted"} = {}
      <3>1. requisition[c] # q
        BY <1>1, <2>1 DEF AwardInv, Awarding, q
      <3> QED
        BY <1>5, <2>1, <3>1 DEF TxInv, AwardInv, Awarding
    <2>2. ASSUME NEW c \in Buyer, Awarding(c)'
          PROVE  c # b /\ Awarding(c) /\ requisition'[c] = requisition[c]
      BY <1>2, <2>2 DEF Awarding
    <2> QED
      BY <2>1, <2>2 DEF AwardInv, Accepted
  <1>11. OrderInv'
    <2>1. ASSUME NEW p \in Requisition
          PROVE  /\ AtMostOne({w \in Vendor : quote'[p][w] = "accepted"})
                 /\ orderOffer[p] > 0 => /\ {w \in Vendor : quote'[p][w] = "accepted"} = {orderVendor[p]}
                                         /\ orderOffer[p] = offer[p][orderVendor[p]]
      <3>1. CASE p = q
        BY <3>1, <1>4, <1>5 DEF OrderInv, AtMostOne
      <3>2. CASE p # q
        BY <3>2, <1>5 DEF OrderInv, AtMostOne
      <3> QED
        BY <3>1, <3>2
    <2> QED
      BY <1>1, <2>1 DEF OrderInv, AtMostOne, Accepted, orderVars
  <1> QED
    BY <1>6, <1>7, <1>8, <1>9, <1>10, <1>11

LEMMA IssueOrderIInv ==
  ASSUME IInv, NEW b \in Buyer, IssueOrder(b)
  PROVE  IInv'
  <1> USE DEF IInv
  <1> DEFINE q == requisition[b]
             v == vendor[b]
  <1>1. /\ doing[b] = "issue" /\ q \in Requisition /\ v \in Vendor
        /\ orders[q] < MaxOrders
        /\ live' = [live EXCEPT ![q] = @ + 1]
        /\ orders' = [orders EXCEPT ![q] = @ + 1]
        /\ orderVendor' = [orderVendor EXCEPT ![q] = v]
        /\ orderOffer' = [orderOffer EXCEPT ![q] = terms[b]]
        /\ orderedQuotes' = IF terms[b] > 0 THEN [orderedQuotes EXCEPT ![q] = @ \cup {v}] ELSE orderedQuotes
        /\ End(b)
        /\ UNCHANGED <<gateVars, vendorVars, quoteVars, losers, slaVars>>
    BY DEF IssueOrder, TxInv
  <1>2. /\ TxType' /\ doing'[b] = "nothing"
        /\ \A c \in Buyer \ {b} : /\ doing'[c] = doing[c] /\ requisition'[c] = requisition[c]
                                  /\ vendor'[c] = vendor[c] /\ terms'[c] = terms[c]
    BY <1>1, EndFacts
  <1>3. /\ reqStatus[q] = "approved" /\ live[q] = 0
        /\ terms[b] > 0 => Accepted(q) = {v} /\ terms[b] = offer[q][v]
        /\ \A c \in Buyer \ {b} : doing[c] = "issue" => requisition[c] # q
    BY <1>1 DEF IssueInv
  <1>4. live' \in [Requisition -> Nat] /\ live'[q] = 1 /\ \A p \in Requisition \ {q} : live'[p] = live[p]
    <2>1. live \in [Requisition -> Nat]
      BY DEF TypeOK
    <2> HIDE DEF q
    <2> QED
      BY <1>1, <1>3, <2>1
  <1>5. /\ orders' \in [Requisition -> 0 .. MaxOrders]
        /\ orderVendor' \in [Requisition -> Vendor \cup {Nobody}]
        /\ orderOffer' \in [Requisition -> 0 .. MaxOffers]
        /\ orderedQuotes' \in [Requisition -> SUBSET Vendor]
    <2>1. orders' \in [Requisition -> 0 .. MaxOrders]
      <3>1. orders \in [Requisition -> 0 .. MaxOrders]
        BY DEF TypeOK
      <3>2. orders[q] + 1 \in 0 .. MaxOrders
        BY <1>1, <3>1, ProcurementAssumption
      <3> HIDE DEF q
      <3> QED
        BY <1>1, <3>1, <3>2
    <2>2. orderVendor' \in [Requisition -> Vendor \cup {Nobody}]
      BY <1>1 DEF TypeOK
    <2>3. orderOffer' \in [Requisition -> 0 .. MaxOffers]
      BY <1>1 DEF TypeOK
    <2>4. orderedQuotes' \in [Requisition -> SUBSET Vendor]
      BY <1>1 DEF TypeOK
    <2> QED
      BY <2>1, <2>2, <2>3, <2>4
  <1>6. TypeOK'
    BY <1>1, <1>2, <1>4, <1>5 DEF TypeOK, TxType, gateVars, vendorVars, quoteVars, slaVars
  <1>7. TxInv'
    BY <1>2 DEF TxInv
  <1> HIDE DEF q, v
  <1>8. GateInv' /\ LiveInv'
    <2>1. GateInv'
      BY <1>1, <1>3, <1>4 DEF GateInv, StatusFollowsApproval, gateVars
    <2>2. LiveInv'
      BY <1>1, <1>3, <1>4 DEF LiveInv, gateVars
    <2> QED
      BY <2>1, <2>2
  <1>9. \A p \in Requisition : Accepted(p)' = Accepted(p)
    BY <1>1 DEF Accepted, quoteVars
  <1>10. IssueInv'
    <2>1. ASSUME NEW c \in Buyer \ {b}, doing[c] = "issue"
          PROVE  /\ reqStatus'[requisition[c]] = "approved" /\ live'[requisition[c]] = 0
                 /\ {w \in Vendor : quote'[requisition[c]][w] = "accepted"} = Accepted(requisition[c])
      <3>1. requisition[c] \in Requisition \ {q}
        BY <1>3, <2>1 DEF TxInv
      <3> QED
        BY <1>1, <1>4, <2>1, <3>1 DEF IssueInv, Accepted, gateVars, quoteVars
    <2> QED
      BY <1>1, <1>2, <2>1, OthersIssueInv DEF quoteVars
  <1>11. AwardInv'
    BY <1>1, <1>2, <1>9 DEF TxInv, AwardInv, Awarding
  <1>12. OrderInv'
    <2>1. /\ orderOffer'[q] = terms[b] /\ orderVendor'[q] = v
          /\ \A p \in Requisition \ {q} : orderOffer'[p] = orderOffer[p] /\ orderVendor'[p] = orderVendor[p]
      BY <1>1 DEF TypeOK
    <2>2. offer' = offer
      BY <1>1 DEF quoteVars
    <2> QED
      BY <1>3, <1>9, <2>1, <2>2 DEF OrderInv, AtMostOne
  <1> QED
    BY <1>6, <1>7, <1>8, <1>10, <1>11, <1>12

LEMMA OpenVendorGateIInv ==
  ASSUME IInv, NEW b \in Buyer, OpenVendorGate(b)
  PROVE  IInv'
  <1> USE DEF IInv
  <1> DEFINE q == requisition[b]
             v == vendor[b]
  <1>1. /\ doing[b] = "issue" /\ q \in Requisition /\ v \in Vendor /\ End(b)
        /\ UNCHANGED <<gate, escalated, overdue>> \/ OpenGate(q, v)
        /\ UNCHANGED <<reqStatus, approvedEvents, vendorVars, quoteVars, orderVars, losers, sweeps>>
    BY DEF OpenVendorGate, TxInv
  <1>2. /\ TxType' /\ doing'[b] = "nothing"
        /\ \A c \in Buyer \ {b} : /\ doing'[c] = doing[c] /\ requisition'[c] = requisition[c]
                                  /\ vendor'[c] = vendor[c] /\ terms'[c] = terms[c]
    BY <1>1, EndFacts
  <1>3. reqStatus[q] = "approved"
    BY <1>1 DEF IssueInv
  <1>4. v \in Kind \ {"requisition"} /\ v # "poCancellation"
    BY <1>1, ProcurementAssumption DEF Kind
  <1>5. \A p \in Requisition : Accepted(p)' = Accepted(p)
    BY <1>1 DEF Accepted, quoteVars
  <1>6. TxInv'
    BY <1>2 DEF TxInv
  <1>7. IssueInv'
    BY <1>1, <1>2, <1>5 DEF TxInv, IssueInv, quoteVars, orderVars
  <1>8. AwardInv'
    BY <1>2, <1>5 DEF TxInv, AwardInv, Awarding
  <1> HIDE DEF q, v, IInv
  <1>9. CASE OpenGate(q, v)
    BY <1>1, <1>2, <1>3, <1>4, <1>6, <1>7, <1>8, <1>9, OpenGateIInv DEF TxType
  <1>10. CASE UNCHANGED <<gate, escalated, overdue>>
    <2>1. losers' \in [Buyer -> SUBSET Vendor]
      BY <1>1 DEF IInv, TypeOK
    <2> QED
      BY <1>1, <1>2, <1>6, <1>7, <1>8, <1>10, <2>1, TxOnlyIInv DEF gateVars, slaVars
  <1> QED
    BY <1>1, <1>9, <1>10

-----------------------------------------------------------------------------
LEMMA NextIInv == IInv /\ [Next]_vars => IInv'
  <1>1. ASSUME IInv, UNCHANGED vars
        PROVE  IInv'
    <2>1. TypeOK'
      BY <1>1 DEF IInv, TypeOK, vars, gateVars, vendorVars, quoteVars, orderVars, txVars, slaVars
    <2> QED
      BY <1>1, <2>1, QuietIInv DEF vars
  <1> QED
    BY <1>1, SubmitIInv, DecideIInv, RequestCancellationIInv, UpdateVendorIInv, SweeperIInv, QuoteIInv,
       CheckAwardIInv, RejectOthersIInv, CommitAwardIInv, CheckIssueIInv, IssueOrderIInv,
       OpenVendorGateIInv, AbortIInv DEF Next

LEMMA Invariant == Spec => []IInv
  BY InitIInv, NextIInv, PTL DEF Spec

\* Every row and every open transaction keeps its type, cancellations of orders included
\* (live is never decremented below zero).
THEOREM TypeCorrect == Spec => []TypeOK
  BY Invariant, PTL DEF IInv

\* For any number of gates, vendors and decisions in any order, a requisition's status is
\* that of its own approval, and it is announced once (submit, decide).
THEOREM StatusFollowsApprovalAlways == Spec => []StatusFollowsApproval
  BY Invariant, PTL DEF IInv, GateInv

\* For any number of buyers a requisition has one live order at most (issue).
THEOREM OneLiveOrderAlways == Spec => []OneLiveOrder
  <1>1. IInv => OneLiveOrder
    BY DEF IInv, LiveInv, OneLiveOrder
  <1> QED
    BY <1>1, Invariant, PTL

\* For any number of buyers and vendors one quote of a requisition is accepted at most (award).
THEOREM OneAwardAlways == Spec => []OneAward
  <1>1. IInv => OneAward
    <2> SUFFICES ASSUME IInv, NEW q \in Requisition
                 PROVE  Cardinality(Accepted(q)) <= 1
      BY DEF OneAward
    <2>1. CASE Accepted(q) = {}
      BY <2>1, FS_EmptySet
    <2>2. CASE Accepted(q) # {}
      <3>1. PICK v : v \in Accepted(q)
        BY <2>2
      <3>2. Accepted(q) = {v}
        BY <3>1 DEF IInv, OrderInv, AtMostOne
      <3>3. Cardinality({v}) = 1
        BY FS_Singleton
      <3> QED
        BY <3>2, <3>3
    <2> QED
      BY <2>1, <2>2
  <1> QED
    BY <1>1, Invariant, PTL

\* For any number of buyers, vendors and offers, a live order on a quote says what the one
\* accepted quote says (receive, award, issue).
THEOREM OrderedAsAwardedAlways == Spec => []OrderedAsAwarded
  <1>1. IInv => OrderedAsAwarded
    BY DEF IInv, OrderInv, OrderedAsAwarded
  <1> QED
    BY <1>1, Invariant, PTL

\* For any number of sweepers an approval is announced as overdue once, while it is pending
\* (sweep).
THEOREM EscalatedOnceAlways == Spec => EscalatedOnce
  <1> DEFINE Once == \A q \in Requisition, k \in Kind :
                       escalated'[q][k] > escalated[q][k] => gate[q][k] = "pending" /\ escalated[q][k] = 0
  <1>1. IInv /\ [Next]_vars => [Once]_vars
    <2> SUFFICES ASSUME IInv, Next, NEW q \in Requisition, NEW k \in Kind,
                        escalated'[q][k] > escalated[q][k]
                 PROVE  gate[q][k] = "pending" /\ escalated[q][k] = 0
      OBVIOUS
    <2>1. escalated \in [Requisition -> [Kind -> Nat]]
      BY DEF IInv, TypeOK
    <2>2. escalated' # escalated
      <3>1. escalated[q][k] \in Nat
        BY <2>1
      <3> QED
        BY <3>1
    <2>3. ASSUME NEW p \in Requisition, NEW j \in Kind, OpenGate(p, j)
          PROVE  FALSE
      <3>1. escalated' = [escalated EXCEPT ![p][j] = 0]
        BY <2>3 DEF OpenGate
      <3>2. escalated[q][k] \in Nat
        BY <2>1
      <3>3. /\ escalated'[p][j] = 0
            /\ \A x \in Requisition, y \in Kind : x # p \/ y # j => escalated'[x][y] = escalated[x][y]
        BY <2>1, <3>1, Replaced
      <3> QED
        BY <3>2, <3>3
    <2>4. ASSUME NEW p \in Requisition, NEW j \in Kind, NEW s \in Sweeper, Escalate(s, p, j)
          PROVE  gate[q][k] = "pending" /\ escalated[q][k] = 0
      <3>1. StillOverdue(p, j) /\ escalated' = [escalated EXCEPT ![p][j] = escalated[p][j] + 1]
        BY <2>2, <2>4 DEF Escalate
      <3>2. escalated[p][j] + 1 \in Nat /\ escalated[q][k] \in Nat
        BY <2>1
      <3>3. \A x \in Requisition, y \in Kind : x # p \/ y # j => escalated'[x][y] = escalated[x][y]
        BY <2>1, <3>1, <3>2, Replaced
      <3>4. q = p /\ k = j
        BY <3>2, <3>3
      <3> QED
        BY <3>1, <3>4 DEF StillOverdue
    <2>5. CASE \E p \in Requisition :
                 \/ Submit(p)
                 \/ \E j \in Kind, verdict \in {"approve", "reject"} : Decide(p, j, verdict)
                 \/ \E v \in Vendor :
                      \/ RequestQuote(p, v) \/ ReceiveOffer(p, v) \/ ExpireOffer(p, v)
                      \/ \E b \in Buyer : CheckAward(b, p, v) \/ CheckIssue(b, p, v)
      BY <2>2, <2>5 DEF Submit, Decide, RequestQuote, ReceiveOffer, ExpireOffer, CheckAward, CheckIssue, slaVars
    <2>6. CASE \E p \in Requisition : RequestCancellation(p)
      <3>1. "poCancellation" \in Kind
        BY DEF Kind
      <3> QED
        BY <2>3, <2>6, <3>1 DEF RequestCancellation
    <2>7. CASE \E b \in Buyer : OpenVendorGate(b)
      <3>1. PICK b \in Buyer : OpenVendorGate(b)
        BY <2>7
      <3>2. OpenGate(requisition[b], vendor[b])
        BY <2>2, <3>1 DEF OpenVendorGate
      <3>3. requisition[b] \in Requisition /\ vendor[b] \in Kind
        BY <3>1 DEF OpenVendorGate, IInv, TxInv, Kind
      <3> QED
        BY <2>3, <3>2, <3>3
    <2>8. CASE \/ \E b \in Buyer : RejectOthers(b) \/ CommitAward(b) \/ IssueOrder(b) \/ Abort(b)
               \/ \E s \in Sweeper : BeginSweep(s) \/ AbortSweep(s)
               \/ \E v \in Vendor, status \in {"prospective", "active", "blacklisted"} : UpdateVendor(v, status)
      BY <2>2, <2>8 DEF RejectOthers, CommitAward, IssueOrder, Abort, BeginSweep, AbortSweep, UpdateVendor, slaVars
    <2> QED
      BY <2>4, <2>5, <2>6, <2>7, <2>8 DEF Next
  <1> QED
    BY <1>1, Invariant, PTL DEF Spec, EscalatedOnce
=============================================================================
