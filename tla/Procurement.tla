----------------------------- MODULE Procurement -----------------------------
(***************************************************************************)
(* From a requisition to its order: submission and approval gates          *)
(* (requisition.service.ts, approval.service.ts) with their escalation     *)
(* (approval-sla.service.ts), quotes and their award (sourcing.service.ts),*)
(* and the issue of the order (purchase-order.service.ts) with its vendor  *)
(* gate.                                                                   *)
(*                                                                         *)
(* An action is a committed transaction, but for the two that read rows    *)
(* they do not lock.  An award holds the advisory lock of its requisition  *)
(* while offers go on arriving; an issue holds the requisition's row while *)
(* quotes are requested, offered and awarded.  Each is a check and a       *)
(* commit here, the award with its update of the other quotes in between.  *)
(* Payables continues with the order that has been issued.                 *)
(***************************************************************************)
EXTENDS Naturals, FiniteSets

CONSTANTS
  Requisition,
  Vendor,
  Unqualified,       \* vendors that are prospective at first; the others are active
  Buyer,             \* requests that award quotes and issue orders
  Sweeper,           \* replicas that escalate overdue approvals
  Nobody,            \* no buyer, no vendor
  MaxOffers,         \* bound: offers a vendor sends for a requisition
  MaxOrders,         \* bound: orders of a requisition
  MaxQualifications, \* bound: updates of vendor statuses
  Slow,              \* bound: kinds of approvals that wait beyond the SLA
  MaxSweeps          \* bound: sweeps for overdue approvals

ASSUME ProcurementAssumption ==
  /\ Unqualified \subseteq Vendor
  /\ Nobody \notin Buyer \cup Vendor \cup Requisition
  /\ {"requisition", "poCancellation"} \cap Vendor = {}
  /\ Slow \subseteq {"requisition", "poCancellation"} \cup Vendor
  /\ MaxOffers \in Nat /\ MaxOrders \in Nat /\ MaxQualifications \in Nat /\ MaxSweeps \in Nat

\* The approvals of a requisition: that of its submission, the gate of each vendor, and
\* that of the cancellation of its order.
Kind == {"requisition", "poCancellation"} \cup Vendor

VARIABLES
  reqStatus,       \* requisition.status; "submitted" stands for exception, too
  gate,            \* status of the latest approval of each kind, "none" without one;
                   \* "approved" stands for overridden, too
  approvedEvents,  \* how many requisition.approved events are in the outbox
  vendorStatus,    \* vendor.status; "prospective" stands for watch, too
  qualifications,  \* how often a vendor status was updated
  quote,           \* quote.status of a requisition and vendor; "none" without a row
  offer,           \* the offer a quote has: how many were received
  expired,         \* its validUntil is over
  live,            \* orders of a requisition that are not cancelled
  orderVendor,     \* the vendor of the latest one
  orderOffer,      \* the offer it was made from; 0 if from the requisition's lines
  orderedQuotes,   \* quotes that some order refers to (awardedQuoteId)
  orders,          \* how many orders were issued
  doing,           \* the transaction a buyer has open
  requisition, vendor, terms, \* what it is about, and the offer it has read
  losers,          \* the vendors whose quotes it has rejected, not yet committed
  overdue,         \* approvals that a sweeper has selected and not yet escalated
  escalated,       \* how often the latest approval of a kind was: escalatedAt is null at 0
  sweeps           \* how many sweeps were begun

gateVars  == <<reqStatus, gate, approvedEvents>>
quoteVars == <<quote, offer, expired>>
orderVars == <<live, orderVendor, orderOffer, orderedQuotes, orders>>
txVars    == <<doing, requisition, vendor, terms, losers>>
vendorVars == <<vendorStatus, qualifications>>
slaVars   == <<overdue, escalated, sweeps>>
vars == <<gateVars, vendorVars, quoteVars, orderVars, txVars, slaVars>>

Init ==
  /\ reqStatus = [q \in Requisition |-> "draft"]
  /\ gate = [q \in Requisition |-> [k \in Kind |-> "none"]]
  /\ approvedEvents = [q \in Requisition |-> 0]
  /\ vendorStatus = [v \in Vendor |-> IF v \in Unqualified THEN "prospective" ELSE "active"]
  /\ qualifications = 0
  /\ quote = [q \in Requisition |-> [v \in Vendor |-> "none"]]
  /\ offer = [q \in Requisition |-> [v \in Vendor |-> 0]]
  /\ expired = [q \in Requisition |-> [v \in Vendor |-> FALSE]]
  /\ live = [q \in Requisition |-> 0]
  /\ orderVendor = [q \in Requisition |-> Nobody]
  /\ orderOffer = [q \in Requisition |-> 0]
  /\ orderedQuotes = [q \in Requisition |-> {}]
  /\ orders = [q \in Requisition |-> 0]
  /\ doing = [b \in Buyer |-> "nothing"]
  /\ requisition = [b \in Buyer |-> Nobody]
  /\ vendor = [b \in Buyer |-> Nobody]
  /\ terms = [b \in Buyer |-> 0]
  /\ losers = [b \in Buyer |-> {}]
  /\ overdue = [s \in Sweeper |-> {}]
  /\ escalated = [q \in Requisition |-> [k \in Kind |-> 0]]
  /\ sweeps = 0

Begin(b, what, q, v, o) ==
  /\ doing' = [doing EXCEPT ![b] = what]
  /\ requisition' = [requisition EXCEPT ![b] = q]
  /\ vendor' = [vendor EXCEPT ![b] = v]
  /\ terms' = [terms EXCEPT ![b] = o]

End(b) == Begin(b, "nothing", Nobody, Nobody, 0)
-----------------------------------------------------------------------------
(* Requisitions and their approvals. *)

\* submit: the gate passes, needs an approval or blocks, by the amount, the policy in
\* force and what the budget has left.
Submit(q) ==
  /\ reqStatus[q] = "draft"
  /\ \/ /\ reqStatus' = [reqStatus EXCEPT ![q] = "approved"]
        /\ gate' = [gate EXCEPT ![q]["requisition"] = "approved"]
        /\ approvedEvents' = [approvedEvents EXCEPT ![q] = @ + 1]
     \/ /\ reqStatus' = [reqStatus EXCEPT ![q] = "submitted"]
        /\ gate' = [gate EXCEPT ![q]["requisition"] = "pending"]
        /\ UNCHANGED approvedEvents
  /\ UNCHANGED <<vendorVars, quoteVars, orderVars, txVars, slaVars>>

Decided(verdict) == IF verdict = "reject" THEN "rejected" ELSE "approved"

\* Mutant of NextStatus: the approval being decided counts as pending.
StatusCountingItself(q, k, verdict) == IF verdict = "reject" THEN "rejected" ELSE "submitted"

\* What a decision of the approval k makes of its requisition, by all approvals it has.
NextStatus(q, k, verdict) ==
  LET others == {gate[q][other] : other \in Kind \ {k}}
  IN  IF verdict = "reject" \/ "rejected" \in others THEN "rejected"
      ELSE IF "pending" \in others THEN "submitted"
      ELSE "approved"

ConcludeRequisition(q, k, verdict) ==
  LET next == NextStatus(q, k, verdict)
  IN  /\ reqStatus' = [reqStatus EXCEPT ![q] = next]
      /\ approvedEvents' =
           IF next = "approved" THEN [approvedEvents EXCEPT ![q] = @ + 1] ELSE approvedEvents

IsVendorGate(k) == k \in Vendor

\* decide.  The gate of a vendor qualifies it, whatever its status is by now; that of a
\* cancellation cancels the order; the other concludes the requisition.
Decide(q, k, verdict) ==
  /\ gate[q][k] = "pending"
  /\ gate' = [gate EXCEPT ![q][k] = Decided(verdict)]
  /\ \/ /\ k = "poCancellation"
        /\ live' = IF verdict = "reject" THEN live ELSE [live EXCEPT ![q] = @ - 1]
        /\ UNCHANGED <<reqStatus, approvedEvents, vendorVars>>
     \/ /\ IsVendorGate(k)
        /\ vendorStatus' =
             IF verdict = "reject" THEN vendorStatus ELSE [vendorStatus EXCEPT ![k] = "active"]
        /\ UNCHANGED <<reqStatus, approvedEvents, qualifications, live>>
     \/ /\ k # "poCancellation" /\ ~IsVendorGate(k)
        /\ ConcludeRequisition(q, k, verdict)
        /\ UNCHANGED <<vendorVars, live>>
  /\ UNCHANGED <<quoteVars, orderVendor, orderOffer, orderedQuotes, orders, txVars, slaVars>>

\* A new approval of the kind takes the place of one that is decided.  A sweeper that still
\* has the old one will skip it (Escalate).
OpenGate(q, k) ==
  /\ gate' = [gate EXCEPT ![q][k] = "pending"]
  /\ escalated' = [escalated EXCEPT ![q][k] = 0]
  /\ overdue' = [s \in Sweeper |-> overdue[s] \ {<<q, k>>}]

\* requestCancellation of the requisition's live order.
RequestCancellation(q) ==
  /\ live[q] > 0
  /\ gate[q]["poCancellation"] # "pending"
  /\ OpenGate(q, "poCancellation")
  /\ UNCHANGED <<reqStatus, approvedEvents, vendorVars, quoteVars, orderVars, txVars, sweeps>>

\* vendor.update sets any status.
UpdateVendor(v, status) ==
  /\ qualifications < MaxQualifications
  /\ vendorStatus[v] # status
  /\ vendorStatus' = [vendorStatus EXCEPT ![v] = status]
  /\ qualifications' = qualifications + 1
  /\ UNCHANGED <<gateVars, quoteVars, orderVars, txVars, slaVars>>
-----------------------------------------------------------------------------
(* The escalation of overdue approvals. *)

Pending == {qk \in Requisition \X Kind : gate[qk[1]][qk[2]] = "pending"}

\* sweep selects the approvals that have waited for too long and were not escalated.
BeginSweep(s) ==
  /\ overdue[s] = {} /\ sweeps < MaxSweeps
  /\ \E late \in SUBSET {qk \in Pending : qk[2] \in Slow /\ escalated[qk[1]][qk[2]] = 0} :
       overdue' = [overdue EXCEPT ![s] = late]
  /\ overdue' # overdue
  /\ sweeps' = sweeps + 1
  /\ UNCHANGED <<gateVars, vendorVars, quoteVars, orderVars, txVars, escalated>>

\* Mutant of StillOverdue: the update is of whatever was selected.
AsSelected(q, k) == TRUE

\* "Guard against a decision landing between select and update."
StillOverdue(q, k) == gate[q][k] = "pending" /\ escalated[q][k] = 0

\* The next one is stamped and announced, unless it is not overdue any more.
Escalate(s, q, k) ==
  /\ <<q, k>> \in overdue[s]
  /\ overdue' = [overdue EXCEPT ![s] = @ \ {<<q, k>>}]
  /\ escalated' = IF StillOverdue(q, k) THEN [escalated EXCEPT ![q][k] = @ + 1] ELSE escalated
  /\ UNCHANGED <<gateVars, vendorVars, quoteVars, orderVars, txVars, sweeps>>

\* A sweep that fails or whose process ends leaves the others to the next one.
AbortSweep(s) ==
  /\ overdue[s] # {}
  /\ overdue' = [overdue EXCEPT ![s] = {}]
  /\ UNCHANGED <<gateVars, vendorVars, quoteVars, orderVars, txVars, escalated, sweeps>>
-----------------------------------------------------------------------------
(* Quotes. *)

\* request opens a quote of an approved requisition, whether or not it is ordered.
RequestQuote(q, v) ==
  /\ reqStatus[q] = "approved"
  /\ quote[q][v] = "none"
  /\ quote' = [quote EXCEPT ![q][v] = "requested"]
  /\ UNCHANGED <<gateVars, vendorVars, offer, expired, orderVars, txVars, slaVars>>

\* Mutant of OpenForOffers: a late offer overwrites a decided quote.
EverRequested(q, v) == quote[q][v] # "none"

OpenForOffers(q, v) == quote[q][v] \in {"requested", "received"}

\* receive: an offer replaces the earlier one, with a validity of its own or not.
ReceiveOffer(q, v) ==
  /\ OpenForOffers(q, v)
  /\ \A b \in Buyer : requisition[b] = q => v \notin losers[b]
  /\ offer[q][v] < MaxOffers
  /\ quote' = [quote EXCEPT ![q][v] = "received"]
  /\ offer' = [offer EXCEPT ![q][v] = @ + 1]
  /\ \E over \in {FALSE, expired[q][v]} : expired' = [expired EXCEPT ![q][v] = over]
  /\ UNCHANGED <<gateVars, vendorVars, orderVars, txVars, slaVars>>

\* The validity of an offer ends.
ExpireOffer(q, v) ==
  /\ quote[q][v] \in {"received", "accepted"}
  /\ ~expired[q][v]
  /\ expired' = [expired EXCEPT ![q][v] = TRUE]
  /\ UNCHANGED <<gateVars, vendorVars, quote, offer, orderVars, txVars, slaVars>>

Accepted(q) == {v \in Vendor : quote[q][v] = "accepted"}

\* Mutant of AwardLockFree: the advisory lock is not taken.
NoAwardLock(q) == TRUE

AwardLockFree(q) == \A b \in Buyer : doing[b] \in {"award", "accept"} => requisition[b] # q

\* award takes the lock award:<requisition> and checks the quote ...
CheckAward(b, q, v) ==
  /\ doing[b] = "nothing"
  /\ AwardLockFree(q)
  /\ quote[q][v] = "received" /\ ~expired[q][v]
  /\ Accepted(q) = {}
  /\ Begin(b, "award", q, v, 0)
  /\ UNCHANGED <<gateVars, vendorVars, quoteVars, orderVars, losers, slaVars>>

\* ... rejects the other offers there are by then, whose rows stay locked ...
RejectOthers(b) ==
  LET q == requisition[b]
  IN  /\ doing[b] = "award"
      /\ doing' = [doing EXCEPT ![b] = "accept"]
      /\ losers' = [losers EXCEPT ![b] = {v \in Vendor \ {vendor[b]} : quote[q][v] = "received"}]
      /\ UNCHANGED <<gateVars, vendorVars, quoteVars, orderVars, requisition, vendor, terms, slaVars>>

\* ... and accepts the quote, with the offer it has by then.
CommitAward(b) ==
  LET q == requisition[b]
  IN  /\ doing[b] = "accept"
      /\ quote[q][vendor[b]] = "received"
      /\ quote' = [quote EXCEPT ![q] = [v \in Vendor |->
                     IF v = vendor[b] THEN "accepted"
                     ELSE IF v \in losers[b] /\ @[v] = "received" THEN "rejected" ELSE @[v]]]
      /\ losers' = [losers EXCEPT ![b] = {}]
      /\ End(b)
      /\ UNCHANGED <<gateVars, vendorVars, offer, expired, orderVars, slaVars>>
-----------------------------------------------------------------------------
(* Orders. *)

\* Mutant of RowFree: the requisition is not locked.
NoRowLock(q) == TRUE

RowFree(q) == \A b \in Buyer : doing[b] = "issue" => requisition[b] # q

\* q may be ordered from v on the terms o: those of its lines if nobody was asked for a
\* quote, else those of the one accepted quote.
OnTerms(q, v, o) ==
  \/ o = 0 /\ \A w \in Vendor : quote[q][w] = "none"
  \/ o = offer[q][v] /\ Accepted(q) = {v} /\ ~expired[q][v]

\* issue locks the requisition and reads its orders and quotes ...
CheckIssue(b, q, v) ==
  /\ doing[b] = "nothing"
  /\ RowFree(q)
  /\ reqStatus[q] = "approved"
  /\ live[q] = 0
  /\ \E o \in 0 .. MaxOffers : OnTerms(q, v, o) /\ Begin(b, "issue", q, v, o)
  /\ UNCHANGED <<gateVars, vendorVars, quoteVars, orderVars, losers, slaVars>>

Qualified(v) == vendorStatus[v] = "active"

\* ... then locks the vendor and the budget.  A qualified vendor gets the order, unless
\* the quote has one, a cancelled one included (awardedQuoteId is unique) ...
IssueOrder(b) ==
  LET q == requisition[b]
      v == vendor[b]
  IN  /\ doing[b] = "issue"
      /\ Qualified(v)
      /\ orders[q] < MaxOrders
      /\ terms[b] > 0 => v \notin orderedQuotes[q]
      /\ live' = [live EXCEPT ![q] = @ + 1]
      /\ orders' = [orders EXCEPT ![q] = @ + 1]
      /\ orderVendor' = [orderVendor EXCEPT ![q] = v]
      /\ orderOffer' = [orderOffer EXCEPT ![q] = terms[b]]
      /\ orderedQuotes' =
           IF terms[b] > 0 THEN [orderedQuotes EXCEPT ![q] = @ \cup {v}] ELSE orderedQuotes
      /\ End(b)
      /\ UNCHANGED <<gateVars, vendorVars, quoteVars, losers, slaVars>>

\* ... one that is not qualified gets a gate, if it has none that is pending ...
OpenVendorGate(b) ==
  LET q == requisition[b]
      v == vendor[b]
  IN  /\ doing[b] = "issue"
      /\ vendorStatus[v] = "prospective"
      /\ \/ gate[q][v] = "pending" /\ UNCHANGED <<gate, escalated, overdue>>
         \/ gate[q][v] # "pending" /\ OpenGate(q, v)
      /\ End(b)
      /\ UNCHANGED <<reqStatus, approvedEvents, vendorVars, quoteVars, orderVars, losers, sweeps>>

\* ... and anything refused rolls back: a blacklisted vendor, the budget, a failure.
Abort(b) ==
  /\ doing[b] # "nothing"
  /\ losers' = [losers EXCEPT ![b] = {}]
  /\ End(b)
  /\ UNCHANGED <<gateVars, vendorVars, quoteVars, orderVars, slaVars>>
-----------------------------------------------------------------------------
Next ==
  \/ \E q \in Requisition :
       \/ Submit(q)
       \/ RequestCancellation(q)
       \/ \E k \in Kind, verdict \in {"approve", "reject"} : Decide(q, k, verdict)
       \/ \E k \in Kind, s \in Sweeper : Escalate(s, q, k)
       \/ \E v \in Vendor :
            \/ RequestQuote(q, v) \/ ReceiveOffer(q, v) \/ ExpireOffer(q, v)
            \/ \E b \in Buyer : CheckAward(b, q, v) \/ CheckIssue(b, q, v)
  \/ \E b \in Buyer : RejectOthers(b) \/ CommitAward(b) \/ IssueOrder(b) \/ OpenVendorGate(b) \/ Abort(b)
  \/ \E s \in Sweeper : BeginSweep(s) \/ AbortSweep(s)
  \/ \E v \in Vendor, status \in {"prospective", "active", "blacklisted"} : UpdateVendor(v, status)

Spec == Init /\ [][Next]_vars
-----------------------------------------------------------------------------
(* Properties. *)

TypeOK ==
  /\ reqStatus \in [Requisition -> {"draft", "submitted", "approved", "rejected"}]
  /\ gate \in [Requisition ->
                 [Kind -> {"none", "pending", "approved", "rejected"}]]
  /\ approvedEvents \in [Requisition -> Nat]
  /\ vendorStatus \in [Vendor -> {"prospective", "active", "blacklisted"}]
  /\ qualifications \in 0 .. MaxQualifications
  /\ quote \in [Requisition ->
                  [Vendor -> {"none", "requested", "received", "accepted", "rejected"}]]
  /\ offer \in [Requisition -> [Vendor -> 0 .. MaxOffers]]
  /\ expired \in [Requisition -> [Vendor -> BOOLEAN]]
  /\ live \in [Requisition -> Nat]
  /\ orderVendor \in [Requisition -> Vendor \cup {Nobody}]
  /\ orderOffer \in [Requisition -> 0 .. MaxOffers]
  /\ orderedQuotes \in [Requisition -> SUBSET Vendor]
  /\ orders \in [Requisition -> 0 .. MaxOrders]
  /\ doing \in [Buyer -> {"nothing", "award", "accept", "issue"}]
  /\ requisition \in [Buyer -> Requisition \cup {Nobody}]
  /\ vendor \in [Buyer -> Vendor \cup {Nobody}]
  /\ terms \in [Buyer -> 0 .. MaxOffers]
  /\ losers \in [Buyer -> SUBSET Vendor]
  /\ overdue \in [Sweeper -> SUBSET (Requisition \X Kind)]
  /\ escalated \in [Requisition -> [Kind -> Nat]]
  /\ sweeps \in 0 .. MaxSweeps

\* A requisition's status follows the approval of its submission alone, whatever becomes
\* of vendor gates and cancellations that carry its id, too (decide); and its approval is
\* announced once, as AgentWake issues one order per announcement.
StatusFollowsApproval ==
  \A q \in Requisition :
    LET own == gate[q]["requisition"]
    IN  /\ own = "pending" <=> reqStatus[q] = "submitted"
        /\ own = "rejected" <=> reqStatus[q] = "rejected"
        /\ own = "approved" <=> reqStatus[q] = "approved"
        /\ approvedEvents[q] = IF reqStatus[q] = "approved" THEN 1 ELSE 0

\* No two buyers, whatever they have read, give a requisition two live orders (issue).
OneLiveOrder == \A q \in Requisition : live[q] <= 1

\* "Award is exclusive per requisition", with awards and offers at the same time.
OneAward == \A q \in Requisition : Cardinality(Accepted(q)) <= 1

\* What was ordered on a quote is what the quote that was awarded says to this day,
\* although offers go on arriving ("an awarded/rejected quote must never be overwritten
\* by a late offer").
OrderedAsAwarded ==
  \A q \in Requisition :
    live[q] > 0 /\ orderOffer[q] > 0 =>
      /\ Accepted(q) = {orderVendor[q]}
      /\ orderOffer[q] = offer[q][orderVendor[q]]

\* An approval is announced as overdue once, whichever replicas have selected it, and never
\* after it was decided ("a decision landing between select and update").
EscalatedOnce ==
  [][\A q \in Requisition, k \in Kind :
       escalated'[q][k] > escalated[q][k] => gate[q][k] = "pending" /\ escalated[q][k] = 0]_vars
=============================================================================
