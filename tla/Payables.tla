------------------------------ MODULE Payables ------------------------------
(***************************************************************************)
(* From an issued purchase order to a paid invoice: purchase orders with   *)
(* their budget commitment and cancellation gate, goods receipts, invoices *)
(* with their three-way match, payment runs with the lines that claim an   *)
(* invoice, and the settlement that turns a commitment into spend.         *)
(*                                                                         *)
(* One action is one committed transaction.  Every handler below takes row *)
(* locks (or ends in an update conditional on what it read), which makes   *)
(* its transaction atomic as far as the rows it reads and writes go;       *)
(* module PlanningLocks drops that assumption for the handlers that lock   *)
(* in different orders.  The exception is voidRun, which reads the run     *)
(* without a lock and whose update checks less than the read did: it is    *)
(* two actions, BeginVoid and CommitVoid.                                  *)
(***************************************************************************)
EXTENDS ThreeWayMatch, FiniteSets

CONSTANTS
  Receipt,            \* goods receipts
  ReceiptDoc,         \* Receipt -> po, quantity, priced (the line names a PO line)
  Run,                \* payment runs, numbered in the order they are minted
  User,               \* finance principals
  NoUser,             \* no principal
  NoRun,              \* no run
  Budget,             \* budgets
  ReqBudget,          \* requisition -> its budget
  BudgetLimit,        \* Budget -> limit
  VerifiedVendors     \* vendors whose beneficiary account is verified

ASSUME ReceiptDocAssumption ==
  \A c \in Receipt : /\ ReceiptDoc[c].po \in PO
                     /\ ReceiptDoc[c].quantity \in Nat \ {0}
                     /\ ReceiptDoc[c].priced \in BOOLEAN

ASSUME RunAssumption == Run \subseteq Nat /\ NoRun \notin Run

ASSUME UserAssumption == NoUser \notin User

\* The rows of a database are finite in number.
ASSUME FinitenessAssumption == IsFiniteSet(PO) /\ IsFiniteSet(Invoice) /\ IsFiniteSet(Receipt)

\* receivedAt is the place of an invoice in the order in which the loops over the
\* invoices of an order take them, one after the other.
ASSUME ArrivalAssumption ==
  \A i, j \in Invoice : InvoiceDoc[i].receivedAt = InvoiceDoc[j].receivedAt => i = j

ASSUME BudgetAssumption ==
  /\ \A b \in Budget : BudgetLimit[b] \in Nat
  /\ \A p \in PO : ReqBudget[PoDoc[p].requisition] \in Budget

VARIABLES
  poStatus,        \* purchaseOrder.status; "unissued" before the row exists
  cancelGate,      \* requestedBy of the pending poCancellation approval of a PO
  receiptStatus,   \* receipt.status; "none" before the row exists
  invStatus,       \* invoice.status; "none" before the row exists
  outcome,         \* outcome of the stored invoice.matchResult
  runStatus,       \* paymentRun.status; "none" before the row exists
  createdBy,       \* paymentRun.createdBy
  approvedBy,      \* paymentRun.approvedBy
  voidedBy,        \* paymentRun.voidedBy
  line,            \* paymentRunLine.status of an invoice on a run; "none" without a line
  voiding,         \* the run a user's voidRun has read and not yet written
  committed,       \* budget.committedMinor
  spent            \* budget.spentMinor

orderVars   == <<poStatus, cancelGate>>
receiptVars == <<receiptStatus>>
invoiceVars == <<invStatus, outcome>>
runVars     == <<runStatus, createdBy, approvedBy, voidedBy, line>>
budgetVars  == <<committed, spent>>
vars == <<orderVars, receiptVars, invoiceVars, runVars, voiding, budgetVars>>

BudgetOf(p) == ReqBudget[PoDoc[p].requisition]

IsLive(p) == poStatus[p] \in {"issued", "confirmed"}

Init ==
  /\ poStatus = [p \in PO |-> "unissued"]
  /\ cancelGate = [p \in PO |-> NoUser]
  /\ receiptStatus = [c \in Receipt |-> "none"]
  /\ invStatus = [i \in Invoice |-> "none"]
  /\ outcome = [i \in Invoice |-> "none"]
  /\ runStatus = [r \in Run |-> "none"]
  /\ createdBy = [r \in Run |-> NoUser]
  /\ approvedBy = [r \in Run |-> NoUser]
  /\ voidedBy = [r \in Run |-> NoUser]
  /\ line = [r \in Run |-> [i \in Invoice |-> "none"]]
  /\ voiding = [u \in User |-> NoRun]
  /\ committed = [b \in Budget |-> 0]
  /\ spent = [b \in Budget |-> 0]
-----------------------------------------------------------------------------
(* Matching invoices against the state of their order. *)

Recorded(p) == {c \in Receipt : ReceiptDoc[c].po = p /\ receiptStatus[c] = "recorded"}

QuantityOf(c) == IF ReceiptDoc[c].priced THEN ReceiptDoc[c].quantity ELSE 0

\* A receipt line that names no PO line is worth nothing to the match and does
\* not count against the quantity ordered.
QuantityReceived(receipts) == MapThenSumSet(QuantityOf, receipts)

ValueReceived(p, receipts) == QuantityReceived(receipts) * PoDoc[p].unitPrice

\* Mutant of Holders: a batch forgets what it has just matched.
HoldersByStoredStatus(i, batch, judged) ==
  {j \in InvoicesOf(InvoiceDoc[i].po) \ {i} : invStatus[j] \in {"matched", "paid"}}

\* The invoices that reserve value of i's order when a loop over `batch' reaches
\* i: those judged before it count by their new outcome, the rest by their status.
Holders(i, batch, judged) ==
  {j \in InvoicesOf(InvoiceDoc[i].po) \ {i} :
     IF j \in batch /\ InvoiceDoc[j].receivedAt < InvoiceDoc[i].receivedAt
     THEN judged[j] = "matched"
     ELSE invStatus[j] \in {"matched", "paid"}}

\* `judged' holds the outcomes that a loop over `batch', oldest invoice first,
\* computes and stores one after the other.
JudgedInOrder(batch, judged, poLive, received) ==
  \A i \in batch :
    judged[i] = MatchAgainstPo(i, poLive, received, ValueOf(Holders(i, batch, judged)))

StoreMatches(batch, judged) ==
  /\ outcome' = [i \in Invoice |-> IF i \in batch THEN judged[i] ELSE outcome[i]]
  /\ invStatus' = [i \in Invoice |-> IF i \in batch THEN StatusFor(judged[i])
                                                    ELSE invStatus[i]]

\* Mutant of OpenForRematch: waiting invoices are forgotten.
ShortfallsOnly(p) ==
  {i \in InvoicesOf(p) : invStatus[i] = "exception" /\ outcome[i] = "receipt_shortfall"}

\* rematchOpenForPo: waiting invoices and shortfalls get a new evaluation.
OpenForRematch(p) ==
  {i \in InvoicesOf(p) : \/ invStatus[i] = "received"
                         \/ invStatus[i] = "exception" /\ outcome[i] = "receipt_shortfall"}

\* Mutant of MatchedOf: the filter of the other loop.
WaitingOf(p) == {i \in InvoicesOf(p) : invStatus[i] = "received"}

\* reevaluateMatchedForPo: matched invoices keep or lose their eligibility.
MatchedOf(p) == {i \in InvoicesOf(p) : invStatus[i] = "matched"}

\* A planned line reserves its invoice while its run is not voided.
LiveClaim(r, i) == line[r][i] = "planned" /\ runStatus[r] # "voided"

\* Mutant of CorrectionAllowed: claims do not block a correction.
UnpaidOnly(p) ==
  \A i \in InvoicesOf(p) : invStatus[i] # "paid" /\ \A r \in Run : line[r][i] # "paid"

\* assertPoCorrectionAllowed, under the locks of the order and all its invoices.
CorrectionAllowed(p) ==
  \A i \in InvoicesOf(p) :
    /\ invStatus[i] # "paid"
    /\ \A r \in Run : line[r][i] # "paid" /\ ~LiveClaim(r, i)
-----------------------------------------------------------------------------
(* Purchase orders. *)

HasRoom(b, amount) == committed[b] + spent[b] + amount <= BudgetLimit[b]

\* issue: an approved requisition of a qualified vendor without sourcing gets
\* one order at a time, and its total is committed if the budget has room.
IssuePo(p) ==
  LET b == BudgetOf(p)
  IN  /\ poStatus[p] = "unissued"
      /\ \A q \in PO : PoDoc[q].requisition = PoDoc[p].requisition
                         => poStatus[q] \in {"unissued", "cancelled"}
      /\ HasRoom(b, PoTotal(p))
      /\ poStatus' = [poStatus EXCEPT ![p] = "issued"]
      /\ committed' = [committed EXCEPT ![b] = @ + PoTotal(p)]
      /\ UNCHANGED <<cancelGate, receiptVars, invoiceVars, runVars, voiding, spent>>

\* confirm
ConfirmPo(p) ==
  /\ poStatus[p] = "issued"
  /\ poStatus' = [poStatus EXCEPT ![p] = "confirmed"]
  /\ UNCHANGED <<cancelGate, receiptVars, invoiceVars, runVars, voiding, budgetVars>>

\* requestCancellation: a second request returns the pending one.
RequestCancellation(u, p) ==
  /\ IsLive(p)
  /\ cancelGate[p] = NoUser
  /\ cancelGate' = [cancelGate EXCEPT ![p] = u]
  /\ UNCHANGED <<poStatus, receiptVars, invoiceVars, runVars, voiding, budgetVars>>

\* decide, verdict reject: the order is kept.
RejectCancellation(u, p) ==
  /\ cancelGate[p] \notin {NoUser, u}
  /\ cancelGate' = [cancelGate EXCEPT ![p] = NoUser]
  /\ UNCHANGED <<poStatus, receiptVars, invoiceVars, runVars, voiding, budgetVars>>

\* decide, verdict approve or override: maker and checker differ, nothing of the
\* order is paid or claimed, no goods are booked and the budget still carries the
\* commitment; any failed check rolls back the decision with everything else.
ApproveCancellation(u, p) ==
  LET b == BudgetOf(p)
  IN  /\ cancelGate[p] \notin {NoUser, u}
      /\ IsLive(p)
      /\ CorrectionAllowed(p)
      /\ Recorded(p) = {}
      /\ committed[b] >= PoTotal(p)
      /\ cancelGate' = [cancelGate EXCEPT ![p] = NoUser]
      /\ poStatus' = [poStatus EXCEPT ![p] = "cancelled"]
      /\ committed' = [committed EXCEPT ![b] = @ - PoTotal(p)]
      /\ \E judged \in [MatchedOf(p) -> MatchOutcomes] :
           /\ JudgedInOrder(MatchedOf(p), judged, FALSE, ValueReceived(p, {}))
           /\ StoreMatches(MatchedOf(p), judged)
      /\ UNCHANGED <<receiptVars, runVars, voiding, spent>>
-----------------------------------------------------------------------------
(* Goods receipts. *)

\* record: no more goods of a line than ordered, then every invoice that may be
\* cured by the goods is matched again, oldest first.
RecordReceipt(c) ==
  LET p   == ReceiptDoc[c].po
      now == Recorded(p) \cup {c}
  IN  /\ receiptStatus[c] = "none"
      /\ IsLive(p)
      /\ QuantityReceived(now) <= PoDoc[p].quantity
      /\ receiptStatus' = [receiptStatus EXCEPT ![c] = "recorded"]
      /\ \E judged \in [OpenForRematch(p) -> MatchOutcomes] :
           /\ JudgedInOrder(OpenForRematch(p), judged, TRUE, ValueReceived(p, now))
           /\ StoreMatches(OpenForRematch(p), judged)
      /\ UNCHANGED <<orderVars, runVars, voiding, budgetVars>>

\* cancel: refused while an invoice of the order is paid or claimed, then every
\* matched invoice is evaluated without its own reservation and may be demoted.
CancelReceipt(c) ==
  LET p   == ReceiptDoc[c].po
      now == Recorded(p) \ {c}
  IN  /\ receiptStatus[c] = "recorded"
      /\ CorrectionAllowed(p)
      /\ receiptStatus' = [receiptStatus EXCEPT ![c] = "cancelled"]
      /\ \E judged \in [MatchedOf(p) -> MatchOutcomes] :
           /\ JudgedInOrder(MatchedOf(p), judged, IsLive(p), ValueReceived(p, now))
           /\ StoreMatches(MatchedOf(p), judged)
      /\ UNCHANGED <<orderVars, runVars, voiding, budgetVars>>
-----------------------------------------------------------------------------
(* Invoices. *)

\* register: the first arrival of an invoice is matched and stored; a duplicate
\* returns the stored row and changes nothing.
RegisterInvoice(i) ==
  LET p == InvoiceDoc[i].po
  IN  /\ invStatus[i] = "none"
      /\ poStatus[p] # "unissued"
      /\ \E judged \in [{i} -> MatchOutcomes] :
           /\ JudgedInOrder({i}, judged, IsLive(p), ValueReceived(p, Recorded(p)))
           /\ StoreMatches({i}, judged)
      /\ UNCHANGED <<orderVars, receiptVars, runVars, voiding, budgetVars>>
-----------------------------------------------------------------------------
(* Payment runs. *)

\* Mutants of Payable: a claim does not block, or a paid invoice is payable.
PayableIfClaimed(i) ==
  /\ invStatus[i] = "matched"
  /\ IsLive(InvoiceDoc[i].po)
PayableIfPaid(i) ==
  /\ invStatus[i] \in {"matched", "paid"}
  /\ IsLive(InvoiceDoc[i].po)
  /\ \A r \in Run : ~LiveClaim(r, i)

\* What create checks of an invoice under its row lock.
Payable(i) ==
  /\ invStatus[i] = "matched"
  /\ IsLive(InvoiceDoc[i].po)
  /\ InvoiceDoc[i].vendor \in VerifiedVendors
  /\ InvoiceDoc[i].currency = "PHP"
  /\ \A r \in Run : ~LiveClaim(r, i)

\* create: run numbers are minted one after the other.
CreateRun(u, r, invoices) ==
  /\ runStatus[r] = "none"
  /\ \A q \in Run : q < r => runStatus[q] # "none"
  /\ invoices # {}
  /\ \A i \in invoices : Payable(i)
  /\ runStatus' = [runStatus EXCEPT ![r] = "draft"]
  /\ createdBy' = [createdBy EXCEPT ![r] = u]
  /\ line' = [line EXCEPT ![r] = [i \in Invoice |-> IF i \in invoices THEN "planned"
                                                                      ELSE "none"]]
  /\ UNCHANGED <<orderVars, receiptVars, invoiceVars, approvedBy, voidedBy, voiding,
                 budgetVars>>

\* The update of approve repeats the conditions of its read, so that the two are one step.
MayApprove(u, r) == runStatus[r] = "draft" /\ createdBy[r] # u

\* approve
ApproveRun(u, r) ==
  /\ MayApprove(u, r)
  /\ runStatus' = [runStatus EXCEPT ![r] = "approved"]
  /\ approvedBy' = [approvedBy EXCEPT ![r] = u]
  /\ UNCHANGED <<orderVars, receiptVars, invoiceVars, createdBy, voidedBy, line, voiding,
                 budgetVars>>

\* execute: read and update check the same, as in approve.
ExecuteRun(r) ==
  /\ runStatus[r] = "approved"
  /\ runStatus' = [runStatus EXCEPT ![r] = "executed"]
  /\ UNCHANGED <<orderVars, receiptVars, invoiceVars, createdBy, approvedBy, voidedBy,
                 line, voiding, budgetVars>>

\* voidRun up to its update: an unlocked read, and the maker of a run that is
\* already approved is refused.
BeginVoid(u, r) ==
  /\ voiding[u] = NoRun
  /\ runStatus[r] \in {"draft", "approved"}
  /\ runStatus[r] = "approved" => createdBy[r] # u
  /\ voiding' = [voiding EXCEPT ![u] = r]
  /\ UNCHANGED <<orderVars, receiptVars, invoiceVars, runVars, budgetVars>>

\* The update of voidRun is conditional on the status alone.
StillVoidable(r) == runStatus[r] \in {"draft", "approved"}

\* voidRun from its update on: a run that is no longer voidable is a conflict.
CommitVoid(u) ==
  LET r == voiding[u]
  IN  /\ r # NoRun
      /\ voiding' = [voiding EXCEPT ![u] = NoRun]
      /\ IF StillVoidable(r)
         THEN /\ runStatus' = [runStatus EXCEPT ![r] = "voided"]
              /\ voidedBy' = [voidedBy EXCEPT ![r] = u]
         ELSE UNCHANGED <<runStatus, voidedBy>>
      /\ UNCHANGED <<orderVars, receiptVars, invoiceVars, createdBy, approvedBy, line,
                     budgetVars>>

\* Mutant of CommitmentLeft: no release.
CommitmentKept(b, i) == committed[b]

\* The commitment that paying an invoice leaves, floored at zero.
CommitmentLeft(b, i) ==
  IF committed[b] > AmountOf(i) THEN committed[b] - AmountOf(i) ELSE 0

\* Mutant of SettlePaidInvoice: the invoice is not marked paid.
SettleBudgetOnly(i) ==
  LET b == BudgetOf(InvoiceDoc[i].po)
  IN  /\ committed' = [committed EXCEPT ![b] = CommitmentLeft(b, i)]
      /\ spent' = [spent EXCEPT ![b] = @ + AmountOf(i)]
      /\ UNCHANGED invStatus

\* settlePaidInvoice: an invoice not yet paid becomes paid and moves its amount
\* from committed to spent.
SettlePaidInvoice(i) ==
  IF invStatus[i] = "paid"
  THEN UNCHANGED <<invStatus, budgetVars>>
  ELSE LET b == BudgetOf(InvoiceDoc[i].po)
       IN  /\ invStatus' = [invStatus EXCEPT ![i] = "paid"]
           /\ committed' = [committed EXCEPT ![b] = CommitmentLeft(b, i)]
           /\ spent' = [spent EXCEPT ![b] = @ + AmountOf(i)]

\* Mutant of Reconcilable: a dishonored line is tried again.
ReconcilableAgain(r, i) == runStatus[r] = "executed" /\ line[r][i] \in {"planned", "dishonored"}

Reconcilable(r, i) == runStatus[r] = "executed" /\ line[r][i] = "planned"

\* No line of the run but this one is left to reconcile.
IsLastLine(r, i) == \A j \in Invoice \ {i} : line[r][j] # "planned"

\* reconcile, under the lock of the run row: a planned line of an executed run
\* gets its bank outcome, and the last one closes the run.
Reconcile(r, i, verdict) ==
  /\ Reconcilable(r, i)
  /\ line' = [line EXCEPT ![r][i] = verdict]
  /\ IF verdict = "paid" THEN SettlePaidInvoice(i) ELSE UNCHANGED <<invStatus, budgetVars>>
  /\ runStatus' = IF IsLastLine(r, i) THEN [runStatus EXCEPT ![r] = "reconciled"]
                                      ELSE runStatus
  /\ UNCHANGED <<orderVars, receiptVars, outcome, createdBy, approvedBy, voidedBy, voiding>>
-----------------------------------------------------------------------------
OrderStep ==
  \E p \in PO : \/ IssuePo(p)
                \/ ConfirmPo(p)
                \/ \E u \in User : \/ RequestCancellation(u, p)
                                   \/ RejectCancellation(u, p)
                                   \/ ApproveCancellation(u, p)

ReceiptStep == \E c \in Receipt : RecordReceipt(c) \/ CancelReceipt(c)

InvoiceStep == \E i \in Invoice : RegisterInvoice(i)

RunStep ==
  \/ \E u \in User : CommitVoid(u)
  \/ \E r \in Run :
       \/ ExecuteRun(r)
       \/ \E u \in User : \/ ApproveRun(u, r)
                          \/ BeginVoid(u, r)
                          \/ \E invoices \in SUBSET Invoice : CreateRun(u, r, invoices)
       \/ \E i \in Invoice, verdict \in {"paid", "dishonored", "rejected"} :
            Reconcile(r, i, verdict)

Next == OrderStep \/ ReceiptStep \/ InvoiceStep \/ RunStep

Spec == Init /\ [][Next]_vars
-----------------------------------------------------------------------------
(* Properties. *)

TypeOK ==
  /\ poStatus \in [PO -> {"unissued", "issued", "confirmed", "cancelled"}]
  /\ cancelGate \in [PO -> User \cup {NoUser}]
  /\ receiptStatus \in [Receipt -> {"none", "recorded", "cancelled"}]
  /\ invStatus \in [Invoice -> {"none", "received", "matched", "exception", "paid"}]
  /\ outcome \in [Invoice -> MatchOutcomes \cup {"none"}]
  /\ runStatus \in [Run -> {"none", "draft", "approved", "executed", "reconciled", "voided"}]
  /\ createdBy \in [Run -> User \cup {NoUser}]
  /\ approvedBy \in [Run -> User \cup {NoUser}]
  /\ voidedBy \in [Run -> User \cup {NoUser}]
  /\ line \in [Run -> [Invoice -> {"none", "planned", "paid", "dishonored", "rejected"}]]
  /\ voiding \in [User -> Run \cup {NoRun}]
  /\ committed \in [Budget -> Nat]
  /\ spent \in [Budget -> Nat]

\* At most one run reserves an invoice at a time, whatever mixture of replanning,
\* voiding and bank outcomes came before (create's claim check under the invoice lock).
SingleLiveClaim ==
  \A i \in Invoice : \A q, r \in Run : LiveClaim(q, i) /\ LiveClaim(r, i) => q = r

\* An invoice is paid exactly when one line of one run was reconciled as paid: no
\* second run pays it again and no paid line belongs to an unpaid invoice
\* (reconcile, settlePaidInvoice).
PaidByOneLine ==
  \A i \in Invoice :
    /\ invStatus[i] = "paid" <=> \E r \in Run : line[r][i] = "paid"
    /\ \A q, r \in Run : line[q][i] = "paid" /\ line[r][i] = "paid" => q = r

\* As long as a run can still pay an invoice, the invoice stays matched and its
\* order live: no cancellation of the order or of its receipts invalidates what a
\* planner has claimed (assertPoCorrectionAllowed against create).
ClaimBacked ==
  \A r \in Run, i \in Invoice :
    LiveClaim(r, i) => invStatus[i] = "matched" /\ IsLive(InvoiceDoc[i].po)

\* No invoice stays eligible, or is paid, on an order that was cancelled.
NoPaymentOfCancelledOrder ==
  \A i \in Invoice : invStatus[i] \in {"matched", "paid"} => IsLive(InvoiceDoc[i].po)

\* What the matched and paid invoices of an order bill together stays within one
\* tolerance of the goods received and of the order's total: neither partial
\* invoices, nor corrections of receipts, nor the order of evaluation let the
\* tolerance add up (allocatedValueForPo, reevaluateMatchedForPo).
ReservedWithinCover ==
  \A p \in PO :
    LET reserved == ValueOf({i \in InvoicesOf(p) : invStatus[i] \in {"matched", "paid"}})
    IN  /\ ~ExceedsCapacity(reserved, PoTotal(p))
        /\ ~ExceedsCapacity(reserved, ValueReceived(p, Recorded(p)))

\* An invoice waits for goods only while no goods of value are booked: recording a
\* receipt never forgets one, and a cancelled receipt sends back to waiting
\* (rematchOpenForPo, reevaluateMatchedForPo).
WaitingMeansNoGoods ==
  \A i \in Invoice :
    invStatus[i] = "received"
      => ValueReceived(InvoiceDoc[i].po, Recorded(InvoiceDoc[i].po)) = 0

\* A run is closed with its last line and never before: an executed run has a line
\* to reconcile, a reconciled run has none (reconcile counts under the run's lock).
ClosedWithLastLine ==
  \A r \in Run :
    /\ runStatus[r] = "executed" => \E i \in Invoice : line[r][i] = "planned"
    /\ runStatus[r] = "reconciled" => \A i \in Invoice : line[r][i] # "planned"

\* Whoever approved a run did not make it, and a run past approval has an approver
\* (approve).
ApprovedByChecker ==
  \A r \in Run :
    /\ approvedBy[r] # NoUser => approvedBy[r] # createdBy[r]
    /\ runStatus[r] \in {"approved", "executed", "reconciled"} => approvedBy[r] # NoUser

LiveOrders(b) == {p \in PO : BudgetOf(p) = b /\ IsLive(p)}

PaidValue(p) == ValueOf({i \in InvoicesOf(p) : invStatus[i] = "paid"})

\* The commitment of a budget is exactly what its live orders have left to pay.
CommitmentIsOpenOrders ==
  \A b \in Budget :
    committed[b] = SumFunctionOnSet([p \in PO |-> PoTotal(p) - PaidValue(p)], LiveOrders(b))

\* What was paid for an order beyond its total.
Overpaid == [p \in PO |-> IF PaidValue(p) > PoTotal(p) THEN PaidValue(p) - PoTotal(p) ELSE 0]

\* A budget is exceeded by no more than what was paid beyond the totals of its live orders:
\* neither the release of a commitment that is floored at zero, nor cancelling and issuing
\* again, nor paying in parts adds to it (issue, settlePaidInvoice, releaseCommittedBudget).
BudgetWithinTolerance ==
  \A b \in Budget :
    committed[b] + spent[b] <= BudgetLimit[b] + SumFunctionOnSet(Overpaid, LiveOrders(b))

\* docs/spec.md: committed + spent <= limit.
BudgetWithinLimit ==
  \A b \in Budget : committed[b] + spent[b] <= BudgetLimit[b]

\* A line that has its bank outcome never moves again, a line of a voided run never
\* gets one, and a paid invoice stays paid.
KeepsDecisions ==
  /\ \A r \in Run, i \in Invoice :
       line[r][i] \in {"paid", "dishonored", "rejected"} \/ runStatus[r] = "voided"
         => line'[r][i] = line[r][i]
  /\ \A i \in Invoice : invStatus[i] = "paid" => invStatus'[i] = "paid"
DecidedStaysDecided == [][KeepsDecisions]_vars

\* docs/financial-corrections.md: an approved run's maker cannot also void it.
MakerNeverVoidsApproved ==
  [][\A r \in Run : runStatus[r] = "approved" /\ runStatus'[r] = "voided"
                      => voidedBy'[r] # createdBy[r]]_vars
-----------------------------------------------------------------------------
(* Payables implements PaymentClaims. *)

Minted == {r \in Run : runStatus[r] # "none"}

Holder == [i \in Invoice |-> IF \E r \in Run : LiveClaim(r, i)
                             THEN CHOOSE r \in Run : LiveClaim(r, i)
                             ELSE NoRun]

PaidBy == [i \in Invoice |-> IF \E r \in Run : line[r][i] = "paid"
                             THEN CHOOSE r \in Run : line[r][i] = "paid"
                             ELSE NoRun]

Claims == INSTANCE PaymentClaims WITH minted <- Minted, holder <- Holder, paidBy <- PaidBy

\* Runs reserve, release and pay invoices as the abstract specification allows:
\* every transaction of the system is one of its steps or invisible to it.
ImplementsPaymentClaims == Claims!Spec
=============================================================================
