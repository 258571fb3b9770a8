---------------------------- MODULE PlanningLocks ----------------------------
(***************************************************************************)
(* The transactions of Payables that meet at an order and its invoices,    *)
(* statement by statement, under READ COMMITTED with row locks: planning a *)
(* payment run, cancelling a receipt, cancelling the order, recording a    *)
(* receipt, registering an invoice and reconciling a line.  One order, one *)
(* receipt and one executed run.                                           *)
(*                                                                         *)
(* A statement reads what is committed when it runs.  What a transaction   *)
(* writes is seen by others when it commits, which also releases its locks *)
(* and is the action where the writes appear.  SELECT FOR UPDATE and       *)
(* UPDATE wait for a row that another transaction has locked, and lock     *)
(* several rows one at a time.  Where transactions wait in a cycle the     *)
(* database aborts one of them.                                            *)
(***************************************************************************)
EXTENDS Naturals, FiniteSets

CONSTANTS
  Invoice,          \* invoices of the order; their order is that of their ids
  Arrival,          \* Invoice -> receivedAt
  Cover,            \* how many invoices the goods of the receipt cover
  Planner,          \* create transactions
  PlanOf,           \* Planner -> the invoices of its plan
  ReceiptCanceller, \* receipt.cancel transactions
  OrderCanceller,   \* decide transactions that approve the cancellation of the order
  Recorder,         \* receipt.record transactions
  Registrar,        \* register transactions
  Registers,        \* Registrar -> the invoice it registers
  Reconciler,       \* reconcile transactions of the executed run
  Decides,          \* Reconciler -> the invoice of its line and the verdict on it
  Nobody,           \* no transaction
  OrderRow,         \* the row of the purchase order
  RunRow            \* the row of the executed run

Tx == Planner \cup ReceiptCanceller \cup OrderCanceller \cup Recorder \cup Registrar
        \cup Reconciler

Row == {OrderRow, RunRow} \cup Invoice

\* The invoices of an order are finite in number, and arrived one after the other.
ASSUME InvoiceAssumption ==
  /\ Invoice \subseteq Nat /\ IsFiniteSet(Invoice)
  /\ Arrival \in [Invoice -> Nat]
  /\ \A i, j \in Invoice : Arrival[i] = Arrival[j] => i = j
  /\ Cover \in Nat

ASSUME RowAssumption == OrderRow \notin Invoice /\ RunRow \notin Invoice \cup {OrderRow}

\* A transaction is of one kind.
ASSUME KindAssumption ==
  /\ Nobody \notin Tx /\ IsFiniteSet(Tx)
  /\ Planner \cap (ReceiptCanceller \cup OrderCanceller \cup Recorder \cup Registrar
                    \cup Reconciler) = {}
  /\ ReceiptCanceller \cap (OrderCanceller \cup Recorder \cup Registrar \cup Reconciler) = {}
  /\ OrderCanceller \cap (Recorder \cup Registrar \cup Reconciler) = {}
  /\ Recorder \cap (Registrar \cup Reconciler) = {}
  /\ Registrar \cap Reconciler = {}

\* What a transaction is asked to do.  A plan is not empty, and every registration is of an
\* invoice of its own.
ASSUME RequestAssumption ==
  /\ PlanOf \in [Planner -> (SUBSET Invoice) \ {{}}]
  /\ Registers \in [Registrar -> Invoice]
  /\ \A t, u \in Registrar : Registers[t] = Registers[u] => t = u
  /\ Decides \in [Reconciler -> [invoice : Invoice, verdict : {"paid", "dishonored"}]]

VARIABLES
  pc,        \* the statement a transaction runs next
  lock,      \* the transaction that has locked a row
  po,        \* committed purchaseOrder.status: "live" (issued or confirmed) or "cancelled"
  goods,     \* committed receipt.status
  inv,       \* committed invoice.status; "none" before the row exists
  claim,     \* committed status of a planner's line for an invoice
  line,      \* committed status of the executed run's line for an invoice
  run        \* committed status of the executed run; "none" without one

rows == <<po, goods, inv, claim, line, run>>
vars == <<pc, lock, rows>>

Begin(t) ==
  CASE t \in Planner                                 -> "lock invoices"
    [] t \in OrderCanceller \cup Recorder \cup Registrar -> "lock po"
    [] t \in ReceiptCanceller                        -> "read receipt"
    [] t \in Reconciler                              -> "lock run"

\* Some invoices are registered already.  Either the goods are not booked and the
\* invoices wait, or they are booked and cover the invoices; an executed run may
\* have planned some of the latter.
Init ==
  /\ pc = [t \in Tx |-> Begin(t)]
  /\ lock = [row \in Row |-> Nobody]
  /\ po = "live"
  /\ claim = [t \in Planner |-> [i \in Invoice |-> "none"]]
  /\ LET registered == Invoice \ {Registers[t] : t \in Registrar}
         As(status) == [i \in Invoice |-> IF i \in registered THEN status ELSE "none"]
     IN  \/ /\ goods = "none"
            /\ inv = As("received")
            /\ line = [i \in Invoice |-> "none"]
         \/ /\ goods = "recorded" /\ Cardinality(registered) <= Cover
            /\ inv = As("matched")
            /\ line \in [Invoice -> {"none", "planned"}]
            /\ \A i \in Invoice \ registered : line[i] = "none"
  /\ run = IF \E i \in Invoice : line[i] = "planned" THEN "executed" ELSE "none"
-----------------------------------------------------------------------------
(* Locks. *)

Registered == {i \in Invoice : inv[i] # "none"}

Waiting == {i \in Invoice : inv[i] = "received"}

Held(t) == {row \in Row : lock[row] = t}

\* Mutant of the four operators below: the statement does not lock.
NoRows(t) == {}

OrderRows(t) == {OrderRow}

RunRows(t) == {RunRow}

\* create locks the invoices of its plan.
PlanRows(t) == PlanOf[t]

\* assertPoCorrectionAllowed locks all invoices of the order.
CorrectionRows(t) == Registered

\* The rows the statement at pc[t] locks before it goes on.
Rows(t) ==
  CASE pc[t] = "lock po"                           -> OrderRows(t)
    [] pc[t] = "lock run"                          -> RunRows(t)
    [] pc[t] = "lock invoices" /\ t \in Planner    -> PlanRows(t)
    [] pc[t] = "lock invoices" /\ t \notin Planner -> CorrectionRows(t)
    [] pc[t] = "settle"                            -> {Decides[t].invoice}
    [] pc[t] = "rematch"                           -> Waiting
    [] OTHER                                       -> {}

\* rematchOpenForPo updates the waiting invoices oldest first.
Oldest(missing) == CHOOSE i \in missing : \A j \in missing \ {i} : Arrival[i] < Arrival[j]

\* Mutant of FirstById: no ORDER BY, a plan happens to be locked from its end.
FirstFound(t, missing) ==
  CHOOSE i \in missing : \A j \in missing \ {i} : IF t \in Planner THEN i > j ELSE i < j

\* ORDER BY id.
FirstById(t, missing) == CHOOSE i \in missing : \A j \in missing \ {i} : i < j

\* The row that t locks next, if its statement still misses one.
NextRow(t) ==
  LET missing == Rows(t) \ Held(t)
  IN  IF missing = {} THEN {}
      ELSE IF pc[t] = "rematch" THEN {Oldest(missing)}
      ELSE {FirstById(t, missing)}

Acquire(t) ==
  \E row \in NextRow(t) :
    /\ lock[row] = Nobody
    /\ lock' = [lock EXCEPT ![row] = t]
    /\ UNCHANGED <<pc, rows>>

\* The statement at `from' has all its locks and hands over to the one at `to'.
Go(t, from, to) ==
  /\ pc[t] = from
  /\ NextRow(t) = {}
  /\ pc' = [pc EXCEPT ![t] = to]

End(t, from, how) ==
  /\ Go(t, from, how)
  /\ lock' = [row \in Row |-> IF lock[row] = t THEN Nobody ELSE lock[row]]

\* A failed check throws and rolls the transaction back.
Check(t, from, to, passed) ==
  /\ IF passed THEN Go(t, from, to) /\ UNCHANGED lock ELSE End(t, from, "aborted")
  /\ UNCHANGED rows

Pass(t, from, to) == Check(t, from, to, TRUE)

LiveClaim(i) == line[i] = "planned" \/ \E t \in Planner : claim[t][i] = "planned"
-----------------------------------------------------------------------------
InsertLines(t) ==
  /\ End(t, "insert", "committed")
  /\ claim' = [claim EXCEPT ![t] = [i \in Invoice |-> IF i \in PlanOf[t] THEN "planned"
                                                                      ELSE "none"]]
  /\ UNCHANGED <<po, goods, inv, line, run>>

(* create: locks first, then every check is a statement of its own.  The order's row is
   read without a lock. *)
Plan(t) ==
  \/ Pass(t, "lock invoices", "read invoices")
  \/ Check(t, "read invoices", "read po", \A i \in PlanOf[t] : inv[i] = "matched")
  \/ Check(t, "read po", "read claims", po = "live")
  \/ Check(t, "read claims", "insert", \A i \in PlanOf[t] : ~LiveClaim(i))
  \/ InsertLines(t)

\* assertPoCorrectionAllowed, which goes on to the statement `to'.
CorrectionGuard(t, to) ==
  \/ Pass(t, "lock invoices", "read paid")
  \/ Check(t, "read paid", "read claims", \A i \in Invoice : inv[i] # "paid")
  \/ Check(t, "read claims", to, \A i \in Invoice : ~LiveClaim(i) /\ line[i] # "paid")

\* reevaluateMatchedForPo without goods or without a live order.
Demoted(status) == [i \in Invoice |-> IF inv[i] = "matched" THEN status ELSE inv[i]]

UncoverInvoices(t) ==
  /\ End(t, "reevaluate", "committed")
  /\ goods' = "cancelled"
  /\ inv' = Demoted(IF po = "live" THEN "received" ELSE "exception")
  /\ UNCHANGED <<po, claim, line, run>>

\* cancel: the receipt is read, the order locked, the receipt updated if it is still
\* recorded, and the guard comes before the invoices.
CancelReceipt(t) ==
  \/ Check(t, "read receipt", "lock po", goods = "recorded")
  \/ Pass(t, "lock po", "update receipt")
  \/ Check(t, "update receipt", "lock invoices", goods = "recorded")
  \/ CorrectionGuard(t, "reevaluate")
  \/ UncoverInvoices(t)

CancelInvoices(t) ==
  /\ End(t, "reevaluate", "committed")
  /\ po' = "cancelled"
  /\ inv' = Demoted("exception")
  /\ UNCHANGED <<goods, claim, line, run>>

\* decide on a poCancellation.  The second guard, in reevaluateMatchedForPo, repeats
\* the checks of the first under the same locks.
CancelOrder(t) ==
  \/ Pass(t, "lock po", "read po")
  \/ Check(t, "read po", "lock invoices", po = "live")
  \/ CorrectionGuard(t, "read receipts")
  \/ Check(t, "read receipts", "reevaluate", goods # "recorded")
  \/ CancelInvoices(t)

Reserved == {i \in Invoice : inv[i] \in {"matched", "paid"}}

\* The invoices that the goods cover in the order of their arrival.
FirstCovered == {i \in Waiting : Cardinality({j \in Waiting : Arrival[j] < Arrival[i]}) < Cover}

Rematch(t) ==
  /\ End(t, "rematch", "committed")
  /\ goods' = "recorded"
  /\ inv' = [i \in Invoice |-> IF i \notin Waiting THEN inv[i]
                              ELSE IF i \in FirstCovered THEN "matched" ELSE "exception"]
  /\ UNCHANGED <<po, claim, line, run>>

\* record: the order's row, its status, and the rematch.
RecordReceipt(t) ==
  \/ Pass(t, "lock po", "read po")
  \/ Check(t, "read po", "rematch", po = "live" /\ goods = "none")
  \/ Rematch(t)

\* The status that matching one more invoice gives it.
MatchStatus ==
  IF po # "live" THEN "exception"
  ELSE IF goods # "recorded" THEN "received"
  ELSE IF Cardinality(Reserved) < Cover THEN "matched" ELSE "exception"

InsertInvoice(t, status) ==
  /\ End(t, status, "committed")
  /\ inv' = [inv EXCEPT ![Registers[t]] = status]
  /\ UNCHANGED <<po, goods, claim, line, run>>

\* register: the match reads order, goods and reservations, then the row is inserted
\* with the status the match gave it, which `pc' carries.
Register(t) ==
  \/ Pass(t, "lock po", "match")
  \/ Pass(t, "match", MatchStatus)
  \/ \E status \in {"received", "matched", "exception"} : InsertInvoice(t, status)

\* `last' says whether the transaction found no other line to decide.
DecideLine(t, last) ==
  LET i == Decides[t].invoice
      verdict == Decides[t].verdict
  IN  /\ End(t, last, "committed")
      /\ line' = [line EXCEPT ![i] = verdict]
      /\ inv' = IF verdict = "paid" THEN [inv EXCEPT ![i] = "paid"] ELSE inv
      /\ run' = IF last = "close" THEN "reconciled" ELSE run
      /\ UNCHANGED <<po, goods, claim>>

\* reconcile: the run's row, its status, the conditional update of the line, for a
\* payment the invoice's row, and the count of the lines left, which sees the
\* transaction's own update and decides whether the run is closed.
Reconcile(t) ==
  LET i == Decides[t].invoice
      verdict == Decides[t].verdict
  IN  \/ Pass(t, "lock run", "read run")
      \/ Check(t, "read run", "update line", run = "executed")
      \/ Check(t, "update line", IF verdict = "paid" THEN "settle" ELSE "count",
               line[i] = "planned")
      \/ Pass(t, "settle", "count")
      \/ Pass(t, "count", IF \E j \in Invoice \ {i} : line[j] = "planned"
                          THEN "keep open" ELSE "close")
      \/ \E last \in {"keep open", "close"} : DecideLine(t, last)
-----------------------------------------------------------------------------
\* Who t waits for, if anyone.
Blocker(t) ==
  IF t = Nobody \/ NextRow(t) = {} THEN Nobody ELSE lock[CHOOSE row \in NextRow(t) : TRUE]

\* t waits for a transaction that waits, in the end, for t: the blockers of a finite set of
\* transactions are that set exactly when it consists of such cycles.
InCycle(t) ==
  /\ Blocker(t) # Nobody
  /\ \E cycles \in SUBSET {u \in Tx : Blocker(u) # Nobody} :
       t \in cycles /\ {Blocker(u) : u \in cycles} = cycles

\* The database aborts a transaction that waits for itself.
DeadlockVictim(t) ==
  /\ InCycle(t)
  /\ pc' = [pc EXCEPT ![t] = "aborted"]
  /\ lock' = [row \in Row |-> IF lock[row] = t THEN Nobody ELSE lock[row]]
  /\ UNCHANGED rows

TxStep(t) ==
  \/ Acquire(t)
  \/ t \in Planner /\ Plan(t)
  \/ t \in ReceiptCanceller /\ CancelReceipt(t)
  \/ t \in OrderCanceller /\ CancelOrder(t)
  \/ t \in Recorder /\ RecordReceipt(t)
  \/ t \in Registrar /\ Register(t)
  \/ t \in Reconciler /\ Reconcile(t)
  \/ DeadlockVictim(t)

Finished == (\A t \in Tx : pc[t] \in {"committed", "aborted"}) /\ UNCHANGED vars

Next == Finished \/ \E t \in Tx : TxStep(t)

Spec == Init /\ [][Next]_vars
-----------------------------------------------------------------------------
(* Properties. *)

Statement ==
  {"lock po", "lock run", "lock invoices", "read receipt", "read po", "read run",
   "read invoices", "read paid", "read claims", "read receipts", "update receipt",
   "update line", "settle", "count", "keep open", "close", "match", "received", "matched",
   "exception", "insert", "reevaluate", "rematch", "committed", "aborted"}

TypeOK ==
  /\ pc \in [Tx -> Statement]
  /\ lock \in [Row -> Tx \cup {Nobody}]
  /\ po \in {"live", "cancelled"}
  /\ goods \in {"none", "recorded", "cancelled"}
  /\ inv \in [Invoice -> {"none", "received", "matched", "exception", "paid"}]
  /\ claim \in [Planner -> [Invoice -> {"none", "planned"}]]
  /\ line \in [Invoice -> {"none", "planned", "paid", "dishonored"}]
  /\ run \in {"none", "executed", "reconciled"}

\* A plan commits only while all it checked, statement by statement, still holds: its
\* invoices are matched and unclaimed and the order it read without a lock is live.
\* This is the guard of Payables!CreateRun (create, assertLiveInvoicePurchaseOrders).
PlansAreAtomic ==
  [][\A t \in Planner :
       claim'[t] # claim[t]
         => /\ po = "live"
            /\ \A i \in PlanOf[t] : inv[i] = "matched" /\ ~LiveClaim(i)]_vars

\* No invoice of the order is paid or on its way to be.
NoPaymentBegun == \A i \in Invoice : inv[i] # "paid" /\ ~LiveClaim(i) /\ line[i] # "paid"

\* Cancelling the order and cancelling its goods each commit only while no invoice of the
\* order is paid or claimed, and the order only without goods, whether they never came or
\* are cancelled already.  These are the guards of Payables!ApproveCancellation and
\* CancelReceipt (assertPoCorrectionAllowed).
CorrectionsAreAtomic ==
  [][/\ po' # po => NoPaymentBegun /\ goods # "recorded"
     /\ goods' # goods /\ goods' = "cancelled" => NoPaymentBegun]_vars

\* An invoice is eligible only while its order is live and goods cover it, and no more
\* invoices are eligible or paid than the goods cover, however registrations, receipts
\* and corrections interleave (the order's row lock).
EligibleIsCovered ==
  /\ Cardinality(Reserved) <= Cover
  /\ \A i \in Invoice : inv[i] = "matched" => po = "live" /\ goods = "recorded"

\* Concurrent reconciliations leave a run open only while it has a line to decide:
\* the count of one never misses the update of the other (reconcile's run lock).
ClosedWithLastLine ==
  run = "executed" => \E i \in Invoice : line[i] = "planned"

\* Planning, corrections, registration and settlement never wait in a cycle: only
\* recording a receipt, whose updates go by arrival instead of by id, can be part of
\* one (create: "Lock IDs in order [...] to avoid cycles").
CyclesNeedAReceipt ==
  (\E t \in Tx : InCycle(t)) => \E t \in Recorder : InCycle(t)
=============================================================================
