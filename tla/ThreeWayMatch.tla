---------------------------- MODULE ThreeWayMatch ----------------------------
(***************************************************************************)
(* The three-way match of purchase order, goods receipts and supplier      *)
(* invoice (invoice.service.ts, matchAgainstPo): a chain of gates, in the  *)
(* order of the code, whose first failing gate names the outcome.          *)
(*                                                                         *)
(* The module has no variables.  What the match reads from the database    *)
(* (is the order live, the value received against it, the value already    *)
(* reserved by other invoices) are arguments; what never changes after a   *)
(* row is created (the order's total, the invoice's amount) are constants. *)
(* Amounts are minor units.                                                *)
(***************************************************************************)
EXTENDS Integers, FiniteSetsExt

CONSTANTS
  PO,                 \* purchase orders
  Invoice,            \* supplier invoices
  PoDoc,              \* PO -> requisition, vendor, currency, quantity, unitPrice, partial
  InvoiceDoc,         \* Invoice -> po, vendor, currency, amount, partial, receivedAt
  MatchToleranceBps   \* the relative tolerance of the match, in basis points

\* One priced line per order: what the gates read of the lines is the value
\* received and the ordered quantity of the line a receipt names.
ASSUME PoDocAssumption ==
  \A p \in PO : /\ PoDoc[p].quantity \in Nat
                /\ PoDoc[p].unitPrice \in Nat
                /\ PoDoc[p].partial \in BOOLEAN

ASSUME InvoiceDocAssumption ==
  \A i \in Invoice : /\ InvoiceDoc[i].po \in PO
                     /\ InvoiceDoc[i].amount \in Nat
                     /\ InvoiceDoc[i].partial \in BOOLEAN
                     /\ InvoiceDoc[i].receivedAt \in Nat

ASSUME ToleranceAssumption == MatchToleranceBps \in Nat

MatchOutcomes ==
  {"matched", "po_not_live", "vendor_mismatch", "currency_mismatch",
   "amount_mismatch", "awaiting_receipt", "receipt_shortfall", "over_allocated"}

PoTotal(p) == PoDoc[p].quantity * PoDoc[p].unitPrice

AmountOf(i) == InvoiceDoc[i].amount

InvoicesOf(p) == {i \in Invoice : InvoiceDoc[i].po = p}

\* Math.round(part / base * 10000) > MatchToleranceBps, for part >= 0 and base > 0:
\* rounding is half up, so the quotient must reach the tolerance plus one half.
BeyondTolerance(part, base) == 20000 * part >= (2 * MatchToleranceBps + 1) * base

\* The invoice exceeds a capacity by more than the tolerance.  The code divides
\* by at least 1, so a capacity of zero or below tolerates no real excess.
ExceedsCapacity(total, capacity) ==
  /\ total > capacity
  /\ BeyondTolerance(total - capacity, IF capacity > 1 THEN capacity ELSE 1)

\* The variance against the order's total is within tolerance (either side);
\* an order with total zero has variance zero.
IsFullMatch(i) ==
  LET total    == PoTotal(InvoiceDoc[i].po)
      variance == IF AmountOf(i) > total THEN AmountOf(i) - total ELSE total - AmountOf(i)
  IN  total = 0 \/ ~BeyondTolerance(variance, total)

\* A part of the order may be billed when the registration asks for it or the
\* order's terms do; the stored match keeps the request for later evaluations
\* exactly when it made a difference (isPartial).
AmountMatched(i) ==
  \/ IsFullMatch(i)
  \/ /\ InvoiceDoc[i].partial \/ PoDoc[InvoiceDoc[i].po].partial
     /\ AmountOf(i) <= PoTotal(InvoiceDoc[i].po)

\* The gates of matchAgainstPo in source order.  `received' is the value of the
\* recorded receipts, `allocated' what other matched or paid invoices reserve.
MatchAgainstPo(i, poLive, received, allocated) ==
  LET p == InvoiceDoc[i].po
  IN  IF ~poLive                                       THEN "po_not_live"
      ELSE IF PoDoc[p].vendor # InvoiceDoc[i].vendor   THEN "vendor_mismatch"
      ELSE IF PoDoc[p].currency # InvoiceDoc[i].currency THEN "currency_mismatch"
      ELSE IF ~AmountMatched(i)                        THEN "amount_mismatch"
      ELSE IF received = 0                             THEN "awaiting_receipt"
      ELSE IF received - allocated <= 0                THEN "over_allocated"
      ELSE IF ExceedsCapacity(AmountOf(i), received - allocated)
                                                       THEN "receipt_shortfall"
      ELSE IF ExceedsCapacity(AmountOf(i), PoTotal(p) - allocated)
                                                       THEN "over_allocated"
      ELSE "matched"

\* The invoice status an outcome stands for: a clean invoice whose goods are
\* not booked yet waits, every other failed gate is an exception.
StatusFor(outcome) ==
  CASE outcome = "matched"          -> "matched"
    [] outcome = "awaiting_receipt" -> "received"
    [] OTHER                        -> "exception"

\* The value a set of invoices bills.
ValueOf(invoices) == MapThenSumSet(AmountOf, invoices)
=============================================================================
