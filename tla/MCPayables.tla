----------------------------- MODULE MCPayables -----------------------------
(***************************************************************************)
(* Small instances of Payables.  A unit costs 20, so that 21 is the        *)
(* largest invoice that still matches one unit (5%) and 22 is beyond the   *)
(* tolerance.                                                              *)
(***************************************************************************)
EXTENDS Payables, TLC

CONSTANTS p1, p2, p3, p4, i1, i2, i3, i4, c1, c2, c3, u1, u2, b1

Order(req, qty) == [requisition |-> req, vendor |-> "v1", currency |-> "PHP",
                    quantity |-> qty, unitPrice |-> 20, partial |-> FALSE]

Bill(po, amount, partial, at) ==
  [po |-> po, vendor |-> "v1", currency |-> "PHP", amount |-> amount,
   partial |-> partial, receivedAt |-> at]

Goods(po, qty) == [po |-> po, quantity |-> qty, priced |-> TRUE]

OneBudget == [q \in {"q1", "q2", "q3"} |-> b1]

UserSymmetry == Permutations({u1, u2})

\* One order of two units, billed by a half and a half within tolerance, received at
\* once.
RunsPoDoc == p1 :> Order("q1", 2)
RunsInvoiceDoc == i1 :> Bill(p1, 20, TRUE, 1) @@ i2 :> Bill(p1, 21, TRUE, 2)
RunsReceiptDoc == c1 :> Goods(p1, 2)
RunsLimit == b1 :> 40

\* p1 is an order of a vendor without a verified account: its invoices compete for its
\* goods and its total and are never paid.  p2 is the larger order that may replace a
\* cancelled p1, p3 one of another requisition that is billed exactly and paid.
MatchPoDoc == p1 :> [Order("q1", 2) EXCEPT !.vendor = "v2"] @@ p2 :> Order("q1", 3)
              @@ p3 :> Order("q2", 1)
MatchInvoiceDoc == i1 :> [Bill(p1, 42, FALSE, 1) EXCEPT !.vendor = "v2"]
                   @@ i2 :> [Bill(p1, 21, TRUE, 2) EXCEPT !.vendor = "v2"]
                   @@ i3 :> [Bill(p1, 20, TRUE, 3) EXCEPT !.vendor = "v2"]
                   @@ i4 :> Bill(p3, 20, FALSE, 4)
MatchReceiptDoc == c1 :> Goods(p1, 1) @@ c2 :> Goods(p1, 1) @@ c3 :> Goods(p3, 1)
MatchLimit == b1 :> 60

TolerancePoDoc == p1 :> Order("q1", 1)
ToleranceInvoiceDoc == i1 :> Bill(p1, 21, FALSE, 1)
ToleranceReceiptDoc == c1 :> Goods(p1, 1)
ToleranceLimit == b1 :> 20
=============================================================================
