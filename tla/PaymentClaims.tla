---------------------------- MODULE PaymentClaims ----------------------------
(***************************************************************************)
(* What payment runs promise about an invoice, without orders, receipts,   *)
(* budgets or people: a run reserves free invoices when it is minted, every *)
(* reservation ends by paying the invoice or by releasing it, and an       *)
(* invoice that was paid is never reserved again.                          *)
(*                                                                         *)
(* "Claims are reservations, not history" (payment-run.service.ts).        *)
(***************************************************************************)
CONSTANTS Invoice, Run, NoRun

VARIABLES
  minted,    \* the runs that exist
  holder,    \* the run that reserves an invoice, or NoRun
  paidBy     \* the run that paid an invoice, or NoRun

Init ==
  /\ minted = {}
  /\ holder = [i \in Invoice |-> NoRun]
  /\ paidBy = [i \in Invoice |-> NoRun]

\* A new run reserves invoices that are neither reserved nor paid.
Reserve(r, invoices) ==
  /\ r \notin minted
  /\ invoices # {}
  /\ \A i \in invoices : holder[i] = NoRun /\ paidBy[i] = NoRun
  /\ minted' = minted \cup {r}
  /\ holder' = [i \in Invoice |-> IF i \in invoices THEN r ELSE holder[i]]
  /\ UNCHANGED paidBy

\* A run gives up some of its reservations.
Release(r, invoices) ==
  /\ invoices # {}
  /\ \A i \in invoices : holder[i] = r
  /\ holder' = [i \in Invoice |-> IF i \in invoices THEN NoRun ELSE holder[i]]
  /\ UNCHANGED <<minted, paidBy>>

\* A run pays an invoice it has reserved.
Pay(r, i) ==
  /\ holder[i] = r
  /\ holder' = [holder EXCEPT ![i] = NoRun]
  /\ paidBy' = [paidBy EXCEPT ![i] = r]
  /\ UNCHANGED minted

Next ==
  \E r \in Run : \/ \E invoices \in SUBSET Invoice : Reserve(r, invoices) \/ Release(r, invoices)
                 \/ \E i \in Invoice : Pay(r, i)

vars == <<minted, holder, paidBy>>

Spec == Init /\ [][Next]_vars
=============================================================================
