---------------------------- MODULE MCLedgerExport ----------------------------
(***************************************************************************)
(* A small instance of LedgerExport: all invoices are of the vendor v1.    *)
(***************************************************************************)
EXTENDS LedgerExport, TLC

CONSTANTS v1, i1, i2, a1, a2, u1, u2

Vendors == [i \in Invoice |-> v1]

Users == Permutations(User)
=============================================================================
