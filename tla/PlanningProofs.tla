---------------------------- MODULE PlanningProofs ----------------------------
(***************************************************************************)
(* Proofs about PlanningLocks, for any invoices of the order and any       *)
(* numbers of plans, registrations, receipts, corrections and              *)
(* reconciliations.                                                        *)
(***************************************************************************)
EXTENDS PlanningLocks, FiniteSetTheorems, WellFoundedInduction, TLAPS

Corrector == ReceiptCanceller \cup OrderCanceller

\* The locks that a transaction has when it comes to a statement.
Locked(t) ==
  /\ t \in Planner /\ pc[t] \in {"read invoices", "read po", "read claims", "insert"}
       => \A i \in PlanOf[t] : lock[i] = t
  /\ t \in Corrector \cup Recorder \cup Registrar
     /\ pc[t] \notin {"read receipt", "lock po", "committed", "aborted"}
       => lock[OrderRow] = t
  /\ t \in Corrector /\ pc[t] \in {"read paid", "read claims", "read receipts", "reevaluate"}
       => \A i \in Registered : lock[i] = t
  /\ t \in Reconciler /\ pc[t] \notin {"lock run", "committed", "aborted"}
       => lock[RunRow] = t
  /\ t \in Reconciler /\ pc[t] \in {"count", "keep open", "close"}
     /\ Decides[t].verdict = "paid"
       => lock[Decides[t].invoice] = t

PlanSeen(t) ==
  /\ pc[t] \in {"read po", "read claims", "insert"} => \A i \in PlanOf[t] : inv[i] = "matched"
  /\ pc[t] \in {"read claims", "insert"} => po = "live"
  /\ pc[t] = "insert" => \A i \in PlanOf[t] : ~LiveClaim(i)

CorrectionSeen(t) ==
  /\ pc[t] \in {"read claims", "read receipts", "reevaluate"} => \A i \in Invoice : inv[i] # "paid"
  /\ pc[t] \in {"read receipts", "reevaluate"}
       => \A i \in Invoice : ~LiveClaim(i) /\ line[i] # "paid"
  /\ pc[t] = "reevaluate" /\ t \in OrderCanceller => goods # "recorded"

RegistrationSeen(t) ==
  /\ pc[t] # "committed" => inv[Registers[t]] = "none"
  /\ pc[t] = "matched" => po = "live" /\ goods = "recorded" /\ Cardinality(Reserved) < Cover

ReconciliationSeen(t) ==
  /\ pc[t] \in {"settle", "count", "keep open", "close"} => line[Decides[t].invoice] = "planned"
  /\ pc[t] = "keep open" => \E j \in Invoice \ {Decides[t].invoice} : line[j] = "planned"

Seen(t) ==
  /\ t \in Planner => PlanSeen(t)
  /\ t \in Corrector => CorrectionSeen(t)
  /\ t \in Recorder /\ pc[t] = "rematch" => po = "live" /\ goods = "none"
  /\ t \in Registrar => RegistrationSeen(t)
  /\ t \in Reconciler => ReconciliationSeen(t)

GoodsInv == goods = "none" => Reserved = {}
LineInv == \A i \in Invoice : line[i] = "planned" => inv[i] = "matched"

RowsInv == EligibleIsCovered /\ ClosedWithLastLine /\ GoodsInv /\ LineInv

IInv ==
  /\ TypeOK
  /\ \A t \in Tx : Locked(t)
  /\ \A t \in Tx : Seen(t)
  /\ RowsInv
-----------------------------------------------------------------------------
(* The steps of a transaction. *)

\* Transactions other than t go on where they were, with the locks they had.
OthersKeep(t) ==
  \A u \in Tx \ {t} : /\ pc'[u] = pc[u]
                      /\ \A row \in Row : lock[row] = u => lock'[row] = u

\* The statement of t at `from' has its locks, and its successor is `to'.
Passed(t, from, to) ==
  /\ pc[t] = from /\ pc'[t] = to
  /\ Rows(t) \subseteq Held(t)
  /\ UNCHANGED <<lock, rows>>

Aborted(t) == pc[t] # "committed" /\ pc'[t] = "aborted" /\ UNCHANGED rows

LEMMA NoNextRow == \A t : NextRow(t) = {} => Rows(t) \subseteq Held(t)
  BY DEF NextRow

LEMMA CheckEffect ==
  ASSUME TypeOK, NEW t \in Tx, NEW from \in Statement \ {"committed"}, NEW to, NEW passed \in BOOLEAN,
         Check(t, from, to, passed)
  PROVE  OthersKeep(t) /\ (Aborted(t) \/ (passed /\ Passed(t, from, to)))
  <1>1. CASE passed
    <2>1. Go(t, from, to) /\ UNCHANGED <<lock, rows>>
      BY <1>1 DEF Check
    <2>2. pc[t] = from /\ pc' = [pc EXCEPT ![t] = to] /\ Rows(t) \subseteq Held(t)
      BY <2>1, NoNextRow DEF Go
    <2> QED
      BY <1>1, <2>1, <2>2 DEF OthersKeep, Passed, TypeOK
  <1>2. CASE ~passed
    <2>1. /\ pc[t] = from /\ pc' = [pc EXCEPT ![t] = "aborted"]
          /\ lock' = [row \in Row |-> IF lock[row] = t THEN Nobody ELSE lock[row]]
          /\ UNCHANGED rows
      BY <1>2 DEF Check, End, Go
    <2> QED
      BY <2>1 DEF OthersKeep, Aborted, TypeOK
  <1> QED
    BY <1>1, <1>2

LEMMA PassEffect ==
  ASSUME TypeOK, NEW t \in Tx, NEW from \in Statement \ {"committed"}, NEW to, Pass(t, from, to)
  PROVE  OthersKeep(t) /\ Passed(t, from, to)
  <1>1. Go(t, from, to) /\ UNCHANGED <<lock, rows>>
    BY DEF Pass, Check
  <1>2. pc[t] = from /\ pc' = [pc EXCEPT ![t] = to] /\ Rows(t) \subseteq Held(t)
    BY <1>1, NoNextRow DEF Go
  <1> QED
    BY <1>1, <1>2 DEF OthersKeep, Passed, TypeOK

\* A transaction commits with the locks of its last statement.
LEMMA CommitEffect ==
  ASSUME TypeOK, NEW t \in Tx, NEW from \in Statement, End(t, from, "committed")
  PROVE  /\ OthersKeep(t)
         /\ pc[t] = from /\ pc'[t] = "committed"
         /\ Rows(t) \subseteq Held(t)
  <1>1. /\ pc[t] = from /\ pc' = [pc EXCEPT ![t] = "committed"]
        /\ lock' = [row \in Row |-> IF lock[row] = t THEN Nobody ELSE lock[row]]
        /\ Rows(t) \subseteq Held(t)
    BY NoNextRow DEF End, Go
  <1> QED
    BY <1>1 DEF OthersKeep, TypeOK

LEMMA AcquireEffect ==
  ASSUME TypeOK, NEW t \in Tx, Acquire(t)
  PROVE  /\ OthersKeep(t) /\ UNCHANGED <<pc, rows>>
         /\ \A row \in Row : lock[row] = t => lock'[row] = t
  <1>1. PICK row \in NextRow(t) : /\ lock[row] = Nobody
                                  /\ lock' = [lock EXCEPT ![row] = t]
                                  /\ UNCHANGED <<pc, rows>>
    BY DEF Acquire
  <1> QED
    BY <1>1, KindAssumption DEF OthersKeep, TypeOK

LEMMA VictimEffect ==
  ASSUME TypeOK, NEW t \in Tx, DeadlockVictim(t)
  PROVE  OthersKeep(t) /\ Aborted(t)
  <1>1. /\ pc' = [pc EXCEPT ![t] = "aborted"]
        /\ lock' = [row \in Row |-> IF lock[row] = t THEN Nobody ELSE lock[row]]
        /\ UNCHANGED rows /\ InCycle(t)
    BY DEF DeadlockVictim
  <1>2. Rows(t) # {}
    BY <1>1 DEF InCycle, Blocker, NextRow
  <1>3. pc[t] # "committed"
    BY <1>2 DEF Rows
  <1> QED
    BY <1>1, <1>3 DEF OthersKeep, Aborted, TypeOK
-----------------------------------------------------------------------------
(* Steps that write nothing. *)

\* What t reads stays what it was, and so does what it holds.
\* What a transaction has seen stays seen while no column changes.
LEMMA StillSeen ==
  ASSUME NEW t \in Tx, Seen(t), UNCHANGED <<pc, po, goods, inv, claim, line, run>>
  PROVE  Seen(t)'
  <1>1. \A i \in Invoice : LiveClaim(i)' = LiveClaim(i)
    BY DEF LiveClaim
  <1>2. Reserved' = Reserved
    BY DEF Reserved
  <1>3. PlanSeen(t)' = PlanSeen(t)
    BY DEF PlanSeen, LiveClaim
  <1>4. CorrectionSeen(t)' = CorrectionSeen(t)
    BY <1>1 DEF CorrectionSeen
  <1>5. RegistrationSeen(t)' = RegistrationSeen(t)
    BY <1>2 DEF RegistrationSeen
  <1>6. ReconciliationSeen(t)' = ReconciliationSeen(t)
    BY DEF ReconciliationSeen
  <1> QED
    BY <1>3, <1>4, <1>5, <1>6 DEF Seen

LEMMA QuietStep ==
  ASSUME IInv, NEW t \in Tx, OthersKeep(t), UNCHANGED rows, TypeOK', Locked(t)', Seen(t)'
  PROVE  IInv'
  <1>1. /\ \A i \in Invoice : LiveClaim(i)' = LiveClaim(i)
        /\ Registered' = Registered /\ Reserved' = Reserved
    BY DEF rows, LiveClaim, Registered, Reserved
  <1>2. RowsInv'
    BY <1>1 DEF IInv, RowsInv, EligibleIsCovered, ClosedWithLastLine, GoodsInv, LineInv, rows
  <1>3. ASSUME NEW u \in Tx \ {t}
        PROVE  Locked(u)'
    <2>1. Locked(u) /\ pc'[u] = pc[u] /\ \A row \in Row : lock[row] = u => lock'[row] = u
      BY DEF IInv, OthersKeep
    <2>2. /\ OrderRow \in Row /\ RunRow \in Row /\ Registered \subseteq Row
          /\ u \in Planner => PlanOf[u] \subseteq Row
          /\ u \in Reconciler => Decides[u].invoice \in Row
      BY RequestAssumption DEF Row, Registered
    <2> QED
      BY <1>1, <2>1, <2>2 DEF Locked
  <1>4. ASSUME NEW u \in Tx \ {t}
        PROVE  Seen(u)'
    <2>1. Seen(u) /\ pc'[u] = pc[u]
      BY DEF IInv, OthersKeep
    <2>2. /\ u \in Planner => PlanSeen(u)'
      BY <1>1, <2>1, RequestAssumption DEF Seen, PlanSeen, rows
    <2>3. u \in Corrector => CorrectionSeen(u)'
      BY <1>1, <2>1 DEF Seen, CorrectionSeen, rows
    <2>4. u \in Registrar => RegistrationSeen(u)'
      BY <1>1, <2>1 DEF Seen, RegistrationSeen, rows
    <2>5. u \in Reconciler => ReconciliationSeen(u)'
      BY <1>1, <2>1 DEF Seen, ReconciliationSeen, rows
    <2> QED
      BY <2>1, <2>2, <2>3, <2>4, <2>5 DEF Seen, rows
  <1> QED
    BY <1>2, <1>3, <1>4 DEF IInv

LEMMA AbortStep ==
  ASSUME IInv, NEW t \in Tx, OthersKeep(t), Aborted(t), TypeOK'
  PROVE  IInv'
  <1>1. Locked(t)'
    BY DEF Aborted, Locked
  <1>2. Seen(t)'
    BY DEF Aborted, Seen, PlanSeen, CorrectionSeen, RegistrationSeen, ReconciliationSeen, IInv,
           rows
  <1> QED
    BY <1>1, <1>2, QuietStep DEF Aborted

LEMMA AcquireStep ==
  ASSUME IInv, NEW t \in Tx, Acquire(t), TypeOK'
  PROVE  IInv'
  <1>1. /\ OthersKeep(t) /\ UNCHANGED <<pc, rows>>
        /\ \A row \in Row : lock[row] = t => lock'[row] = t
    BY AcquireEffect DEF IInv
  <1>2. Locked(t)'
    <2>1. Locked(t) /\ Registered' = Registered
      BY <1>1 DEF IInv, rows, Registered
    <2>2. /\ OrderRow \in Row /\ RunRow \in Row /\ Registered \subseteq Row
          /\ t \in Planner => PlanOf[t] \subseteq Row
          /\ t \in Reconciler => Decides[t].invoice \in Row
      BY RequestAssumption DEF Row, Registered
    <2> QED
      BY <1>1, <2>1, <2>2 DEF Locked
  <1>3. Seen(t)'
    <2>1. Seen(t) /\ UNCHANGED <<pc, po, goods, inv, claim, line, run>>
      BY <1>1 DEF IInv, rows
    <2> QED
      BY <2>1, StillSeen
  <1> QED
    BY <1>1, <1>2, <1>3, QuietStep
-----------------------------------------------------------------------------
(* The checks of each kind of transaction. *)

\* A transaction passes a statement.
LEMMA PassedStep ==
  ASSUME IInv, NEW t \in Tx, NEW from \in Statement \ {"committed"}, NEW to,
         NEW passed \in BOOLEAN, Check(t, from, to, passed), TypeOK',
         passed /\ Passed(t, from, to) => Locked(t)' /\ Seen(t)'
  PROVE  IInv'
  <1>1. OthersKeep(t) /\ (Aborted(t) \/ (passed /\ Passed(t, from, to)))
    BY CheckEffect DEF IInv
  <1> QED
    BY <1>1, AbortStep, QuietStep DEF Passed

LEMMA PlanChecks ==
  ASSUME IInv, NEW t \in Planner, Plan(t), ~InsertLines(t), TypeOK'
  PROVE  IInv'
  <1>1. t \in Tx /\ t \notin Corrector \cup Recorder \cup Registrar \cup Reconciler
    BY KindAssumption DEF Tx, Corrector
  <1>2. Locked(t) /\ PlanSeen(t) /\ PlanOf[t] \subseteq Invoice
    BY <1>1, RequestAssumption DEF IInv, Seen
  <1>3. UNCHANGED rows => /\ UNCHANGED <<po, goods, inv, claim, line, run>>
                          /\ \A i \in Invoice : LiveClaim(i)' = LiveClaim(i)
    BY DEF rows, LiveClaim
  <1>4. CASE Check(t, "lock invoices", "read invoices", TRUE)
    <2>1. ASSUME Passed(t, "lock invoices", "read invoices")
          PROVE  Locked(t)' /\ Seen(t)'
      <3>1. Rows(t) = PlanOf[t]
        BY <1>1, <2>1 DEF Passed, Rows, PlanRows
      <3>2. \A i \in PlanOf[t] : lock[i] = t
        BY <2>1, <3>1 DEF Passed, Held
      <3> QED
        BY <1>1, <1>3, <2>1, <3>2 DEF Passed, Locked, Seen, PlanSeen
    <2> QED
      BY <1>1, <1>4, <2>1, PassedStep DEF Statement
  <1>5. CASE Check(t, "read invoices", "read po", \A i \in PlanOf[t] : inv[i] = "matched")
    <2>1. ASSUME \A i \in PlanOf[t] : inv[i] = "matched", Passed(t, "read invoices", "read po")
          PROVE  Locked(t)' /\ Seen(t)'
      BY <1>1, <1>2, <1>3, <2>1 DEF Passed, Locked, Seen, PlanSeen
    <2> QED
      BY <1>1, <1>5, <2>1, PassedStep DEF Statement
  <1>6. CASE Check(t, "read po", "read claims", po = "live")
    <2>1. ASSUME po = "live", Passed(t, "read po", "read claims")
          PROVE  Locked(t)' /\ Seen(t)'
      BY <1>1, <1>2, <1>3, <2>1 DEF Passed, Locked, Seen, PlanSeen
    <2> QED
      BY <1>1, <1>6, <2>1, PassedStep DEF Statement
  <1>7. CASE Check(t, "read claims", "insert", \A i \in PlanOf[t] : ~LiveClaim(i))
    <2>1. ASSUME \A i \in PlanOf[t] : ~LiveClaim(i), Passed(t, "read claims", "insert")
          PROVE  Locked(t)' /\ Seen(t)'
      BY <1>1, <1>2, <1>3, <2>1 DEF Passed, Locked, Seen, PlanSeen
    <2> QED
      BY <1>1, <1>7, <2>1, PassedStep DEF Statement
  <1> QED
    BY <1>4, <1>5, <1>6, <1>7 DEF Plan, Pass

\* The statements of assertPoCorrectionAllowed.
LEMMA GuardChecks ==
  ASSUME IInv, NEW t \in Corrector, NEW to \in {"reevaluate", "read receipts"},
         to = "reevaluate" => t \in ReceiptCanceller, CorrectionGuard(t, to), TypeOK'
  PROVE  IInv'
  <1>1. t \in Tx /\ t \notin Planner \cup Recorder \cup Registrar \cup Reconciler
    BY KindAssumption DEF Tx, Corrector
  <1>2. Locked(t) /\ CorrectionSeen(t) /\ (to = "reevaluate" => t \notin OrderCanceller)
    BY <1>1, KindAssumption DEF IInv, Seen
  <1>3. UNCHANGED rows => /\ UNCHANGED <<po, goods, inv, claim, line, run, Registered>>
                          /\ \A i \in Invoice : LiveClaim(i)' = LiveClaim(i)
    BY DEF rows, LiveClaim, Registered
  <1>4. CASE Check(t, "lock invoices", "read paid", TRUE)
    <2>1. ASSUME Passed(t, "lock invoices", "read paid")
          PROVE  Locked(t)' /\ Seen(t)'
      <3>1. Rows(t) = Registered
        BY <1>1, <2>1 DEF Passed, Rows, CorrectionRows
      <3>2. \A i \in Registered : lock[i] = t
        BY <2>1, <3>1 DEF Passed, Held
      <3> QED
        BY <1>1, <1>2, <1>3, <2>1, <3>2 DEF Passed, Locked, Seen, CorrectionSeen
    <2> QED
      BY <1>1, <1>4, <2>1, PassedStep DEF Statement
  <1>5. CASE Check(t, "read paid", "read claims", \A i \in Invoice : inv[i] # "paid")
    <2>1. ASSUME \A i \in Invoice : inv[i] # "paid", Passed(t, "read paid", "read claims")
          PROVE  Locked(t)' /\ Seen(t)'
      BY <1>1, <1>2, <1>3, <2>1 DEF Passed, Locked, Seen, CorrectionSeen
    <2> QED
      BY <1>1, <1>5, <2>1, PassedStep DEF Statement
  <1>6. CASE Check(t, "read claims", to, \A i \in Invoice : ~LiveClaim(i) /\ line[i] # "paid")
    <2>1. ASSUME \A i \in Invoice : ~LiveClaim(i) /\ line[i] # "paid",
                 Passed(t, "read claims", to)
          PROVE  Locked(t)' /\ Seen(t)'
      BY <1>1, <1>2, <1>3, <2>1 DEF Passed, Locked, Seen, CorrectionSeen
    <2> QED
      BY <1>1, <1>6, <2>1, PassedStep DEF Statement
  <1> QED
    BY <1>4, <1>5, <1>6 DEF CorrectionGuard, Pass

LEMMA CancelReceiptChecks ==
  ASSUME IInv, NEW t \in ReceiptCanceller, CancelReceipt(t), ~UncoverInvoices(t), TypeOK'
  PROVE  IInv'
  <1>1. /\ t \in Tx /\ t \in Corrector
        /\ t \notin Planner \cup OrderCanceller \cup Recorder \cup Registrar \cup Reconciler
    BY KindAssumption DEF Tx, Corrector
  <1>2. Locked(t) /\ CorrectionSeen(t)
    BY <1>1 DEF IInv, Seen
  <1>3. CASE Check(t, "read receipt", "lock po", goods = "recorded")
    <2>1. ASSUME Passed(t, "read receipt", "lock po")
          PROVE  Locked(t)' /\ Seen(t)'
      BY <1>1, <2>1 DEF Passed, Locked, Seen, CorrectionSeen
    <2> QED
      BY <1>1, <1>3, <2>1, PassedStep DEF Statement
  <1>4. CASE Check(t, "lock po", "update receipt", TRUE)
    <2>1. ASSUME Passed(t, "lock po", "update receipt")
          PROVE  Locked(t)' /\ Seen(t)'
      BY <1>1, <2>1 DEF Passed, Rows, OrderRows, Held, Locked, Seen, CorrectionSeen
    <2> QED
      BY <1>1, <1>4, <2>1, PassedStep DEF Statement
  <1>5. CASE Check(t, "update receipt", "lock invoices", goods = "recorded")
    <2>1. ASSUME Passed(t, "update receipt", "lock invoices")
          PROVE  Locked(t)' /\ Seen(t)'
      BY <1>1, <1>2, <2>1 DEF Passed, Locked, Seen, CorrectionSeen
    <2> QED
      BY <1>1, <1>5, <2>1, PassedStep DEF Statement
  <1> QED
    BY <1>1, <1>3, <1>4, <1>5, GuardChecks DEF CancelReceipt, Pass

LEMMA CancelOrderChecks ==
  ASSUME IInv, NEW t \in OrderCanceller, CancelOrder(t), ~CancelInvoices(t), TypeOK'
  PROVE  IInv'
  <1>1. /\ t \in Tx /\ t \in Corrector
        /\ t \notin Planner \cup Recorder \cup Registrar \cup Reconciler
    BY KindAssumption DEF Tx, Corrector
  <1>2. Locked(t) /\ CorrectionSeen(t)
    BY <1>1 DEF IInv, Seen
  <1>3. CASE Check(t, "lock po", "read po", TRUE)
    <2>1. ASSUME Passed(t, "lock po", "read po")
          PROVE  Locked(t)' /\ Seen(t)'
      BY <1>1, <2>1 DEF Passed, Rows, OrderRows, Held, Locked, Seen, CorrectionSeen
    <2> QED
      BY <1>1, <1>3, <2>1, PassedStep DEF Statement
  <1>4. CASE Check(t, "read po", "lock invoices", po = "live")
    <2>1. ASSUME Passed(t, "read po", "lock invoices")
          PROVE  Locked(t)' /\ Seen(t)'
      BY <1>1, <1>2, <2>1 DEF Passed, Locked, Seen, CorrectionSeen
    <2> QED
      BY <1>1, <1>4, <2>1, PassedStep DEF Statement
  <1>5. CASE Check(t, "read receipts", "reevaluate", goods # "recorded")
    <2>1. ASSUME goods # "recorded", Passed(t, "read receipts", "reevaluate")
          PROVE  Locked(t)' /\ Seen(t)'
      <3>1. /\ UNCHANGED <<lock, po, goods, inv, claim, line, run, Registered>>
            /\ \A i \in Invoice : LiveClaim(i)' = LiveClaim(i)
        BY <2>1 DEF Passed, rows, LiveClaim, Registered
      <3> QED
        BY <1>1, <1>2, <2>1, <3>1 DEF Passed, Locked, Seen, CorrectionSeen
    <2> QED
      BY <1>1, <1>5, <2>1, PassedStep DEF Statement
  <1> QED
    BY <1>1, <1>3, <1>4, <1>5, GuardChecks DEF CancelOrder, Pass

LEMMA RecordReceiptChecks ==
  ASSUME IInv, NEW t \in Recorder, RecordReceipt(t), ~Rematch(t), TypeOK'
  PROVE  IInv'
  <1>1. t \in Tx /\ t \notin Planner \cup Corrector \cup Registrar \cup Reconciler
    BY KindAssumption DEF Tx, Corrector
  <1>2. Locked(t)
    BY <1>1 DEF IInv
  <1>3. CASE Check(t, "lock po", "read po", TRUE)
    <2>1. ASSUME Passed(t, "lock po", "read po")
          PROVE  Locked(t)' /\ Seen(t)'
      BY <1>1, <2>1 DEF Passed, Rows, OrderRows, Held, Locked, Seen
    <2> QED
      BY <1>1, <1>3, <2>1, PassedStep DEF Statement
  <1>4. CASE Check(t, "read po", "rematch", po = "live" /\ goods = "none")
    <2>1. ASSUME po = "live" /\ goods = "none", Passed(t, "read po", "rematch")
          PROVE  Locked(t)' /\ Seen(t)'
      BY <1>1, <1>2, <2>1 DEF Passed, rows, Locked, Seen
    <2> QED
      BY <1>1, <1>4, <2>1, PassedStep DEF Statement
  <1> QED
    BY <1>3, <1>4 DEF RecordReceipt, Pass

LEMMA RegisterChecks ==
  ASSUME IInv, NEW t \in Registrar, Register(t), TypeOK',
         \A status \in {"received", "matched", "exception"} : ~InsertInvoice(t, status)
  PROVE  IInv'
  <1>1. t \in Tx /\ t \notin Planner \cup Corrector \cup Recorder \cup Reconciler
    BY KindAssumption DEF Tx, Corrector
  <1>2. Locked(t) /\ RegistrationSeen(t)
    BY <1>1 DEF IInv, Seen
  <1>3. CASE Check(t, "lock po", "match", TRUE)
    <2>1. ASSUME Passed(t, "lock po", "match")
          PROVE  Locked(t)' /\ Seen(t)'
      BY <1>1, <1>2, <2>1 DEF Passed, Rows, OrderRows, Held, rows, Locked, Seen, RegistrationSeen
    <2> QED
      BY <1>1, <1>3, <2>1, PassedStep DEF Statement
  <1>4. CASE Check(t, "match", MatchStatus, TRUE)
    <2>1. ASSUME Passed(t, "match", MatchStatus)
          PROVE  Locked(t)' /\ Seen(t)'
      <3>1. /\ pc'[t] # "committed"
            /\ pc'[t] = "matched" => po = "live" /\ goods = "recorded" /\ Cardinality(Reserved) < Cover
        BY <2>1 DEF Passed, MatchStatus
      <3>2. Reserved' = Reserved /\ UNCHANGED <<lock, po, goods, inv>> /\ pc[t] = "match"
        BY <2>1 DEF Passed, rows, Reserved
      <3> QED
        BY <1>1, <1>2, <3>1, <3>2 DEF Locked, Seen, RegistrationSeen
    <2> QED
      BY <1>1, <1>4, <2>1, PassedStep DEF Statement
  <1> QED
    BY <1>3, <1>4 DEF Register, Pass

LEMMA ReconcileChecks ==
  ASSUME IInv, NEW t \in Reconciler, Reconcile(t), TypeOK',
         \A last \in {"keep open", "close"} : ~DecideLine(t, last)
  PROVE  IInv'
  <1> DEFINE i == Decides[t].invoice
             verdict == Decides[t].verdict
             after == IF verdict = "paid" THEN "settle" ELSE "count"
             last == IF \E j \in Invoice \ {i} : line[j] = "planned" THEN "keep open" ELSE "close"
  <1>1. /\ t \in Tx /\ t \notin Planner \cup Corrector \cup Recorder \cup Registrar
        /\ i \in Invoice
    BY KindAssumption, RequestAssumption DEF Tx, Corrector
  <1>2. Locked(t) /\ ReconciliationSeen(t)
    BY <1>1 DEF IInv, Seen
  <1>3. CASE Check(t, "lock run", "read run", TRUE)
    <2>1. ASSUME Passed(t, "lock run", "read run")
          PROVE  Locked(t)' /\ Seen(t)'
      BY <1>1, <2>1 DEF Passed, Rows, RunRows, Held, Locked, Seen, ReconciliationSeen
    <2> QED
      BY <1>1, <1>3, <2>1, PassedStep DEF Statement
  <1>4. CASE Check(t, "read run", "update line", run = "executed")
    <2>1. ASSUME Passed(t, "read run", "update line")
          PROVE  Locked(t)' /\ Seen(t)'
      BY <1>1, <1>2, <2>1 DEF Passed, Locked, Seen, ReconciliationSeen
    <2> QED
      BY <1>1, <1>4, <2>1, PassedStep DEF Statement
  <1>5. CASE Check(t, "update line", after, line[i] = "planned")
    <2>1. ASSUME line[i] = "planned", Passed(t, "update line", after)
          PROVE  Locked(t)' /\ Seen(t)'
      BY <1>1, <1>2, <2>1 DEF Passed, rows, Locked, Seen, ReconciliationSeen
    <2> QED
      BY <1>1, <1>5, <2>1, PassedStep DEF Statement
  <1>6. CASE Check(t, "settle", "count", TRUE)
    <2>1. ASSUME Passed(t, "settle", "count")
          PROVE  Locked(t)' /\ Seen(t)'
      <3>1. lock[i] = t
        BY <1>1, <2>1 DEF Passed, Rows, Held
      <3> QED
        BY <1>1, <1>2, <2>1, <3>1 DEF Passed, rows, Locked, Seen, ReconciliationSeen
    <2> QED
      BY <1>1, <1>6, <2>1, PassedStep DEF Statement
  <1>7. CASE Check(t, "count", last, TRUE)
    <2>1. ASSUME Passed(t, "count", last)
          PROVE  Locked(t)' /\ Seen(t)'
      BY <1>1, <1>2, <2>1 DEF Passed, rows, Locked, Seen, ReconciliationSeen
    <2> QED
      BY <1>1, <1>7, <2>1, PassedStep DEF Statement
  <1> QED
    BY <1>3, <1>4, <1>5, <1>6, <1>7 DEF Reconcile, Pass
-----------------------------------------------------------------------------
(* Commits. *)

\* What the others have locked when t commits: only a registration adds an invoice, and
\* no correction that has locked the invoices goes on meanwhile.
LEMMA LocksAtCommit ==
  ASSUME IInv, NEW t \in Tx, OthersKeep(t), pc'[t] = "committed",
         Registered' = Registered \/ (t \in Registrar /\ lock[OrderRow] = t)
  PROVE  \A u \in Tx : Locked(u)'
  <1> SUFFICES ASSUME NEW u \in Tx
               PROVE  Locked(u)'
    OBVIOUS
  <1>1. CASE u = t
    BY <1>1 DEF Locked
  <1>2. CASE u # t
    <2>1. Locked(u) /\ pc'[u] = pc[u] /\ \A row \in Row : lock[row] = u => lock'[row] = u
      BY <1>2 DEF IInv, OthersKeep
    <2>2. /\ OrderRow \in Row /\ RunRow \in Row /\ Registered \subseteq Row
          /\ u \in Planner => PlanOf[u] \subseteq Row
          /\ u \in Reconciler => Decides[u].invoice \in Row
      BY RequestAssumption DEF Row, Registered
    <2>3. CASE Registered' = Registered
      BY <2>1, <2>2, <2>3 DEF Locked
    <2>4. CASE lock[OrderRow] = t
      <3>1. ~(u \in Corrector /\ pc[u] \in {"read paid", "read claims", "read receipts", "reevaluate"})
        BY <1>2, <2>1, <2>4 DEF Locked
      <3> QED
        BY <2>1, <2>2, <3>1 DEF Locked
    <2> QED
      BY <2>3, <2>4
  <1> QED
    BY <1>1, <1>2

LEMMA InsertLinesStep ==
  ASSUME IInv, NEW t \in Planner, InsertLines(t), TypeOK'
  PROVE  IInv'
  <1>1. /\ t \in Tx /\ t \notin Corrector \cup Recorder \cup Registrar \cup Reconciler
        /\ PlanOf[t] \subseteq Invoice
    BY KindAssumption, RequestAssumption DEF Tx, Corrector
  <1>2. /\ OthersKeep(t) /\ pc[t] = "insert" /\ pc'[t] = "committed"
        /\ claim' = [claim EXCEPT ![t] = [i \in Invoice |-> IF i \in PlanOf[t] THEN "planned"
                                                                            ELSE "none"]]
        /\ UNCHANGED <<po, goods, inv, line, run>>
    BY <1>1, CommitEffect DEF InsertLines, IInv, Statement
  <1>3. /\ \A i \in PlanOf[t] : lock[i] = t /\ inv[i] = "matched"
        /\ PlanOf[t] \subseteq Registered
    BY <1>1, <1>2 DEF IInv, Locked, Seen, PlanSeen, Registered
  <1>4. \A i \in Invoice : LiveClaim(i)' => LiveClaim(i) \/ i \in PlanOf[t]
    BY <1>1, <1>2 DEF LiveClaim, IInv, TypeOK
  <1>5. \A u \in Tx : Locked(u)'
    BY <1>1, <1>2, LocksAtCommit DEF Registered
  <1>6. ASSUME NEW u \in Tx
        PROVE  Seen(u)'
    <2>1. CASE u = t
      BY <1>1, <1>2, <2>1 DEF Seen, PlanSeen
    <2>2. CASE u # t
      <3>1. Locked(u) /\ Seen(u) /\ pc'[u] = pc[u]
        BY <1>2, <2>2 DEF IInv, OthersKeep
      <3>2. ASSUME u \in Planner
            PROVE  PlanSeen(u)'
        <4>1. PlanSeen(u) /\ PlanOf[u] \subseteq Invoice /\ PlanOf[u] # {}
          BY <3>1, <3>2, RequestAssumption DEF Seen
        <4>2. pc[u] = "insert" => \A i \in PlanOf[u] : i \notin PlanOf[t]
          BY <1>3, <2>2, <3>1, <3>2 DEF Locked
        <4> QED
          BY <1>2, <1>4, <3>1, <4>1, <4>2 DEF PlanSeen
      <3>3. ASSUME u \in Corrector
            PROVE  CorrectionSeen(u)'
        <4>1. pc[u] \in {"read receipts", "reevaluate"} => PlanOf[t] = {}
          BY <1>3, <2>2, <3>1, <3>3 DEF Locked
        <4> QED
          BY <1>2, <1>4, <3>1, <3>3, <4>1 DEF Seen, CorrectionSeen
      <3>4. u \in Registrar => RegistrationSeen(u)'
        BY <1>2, <3>1 DEF Seen, RegistrationSeen, Reserved
      <3>5. u \in Reconciler => ReconciliationSeen(u)'
        BY <1>2, <3>1 DEF Seen, ReconciliationSeen
      <3> QED
        BY <1>2, <3>1, <3>2, <3>3, <3>4, <3>5 DEF Seen
    <2> QED
      BY <2>1, <2>2
  <1>7. RowsInv'
    BY <1>2 DEF IInv, RowsInv, EligibleIsCovered, ClosedWithLastLine, GoodsInv, LineInv, Reserved
  <1> QED
    BY <1>5, <1>6, <1>7 DEF IInv

\* Both corrections end in a reevaluation that demotes what was matched.
LEMMA ReevaluateStep ==
  ASSUME IInv, NEW t \in Corrector, End(t, "reevaluate", "committed"), TypeOK',
         NEW status \in {"received", "exception"}, inv' = Demoted(status),
         UNCHANGED <<claim, line, run>>
  PROVE  IInv'
  <1>1. t \in Tx /\ t \notin Planner \cup Recorder \cup Registrar \cup Reconciler
    BY KindAssumption DEF Tx, Corrector
  <1>2. OthersKeep(t) /\ pc[t] = "reevaluate" /\ pc'[t] = "committed"
    BY <1>1, CommitEffect DEF IInv, Statement
  <1>3. /\ lock[OrderRow] = t /\ \A i \in Registered : lock[i] = t
        /\ \A i \in Invoice : inv[i] # "paid" /\ ~LiveClaim(i) /\ line[i] # "paid"
    BY <1>1, <1>2 DEF IInv, Locked, Seen, CorrectionSeen
  <1>4. /\ \A i \in Invoice : inv'[i] = IF inv[i] = "matched" THEN status ELSE inv[i]
        /\ Registered' = Registered /\ Reserved' = {}
        /\ \A i \in Invoice : ~LiveClaim(i)'
    BY <1>3 DEF Demoted, Registered, Reserved, LiveClaim
  <1>5. \A u \in Tx : Locked(u)'
    BY <1>1, <1>2, <1>4, LocksAtCommit
  <1>6. ASSUME NEW u \in Tx
        PROVE  Seen(u)'
    <2>1. CASE u = t
      BY <1>1, <1>2, <2>1 DEF Seen, CorrectionSeen
    <2>2. CASE u # t
      <3>1. Locked(u) /\ Seen(u) /\ pc'[u] = pc[u]
        BY <1>2, <2>2 DEF IInv, OthersKeep
      <3>2. u \in Corrector \cup Recorder \cup Registrar
              => pc[u] \in {"read receipt", "lock po", "committed", "aborted"}
        BY <1>3, <2>2, <3>1 DEF Locked
      <3>3. ASSUME u \in Planner
            PROVE  PlanSeen(u)'
        <4>1. PlanSeen(u) /\ PlanOf[u] \subseteq Invoice /\ PlanOf[u] # {}
          BY <3>1, <3>3, RequestAssumption DEF Seen
        <4>2. ASSUME pc[u] \in {"read po", "read claims", "insert"}, NEW i \in PlanOf[u]
              PROVE  FALSE
          <5>1. i \in Registered /\ lock[i] = u
            BY <3>1, <3>3, <4>1, <4>2 DEF PlanSeen, Registered, Locked
          <5> QED
            BY <1>3, <2>2, <5>1
        <4> QED
          BY <3>1, <4>1, <4>2 DEF PlanSeen
      <3>4. u \in Registrar => RegistrationSeen(u)'
        BY <1>4, <3>1, <3>2, RequestAssumption DEF Seen, RegistrationSeen
      <3>5. u \in Reconciler => ReconciliationSeen(u)'
        BY <3>1 DEF Seen, ReconciliationSeen
      <3> QED
        BY <3>1, <3>2, <3>3, <3>4, <3>5 DEF Seen, CorrectionSeen
    <2> QED
      BY <2>1, <2>2
  <1>7. RowsInv'
    <2>1. Cardinality(Reserved') = 0 /\ Cover \in Nat
      BY <1>4, FS_EmptySet, InvoiceAssumption
    <2>2. \A i \in Invoice : inv'[i] # "matched" /\ line[i] # "planned"
      BY <1>3, <1>4 DEF LiveClaim
    <2> QED
      BY <1>4, <2>1, <2>2 DEF IInv, RowsInv, EligibleIsCovered, ClosedWithLastLine, GoodsInv,
                              LineInv
  <1> QED
    BY <1>5, <1>6, <1>7 DEF IInv

\* A set of natural numbers that is not empty has a least one.
LEMMA LeastNumber ==
  ASSUME NEW S, S \subseteq Nat, S # {}
  PROVE  \E x \in S : \A y \in S : x <= y
  <1>1. PICK x \in S : \A y \in S : ~(<<y, x>> \in OpToRel(<, Nat))
    BY NatLessThanWellFounded, WFMin
  <1>2. \A y \in S : ~(y < x)
    BY <1>1 DEF OpToRel
  <1> QED
    BY <1>2

\* The goods go to as many waiting invoices as they cover: the last one that gets any has
\* all the others before it.
LEMMA FirstCoveredBounded ==
  ASSUME TypeOK
  PROVE  FirstCovered \subseteq Waiting /\ Cardinality(FirstCovered) <= Cover
  <1> DEFINE Before(i) == {j \in Waiting : Arrival[j] < Arrival[i]}
             Left == {Cover - Cardinality(Before(i)) : i \in FirstCovered}
  <1>1. /\ Waiting \subseteq Invoice /\ IsFiniteSet(Waiting)
        /\ FirstCovered \subseteq Waiting /\ IsFiniteSet(FirstCovered)
        /\ Cover \in Nat
    BY InvoiceAssumption, FS_Subset DEF Waiting, FirstCovered
  <1>2. \A i : IsFiniteSet(Before(i)) /\ Cardinality(Before(i)) \in Nat
    BY <1>1, FS_Subset, FS_CardinalityType
  <1>3. \A i \in FirstCovered : Cardinality(Before(i)) < Cover
    BY DEF FirstCovered
  <1>4. CASE FirstCovered = {}
    BY <1>1, <1>4, FS_EmptySet
  <1>5. CASE FirstCovered # {}
    <2> HIDE DEF Before
    <2>1. Left \subseteq Nat /\ Left # {}
      BY <1>1, <1>2, <1>3, <1>5
    <2>2. PICK n \in Left : \A m \in Left : n <= m
      BY <2>1, LeastNumber
    <2>3. PICK i \in FirstCovered : n = Cover - Cardinality(Before(i))
      BY <2>2
    <2>4. ASSUME NEW j \in FirstCovered
          PROVE  Cardinality(Before(j)) <= Cardinality(Before(i))
      <3>1. n <= Cover - Cardinality(Before(j))
        BY <2>2
      <3>2. Cardinality(Before(j)) \in Nat /\ Cardinality(Before(i)) \in Nat
        BY <1>2
      <3> QED
        BY <1>1, <2>3, <3>1, <3>2
    <2>5. ASSUME NEW j \in FirstCovered, j # i
          PROVE  j \in Before(i)
      <3>1. /\ i \in Waiting /\ j \in Waiting /\ Arrival[i] # Arrival[j]
            /\ Arrival[i] \in Nat /\ Arrival[j] \in Nat
            /\ \A x \in Waiting : Arrival[x] \in Nat
        BY <1>1, <2>5, InvoiceAssumption
      <3>2. ASSUME Arrival[i] < Arrival[j]
            PROVE  FALSE
        <4>1. Before(i) \cup {i} \subseteq Before(j)
          BY <3>1, <3>2 DEF Before
        <4>2. i \notin Before(i)
          BY <3>1 DEF Before
        <4>3. Cardinality(Before(i) \cup {i}) = Cardinality(Before(i)) + 1
          BY <1>2, <4>2, FS_AddElement
        <4>4. Cardinality(Before(i) \cup {i}) <= Cardinality(Before(j))
          BY <1>2, <4>1, FS_Subset
        <4> QED
          BY <1>2, <2>4, <2>5, <4>3, <4>4
      <3> QED
        BY <3>1, <3>2 DEF Before
    <2>6. FirstCovered \subseteq Before(i) \cup {i}
      BY <2>5
    <2>7. /\ IsFiniteSet(Before(i) \cup {i})
          /\ Cardinality(Before(i) \cup {i}) <= Cardinality(Before(i)) + 1
      <3>1. IsFiniteSet(Before(i)) /\ Cardinality(Before(i)) \in Nat
        BY <1>2
      <3>2. /\ IsFiniteSet(Before(i) \cup {i})
            /\ Cardinality(Before(i) \cup {i}) = IF i \in Before(i) THEN Cardinality(Before(i))
                                                 ELSE Cardinality(Before(i)) + 1
        BY <3>1, FS_AddElement
      <3> QED
        BY <3>1, <3>2
    <2>8. Cardinality(FirstCovered) <= Cardinality(Before(i) \cup {i})
      BY <2>6, <2>7, FS_Subset
    <2>9. /\ Cardinality(FirstCovered) \in Nat /\ Cardinality(Before(i) \cup {i}) \in Nat
      BY <1>1, <2>7, FS_CardinalityType
    <2> QED
      BY <1>1, <1>2, <1>3, <2>7, <2>8, <2>9
  <1> QED
    BY <1>4, <1>5

LEMMA RematchStep ==
  ASSUME IInv, NEW t \in Recorder, Rematch(t), TypeOK'
  PROVE  IInv'
  <1>1. t \in Tx /\ t \notin Planner \cup Corrector \cup Registrar \cup Reconciler
    BY KindAssumption DEF Tx, Corrector
  <1>2. /\ OthersKeep(t) /\ pc[t] = "rematch" /\ pc'[t] = "committed"
        /\ goods' = "recorded"
        /\ UNCHANGED <<po, claim, line, run>>
    BY <1>1, CommitEffect DEF Rematch, IInv, Statement
  <1>3. /\ lock[OrderRow] = t /\ po = "live" /\ goods = "none"
        /\ Reserved = {}
    BY <1>1, <1>2 DEF IInv, Locked, Seen, RowsInv, GoodsInv
  <1>4. /\ \A i \in Invoice : inv'[i] = IF i \notin Waiting THEN inv[i]
                                      ELSE IF i \in FirstCovered THEN "matched" ELSE "exception"
        /\ \A i \in Invoice : i \in Waiting <=> inv[i] = "received"
        /\ \A i \in Invoice : inv[i] \notin {"matched", "paid"}
    BY <1>3 DEF Rematch, Waiting, Reserved
  <1>5. /\ Registered' = Registered /\ Reserved' = FirstCovered
        /\ \A i \in Invoice : LiveClaim(i)' = LiveClaim(i) /\ inv'[i] # "paid"
    <2>1. FirstCovered \subseteq Waiting /\ Waiting \subseteq Invoice
      BY DEF FirstCovered, Waiting
    <2> QED
      BY <1>2, <1>4, <2>1 DEF Registered, Reserved, LiveClaim
  <1>6. \A u \in Tx : Locked(u)'
    BY <1>1, <1>2, <1>5, LocksAtCommit
  <1>7. ASSUME NEW u \in Tx
        PROVE  Seen(u)'
    <2>1. CASE u = t
      BY <1>1, <1>2, <2>1 DEF Seen
    <2>2. CASE u # t
      <3>1. Locked(u) /\ Seen(u) /\ pc'[u] = pc[u]
        BY <1>2, <2>2 DEF IInv, OthersKeep
      <3>2. u \in Corrector \cup Recorder \cup Registrar
              => pc[u] \in {"read receipt", "lock po", "committed", "aborted"}
        BY <1>3, <2>2, <3>1 DEF Locked
      <3>3. ASSUME u \in Planner
            PROVE  PlanSeen(u)'
        <4>1. PlanSeen(u) /\ PlanOf[u] \subseteq Invoice /\ PlanOf[u] # {}
          BY <3>1, <3>3, RequestAssumption DEF Seen
        <4> QED
          BY <1>4, <3>1, <4>1 DEF PlanSeen
      <3>4. u \in Registrar => RegistrationSeen(u)'
        BY <1>4, <3>1, <3>2, RequestAssumption DEF Seen, RegistrationSeen
      <3>5. u \in Reconciler => ReconciliationSeen(u)'
        BY <1>2, <3>1 DEF Seen, ReconciliationSeen
      <3> QED
        BY <3>1, <3>2, <3>3, <3>4, <3>5 DEF Seen, CorrectionSeen
    <2> QED
      BY <2>1, <2>2
  <1>8. RowsInv'
    <2>1. Cardinality(Reserved') <= Cover
      BY <1>5, FirstCoveredBounded DEF IInv
    <2>2. \A i \in Invoice : line'[i] # "planned"
      BY <1>2, <1>4 DEF IInv, RowsInv, LineInv
    <2> QED
      BY <1>2, <1>3, <2>1, <2>2 DEF IInv, RowsInv, EligibleIsCovered, ClosedWithLastLine,
                                    GoodsInv, LineInv
  <1> QED
    BY <1>6, <1>7, <1>8 DEF IInv

LEMMA InsertInvoiceStep ==
  ASSUME IInv, NEW t \in Registrar, NEW status \in {"received", "matched", "exception"},
         InsertInvoice(t, status), TypeOK'
  PROVE  IInv'
  <1> DEFINE r == Registers[t]
  <1>1. /\ t \in Tx /\ t \notin Planner \cup Corrector \cup Recorder \cup Reconciler
        /\ r \in Invoice
    BY KindAssumption, RequestAssumption DEF Tx, Corrector
  <1>2. /\ OthersKeep(t) /\ pc[t] = status /\ pc'[t] = "committed"
        /\ \A i \in Invoice : inv'[i] = IF i = r THEN status ELSE inv[i]
        /\ UNCHANGED <<po, goods, claim, line, run>>
    <2>1. OthersKeep(t) /\ pc[t] = status /\ pc'[t] = "committed"
      BY <1>1, CommitEffect DEF InsertInvoice, IInv, Statement
    <2> QED
      BY <1>1, <2>1 DEF InsertInvoice, IInv, TypeOK
  <1>3. /\ lock[OrderRow] = t /\ inv[r] = "none"
        /\ status = "matched" => /\ po = "live" /\ goods = "recorded"
                                 /\ Cardinality(Reserved) < Cover
    <2>1. Locked(t) /\ RegistrationSeen(t)
      BY <1>1 DEF IInv, Seen
    <2> QED
      BY <1>1, <1>2, <2>1 DEF Locked, RegistrationSeen
  <1>4. \A i \in Invoice : LiveClaim(i)' = LiveClaim(i)
    BY <1>2 DEF LiveClaim
  <1>5. \A u \in Tx : Locked(u)'
    BY <1>1, <1>2, <1>3, LocksAtCommit
  <1>6. ASSUME NEW u \in Tx
        PROVE  Seen(u)'
    <2>1. CASE u = t
      BY <1>1, <1>2, <2>1 DEF Seen, RegistrationSeen
    <2>2. CASE u # t
      <3>1. Locked(u) /\ Seen(u) /\ pc'[u] = pc[u]
        BY <1>2, <2>2 DEF IInv, OthersKeep
      <3>2. u \in Corrector \cup Recorder \cup Registrar
              => pc[u] \in {"read receipt", "lock po", "committed", "aborted"}
        BY <1>3, <2>2, <3>1 DEF Locked
      <3>3. ASSUME u \in Planner
            PROVE  PlanSeen(u)'
        <4>1. PlanSeen(u) /\ PlanOf[u] \subseteq Invoice /\ PlanOf[u] # {}
          BY <3>1, <3>3, RequestAssumption DEF Seen
        <4> QED
          BY <1>2, <1>3, <1>4, <3>1, <4>1 DEF PlanSeen
      <3>4. ASSUME u \in Registrar
            PROVE  RegistrationSeen(u)'
        <4>1. Registers[u] \in Invoice /\ Registers[u] # r
          BY <2>2, <3>4, RequestAssumption
        <4> QED
          BY <1>2, <3>1, <3>2, <3>4, <4>1 DEF Seen, RegistrationSeen
      <3>5. u \in Reconciler => ReconciliationSeen(u)'
        BY <1>2, <3>1 DEF Seen, ReconciliationSeen
      <3> QED
        BY <3>1, <3>2, <3>3, <3>4, <3>5 DEF Seen, CorrectionSeen
    <2> QED
      BY <2>1, <2>2
  <1>7. /\ Reserved' = IF status = "matched" THEN Reserved \cup {r} ELSE Reserved
        /\ IsFiniteSet(Reserved) /\ r \notin Reserved
    <2>1. IsFiniteSet(Reserved)
      BY InvoiceAssumption, FS_Subset DEF Reserved
    <2>2. r \notin Reserved
      BY <1>3 DEF Reserved
    <2>3. Reserved' = IF status = "matched" THEN Reserved \cup {r} ELSE Reserved
      BY <1>1, <1>2, <1>3 DEF Reserved
    <2> QED
      BY <2>1, <2>2, <2>3
  <1>8. Cardinality(Reserved') <= Cover
    <2>1. Cardinality(Reserved) <= Cover /\ Cardinality(Reserved) \in Nat /\ Cover \in Nat
      BY <1>7, FS_CardinalityType, InvoiceAssumption DEF IInv, RowsInv, EligibleIsCovered
    <2>2. Cardinality(Reserved \cup {r}) = Cardinality(Reserved) + 1
      BY <1>7, FS_AddElement
    <2> QED
      BY <1>3, <1>7, <2>1, <2>2
  <1>9. RowsInv'
    <2>1. EligibleIsCovered'
      BY <1>2, <1>3, <1>8 DEF IInv, RowsInv, EligibleIsCovered
    <2>2. GoodsInv'
      BY <1>2, <1>3, <1>7 DEF IInv, RowsInv, GoodsInv
    <2> QED
      BY <1>2, <1>3, <2>1, <2>2 DEF IInv, RowsInv, ClosedWithLastLine, LineInv
  <1> QED
    BY <1>5, <1>6, <1>9 DEF IInv

LEMMA DecideLineStep ==
  ASSUME IInv, NEW t \in Reconciler, NEW last \in {"keep open", "close"}, DecideLine(t, last),
         TypeOK'
  PROVE  IInv'
  <1> DEFINE d == Decides[t].invoice
             verdict == Decides[t].verdict
  <1>1. /\ t \in Tx /\ t \notin Planner \cup Corrector \cup Recorder \cup Registrar
        /\ d \in Invoice /\ verdict \in {"paid", "dishonored"}
    BY KindAssumption, RequestAssumption DEF Tx, Corrector
  <1>2. /\ OthersKeep(t) /\ pc[t] = last /\ pc'[t] = "committed"
        /\ \A i \in Invoice : line'[i] = IF i = d THEN verdict ELSE line[i]
        /\ \A i \in Invoice : inv'[i] = IF i = d /\ verdict = "paid" THEN "paid" ELSE inv[i]
        /\ run' = IF last = "close" THEN "reconciled" ELSE run
        /\ UNCHANGED <<po, goods, claim>>
    <2>1. OthersKeep(t) /\ pc[t] = last /\ pc'[t] = "committed"
      BY <1>1, CommitEffect DEF DecideLine, IInv, Statement
    <2> QED
      BY <1>1, <2>1 DEF DecideLine, IInv, TypeOK
  <1>3. /\ lock[RunRow] = t /\ line[d] = "planned" /\ inv[d] = "matched"
        /\ verdict = "paid" => lock[d] = t
        /\ last = "keep open" => \E j \in Invoice \ {d} : line[j] = "planned"
    <2>1. Locked(t) /\ ReconciliationSeen(t)
      BY <1>1 DEF IInv, Seen
    <2> QED
      BY <1>1, <1>2, <2>1 DEF Locked, ReconciliationSeen, IInv, RowsInv, LineInv
  <1>4. /\ \A i \in Invoice : LiveClaim(i)' => LiveClaim(i)
        /\ LiveClaim(d)
        /\ Registered' = Registered /\ Reserved' = Reserved /\ d \in Registered
    <2>1. \A i \in Invoice : LiveClaim(i)' => LiveClaim(i)
      BY <1>1, <1>2 DEF LiveClaim
    <2>2. LiveClaim(d)
      BY <1>3 DEF LiveClaim
    <2>3. Registered' = Registered /\ d \in Registered
      <3>1. d \in Registered
        BY <1>1, <1>3 DEF Registered
      <3>2. \A i \in Invoice : inv'[i] # "none" <=> inv[i] # "none"
        BY <1>2, <1>3
      <3> QED
        BY <3>1, <3>2 DEF Registered
    <2>4. Reserved' = Reserved
      BY <1>1, <1>2, <1>3 DEF Reserved
    <2> QED
      BY <2>1, <2>2, <2>3, <2>4
  <1>5. \A u \in Tx : Locked(u)'
    BY <1>1, <1>2, <1>4, LocksAtCommit
  <1>6. ASSUME NEW u \in Tx
        PROVE  Seen(u)'
    <2>1. CASE u = t
      BY <1>1, <1>2, <2>1 DEF Seen, ReconciliationSeen
    <2>2. CASE u # t
      <3>1. Locked(u) /\ Seen(u) /\ pc'[u] = pc[u]
        BY <1>2, <2>2 DEF IInv, OthersKeep
      <3>2. ASSUME u \in Planner
            PROVE  PlanSeen(u)'
        <4>1. PlanSeen(u) /\ PlanOf[u] \subseteq Invoice /\ PlanOf[u] # {}
          BY <3>1, <3>2, RequestAssumption DEF Seen
        <4>2. pc[u] \in {"read po", "read claims", "insert"} /\ verdict = "paid" => d \notin PlanOf[u]
          BY <1>3, <2>2, <3>1, <3>2 DEF Locked
        <4> QED
          BY <1>2, <1>4, <3>1, <4>1, <4>2 DEF PlanSeen
      <3>3. ASSUME u \in Corrector
            PROVE  CorrectionSeen(u)'
        <4>1. CorrectionSeen(u)
          BY <3>1, <3>3 DEF Seen
        <4>2. pc[u] \in {"read claims", "read receipts", "reevaluate"} => verdict # "paid"
          BY <1>3, <1>4, <2>2, <3>1, <3>3 DEF Locked
        <4>3. pc[u] \notin {"read receipts", "reevaluate"}
          BY <1>1, <1>4, <4>1 DEF CorrectionSeen
        <4> QED
          BY <1>2, <3>1, <4>1, <4>2, <4>3 DEF CorrectionSeen
      <3>4. u \in Registrar => RegistrationSeen(u)'
        BY <1>2, <1>3, <1>4, <3>1, RequestAssumption DEF Seen, RegistrationSeen
      <3>5. u \in Reconciler => ReconciliationSeen(u)'
        <4>1. u \in Reconciler => pc[u] \in {"lock run", "committed", "aborted"}
          BY <1>3, <2>2, <3>1 DEF Locked
        <4> QED
          BY <3>1, <4>1 DEF ReconciliationSeen
      <3> QED
        BY <1>2, <3>1, <3>2, <3>3, <3>4, <3>5 DEF Seen
    <2> QED
      BY <2>1, <2>2
  <1>7. RowsInv'
    <2>1. EligibleIsCovered' /\ GoodsInv'
      BY <1>2, <1>4 DEF IInv, RowsInv, EligibleIsCovered, GoodsInv
    <2>2. LineInv'
      BY <1>1, <1>2 DEF IInv, RowsInv, LineInv
    <2>3. ClosedWithLastLine'
      <3>1. CASE last = "keep open"
        BY <1>2, <1>3, <3>1 DEF ClosedWithLastLine
      <3>2. CASE last = "close"
        BY <1>2, <3>2 DEF ClosedWithLastLine
      <3> QED
        BY <3>1, <3>2
    <2> QED
      BY <2>1, <2>2, <2>3 DEF RowsInv
  <1> QED
    BY <1>5, <1>6, <1>7 DEF IInv
-----------------------------------------------------------------------------
(* Type correctness, the initial states and the next-state relation. *)

ControlOK == pc \in [Tx -> Statement] /\ lock \in [Row -> Tx \cup {Nobody}]

LEMMA CheckType ==
  ASSUME TypeOK, NEW t \in Tx, NEW from, NEW to \in Statement, NEW passed, Check(t, from, to, passed)
  PROVE  TypeOK'
  <1>1. UNCHANGED <<po, goods, inv, claim, line, run>>
    BY DEF Check, rows
  <1>2. CASE passed
    <2>1. pc' = [pc EXCEPT ![t] = to] /\ lock' = lock
      BY <1>2 DEF Check, Go
    <2> QED
      BY <1>1, <2>1 DEF TypeOK
  <1>3. CASE ~passed
    <2>1. /\ pc' = [pc EXCEPT ![t] = "aborted"]
          /\ lock' = [row \in Row |-> IF lock[row] = t THEN Nobody ELSE lock[row]]
      BY <1>3 DEF Check, End, Go
    <2>2. ControlOK'
      BY <2>1 DEF TypeOK, ControlOK, Statement
    <2> QED
      BY <1>1, <2>2 DEF TypeOK, ControlOK
  <1> QED
    BY <1>2, <1>3

LEMMA CommitType ==
  ASSUME TypeOK, NEW t \in Tx, NEW from, End(t, from, "committed")
  PROVE  ControlOK'
  <1>1. /\ pc' = [pc EXCEPT ![t] = "committed"]
        /\ lock' = [row \in Row |-> IF lock[row] = t THEN Nobody ELSE lock[row]]
    BY DEF End, Go
  <1> QED
    BY <1>1 DEF TypeOK, ControlOK, Statement

LEMMA PlanType ==
  ASSUME TypeOK, NEW t \in Planner, Plan(t)
  PROVE  TypeOK'
  <1>1. t \in Tx
    BY DEF Tx
  <1>2. CASE InsertLines(t)
    <2>1. ControlOK'
      BY <1>1, <1>2, CommitType DEF InsertLines
    <2> QED
      BY <1>2, <2>1 DEF InsertLines, ControlOK, TypeOK
  <1>3. CASE ~InsertLines(t)
    BY <1>1, <1>3, CheckType DEF Plan, Pass, Statement
  <1> QED
    BY <1>2, <1>3

LEMMA CorrectionType ==
  ASSUME TypeOK, NEW t \in Corrector,
         \/ t \in ReceiptCanceller /\ CancelReceipt(t)
         \/ t \in OrderCanceller /\ CancelOrder(t)
  PROVE  TypeOK'
  <1>1. t \in Tx
    BY DEF Tx, Corrector
  <1>2. ASSUME End(t, "reevaluate", "committed"), NEW status \in {"received", "exception"},
               inv' = Demoted(status), po' \in {"live", "cancelled"},
               goods' \in {"none", "recorded", "cancelled"}, UNCHANGED <<claim, line, run>>
        PROVE  TypeOK'
    <2>1. ControlOK'
      BY <1>1, <1>2, CommitType
    <2> QED
      BY <1>2, <2>1 DEF ControlOK, TypeOK, Demoted
  <1>3. CASE UncoverInvoices(t)
    BY <1>2, <1>3 DEF UncoverInvoices, TypeOK
  <1>4. CASE CancelInvoices(t)
    BY <1>2, <1>4 DEF CancelInvoices, TypeOK
  <1>5. ASSUME NEW to \in Statement, CorrectionGuard(t, to)
        PROVE  TypeOK'
    BY <1>1, <1>5, CheckType DEF CorrectionGuard, Pass, Statement
  <1>6. CASE CancelReceipt(t) /\ ~UncoverInvoices(t)
    BY <1>1, <1>5, <1>6, CheckType DEF CancelReceipt, Pass, Statement
  <1>7. CASE CancelOrder(t) /\ ~CancelInvoices(t)
    BY <1>1, <1>5, <1>7, CheckType DEF CancelOrder, Pass, Statement
  <1> QED
    BY <1>3, <1>4, <1>6, <1>7

LEMMA InvoiceType ==
  ASSUME TypeOK, NEW t \in Tx,
         RecordReceipt(t) \/ Register(t)
  PROVE  TypeOK'
  <1>1. CASE Rematch(t)
    <2>1. ControlOK'
      BY <1>1, CommitType DEF Rematch
    <2> QED
      BY <1>1, <2>1 DEF Rematch, ControlOK, TypeOK
  <1>2. ASSUME NEW status \in {"received", "matched", "exception"}, InsertInvoice(t, status)
        PROVE  TypeOK'
    <2>1. ControlOK'
      BY <1>2, CommitType DEF InsertInvoice
    <2> QED
      BY <1>2, <2>1 DEF InsertInvoice, ControlOK, TypeOK
  <1>3. CASE RecordReceipt(t) /\ ~Rematch(t)
    BY <1>3, CheckType DEF RecordReceipt, Pass, Statement
  <1>4. CASE Pass(t, "lock po", "match") \/ Pass(t, "match", MatchStatus)
    BY <1>4, CheckType DEF Pass, Statement, MatchStatus
  <1> QED
    BY <1>1, <1>2, <1>3, <1>4 DEF Register

LEMMA ReconcileType ==
  ASSUME TypeOK, NEW t \in Reconciler, Reconcile(t)
  PROVE  TypeOK'
  <1>1. t \in Tx /\ Decides[t] \in [invoice : Invoice, verdict : {"paid", "dishonored"}]
    BY RequestAssumption DEF Tx
  <1>2. ASSUME NEW last \in {"keep open", "close"}, DecideLine(t, last)
        PROVE  TypeOK'
    <2>1. ControlOK'
      BY <1>1, <1>2, CommitType DEF DecideLine
    <2> QED
      BY <1>1, <1>2, <2>1 DEF DecideLine, ControlOK, TypeOK
  <1>3. CASE \A last \in {"keep open", "close"} : ~DecideLine(t, last)
    BY <1>1, <1>3, CheckType DEF Reconcile, Pass, Statement
  <1> QED
    BY <1>2, <1>3

LEMMA TypeStep ==
  ASSUME TypeOK, NEW t \in Tx, TxStep(t)
  PROVE  TypeOK'
  <1>1. CASE Acquire(t)
    <2>1. PICK row \in NextRow(t) : lock' = [lock EXCEPT ![row] = t] /\ UNCHANGED <<pc, rows>>
      BY <1>1 DEF Acquire
    <2> QED
      BY <2>1 DEF TypeOK, rows
  <1>2. CASE DeadlockVictim(t)
    <2>1. /\ pc' = [pc EXCEPT ![t] = "aborted"]
          /\ lock' = [row \in Row |-> IF lock[row] = t THEN Nobody ELSE lock[row]]
          /\ UNCHANGED rows
      BY <1>2 DEF DeadlockVictim
    <2>2. ControlOK'
      BY <2>1 DEF TypeOK, ControlOK, Statement
    <2> QED
      BY <2>1, <2>2 DEF TypeOK, ControlOK, rows
  <1>3. CASE t \in Planner /\ Plan(t)
    BY <1>3, PlanType
  <1>4. CASE \/ t \in ReceiptCanceller /\ CancelReceipt(t)
             \/ t \in OrderCanceller /\ CancelOrder(t)
    <2>1. t \in Corrector
      BY <1>4 DEF Corrector
    <2> QED
      BY <1>4, <2>1, CorrectionType
  <1>5. CASE RecordReceipt(t) \/ Register(t)
    BY <1>5, InvoiceType
  <1>6. CASE t \in Reconciler /\ Reconcile(t)
    BY <1>6, ReconcileType
  <1> QED
    BY <1>1, <1>2, <1>3, <1>4, <1>5, <1>6 DEF TxStep

LEMMA InitInv == Init => IInv
  <1> SUFFICES ASSUME Init
               PROVE  IInv
    OBVIOUS
  <1> DEFINE registered == Invoice \ {Registers[t] : t \in Registrar}
  <1>1. /\ pc = [t \in Tx |-> Begin(t)] /\ lock = [row \in Row |-> Nobody] /\ po = "live"
        /\ claim = [t \in Planner |-> [i \in Invoice |-> "none"]]
        /\ run = IF \E i \in Invoice : line[i] = "planned" THEN "executed" ELSE "none"
        /\ \E status \in {"received", "matched"} :
             inv = [i \in Invoice |-> IF i \in registered THEN status ELSE "none"]
        /\ line \in [Invoice -> {"none", "planned"}]
        /\ goods \in {"none", "recorded"}
    BY DEF Init
  <1>2. \A t \in Tx :
          /\ pc[t] = Begin(t) /\ pc[t] \in {"lock invoices", "lock po", "read receipt", "lock run"}
          /\ t \in Corrector \cup Recorder \cup Registrar => pc[t] \in {"read receipt", "lock po"}
          /\ t \in Reconciler => pc[t] = "lock run"
    <2> SUFFICES ASSUME NEW t \in Tx
                 PROVE  /\ pc[t] = Begin(t)
                        /\ Begin(t) \in {"lock invoices", "lock po", "read receipt", "lock run"}
                        /\ t \in Corrector \cup Recorder \cup Registrar
                             => Begin(t) \in {"read receipt", "lock po"}
                        /\ t \in Reconciler => Begin(t) = "lock run"
      BY <1>1
    <2>1. pc[t] = Begin(t)
      BY <1>1
    <2>2. CASE t \in Planner
      BY <2>1, <2>2, KindAssumption DEF Begin, Corrector
    <2>3. CASE t \in OrderCanceller \cup Recorder \cup Registrar
      BY <2>1, <2>3, KindAssumption DEF Begin, Corrector
    <2>4. CASE t \in ReceiptCanceller
      BY <2>1, <2>4, KindAssumption DEF Begin, Corrector
    <2>5. CASE t \in Reconciler
      BY <2>1, <2>5, KindAssumption DEF Begin, Corrector
    <2> QED
      BY <2>2, <2>3, <2>4, <2>5 DEF Tx
  <1>3. TypeOK
    BY <1>1, <1>2 DEF TypeOK, Statement
  <1>4. \A t \in Tx : Locked(t)
    BY <1>2, KindAssumption DEF Locked, Tx, Corrector
  <1>5. \A t \in Registrar : t \in Tx /\ inv[Registers[t]] = "none"
    BY <1>1, RequestAssumption DEF Tx
  <1>6. \A t \in Tx : Seen(t)
    BY <1>2, <1>5 DEF Seen, PlanSeen, CorrectionSeen, RegistrationSeen, ReconciliationSeen
  <1>7. RowsInv
    <2>1. CASE goods = "none"
      <3>1. /\ inv = [i \in Invoice |-> IF i \in registered THEN "received" ELSE "none"]
            /\ line = [i \in Invoice |-> "none"]
        BY <2>1 DEF Init
      <3>2. Reserved = {} /\ \A i \in Invoice : inv[i] # "matched" /\ line[i] # "planned"
        BY <3>1 DEF Reserved
      <3>3. Cardinality(Reserved) <= Cover
        BY <3>2, FS_EmptySet, InvoiceAssumption
      <3> QED
        BY <1>1, <3>2, <3>3 DEF RowsInv, EligibleIsCovered, ClosedWithLastLine, GoodsInv, LineInv
    <2>2. CASE goods # "none"
      <3>1. /\ inv = [i \in Invoice |-> IF i \in registered THEN "matched" ELSE "none"]
            /\ \A i \in Invoice \ registered : line[i] = "none"
            /\ goods = "recorded" /\ Cardinality(registered) <= Cover
        BY <2>2 DEF Init
      <3>2. Reserved = registered
        BY <3>1 DEF Reserved
      <3> QED
        BY <1>1, <3>1, <3>2 DEF RowsInv, EligibleIsCovered, ClosedWithLastLine, GoodsInv, LineInv
    <2> QED
      BY <2>1, <2>2
  <1> QED
    BY <1>3, <1>4, <1>6, <1>7 DEF IInv

LEMMA NextInv == IInv /\ [Next]_vars => IInv'
  <1> SUFFICES ASSUME IInv, [Next]_vars
               PROVE  IInv'
    OBVIOUS
  <1>1. CASE UNCHANGED vars
    <2>1. UNCHANGED <<pc, lock, po, goods, inv, claim, line, run>>
      BY <1>1 DEF vars, rows
    <2>2. TypeOK'
      BY <2>1 DEF IInv, TypeOK
    <2>3. ASSUME NEW t \in Tx
          PROVE  Locked(t)' /\ Seen(t)'
      <3>1. Locked(t) /\ Seen(t)
        BY DEF IInv
      <3>2. Locked(t)'
        BY <2>1, <3>1 DEF Locked, Registered
      <3>3. Seen(t)'
        BY <2>1, <3>1, StillSeen
      <3> QED
        BY <3>2, <3>3
    <2>4. RowsInv'
      BY <2>1 DEF IInv, RowsInv, EligibleIsCovered, ClosedWithLastLine, GoodsInv, LineInv, Reserved
    <2> QED
      BY <2>2, <2>3, <2>4 DEF IInv
  <1>2. ASSUME NEW t \in Tx, TxStep(t)
        PROVE  IInv'
    <2>1. TypeOK'
      BY <1>2, TypeStep DEF IInv
    <2>2. CASE Acquire(t)
      BY <2>1, <2>2, AcquireStep
    <2>3. CASE DeadlockVictim(t)
      BY <2>1, <2>3, VictimEffect, AbortStep DEF IInv
    <2>4. CASE t \in Planner /\ Plan(t)
      BY <2>1, <2>4, PlanChecks, InsertLinesStep
    <2>5. CASE t \in ReceiptCanceller /\ CancelReceipt(t)
      <3>1. ASSUME UncoverInvoices(t)
            PROVE  IInv'
        <4> DEFINE status == IF po = "live" THEN "received" ELSE "exception"
        <4>1. t \in Corrector /\ status \in {"received", "exception"}
          BY <2>5 DEF Corrector
        <4>2. /\ End(t, "reevaluate", "committed") /\ inv' = Demoted(status)
              /\ UNCHANGED <<claim, line, run>>
          BY <3>1 DEF UncoverInvoices
        <4> QED
          BY <2>1, <4>1, <4>2, ReevaluateStep
      <3> QED
        BY <2>1, <2>5, <3>1, CancelReceiptChecks
    <2>6. CASE t \in OrderCanceller /\ CancelOrder(t)
      <3>1. ASSUME CancelInvoices(t)
            PROVE  IInv'
        <4>1. t \in Corrector
          BY <2>6 DEF Corrector
        <4>2. /\ End(t, "reevaluate", "committed") /\ inv' = Demoted("exception")
              /\ UNCHANGED <<claim, line, run>>
          BY <3>1 DEF CancelInvoices
        <4> QED
          BY <2>1, <4>1, <4>2, ReevaluateStep
      <3> QED
        BY <2>1, <2>6, <3>1, CancelOrderChecks
    <2>7. CASE t \in Recorder /\ RecordReceipt(t)
      BY <2>1, <2>7, RecordReceiptChecks, RematchStep
    <2>8. CASE t \in Registrar /\ Register(t)
      BY <2>1, <2>8, RegisterChecks, InsertInvoiceStep
    <2>9. CASE t \in Reconciler /\ Reconcile(t)
      BY <2>1, <2>9, ReconcileChecks, DecideLineStep
    <2> QED
      BY <1>2, <2>2, <2>3, <2>4, <2>5, <2>6, <2>7, <2>8, <2>9 DEF TxStep
  <1> QED
    BY <1>1, <1>2 DEF Next, Finished

LEMMA Invariant == Spec => []IInv
  BY InitInv, NextInv, PTL DEF Spec
-----------------------------------------------------------------------------
(* What follows from the invariant. *)

\* The columns keep their types.
THEOREM TypeCorrect == Spec => []TypeOK
  BY Invariant, PTL DEF IInv

\* However registrations, receipts, corrections and settlements interleave, no more invoices
\* are eligible or paid than the goods cover (the order's row lock).
THEOREM EligibleIsCoveredAlways == Spec => []EligibleIsCovered
  <1>1. IInv => EligibleIsCovered
    BY DEF IInv, RowsInv
  <1> QED
    BY <1>1, Invariant, PTL

\* A run whose last line is decided is closed, whichever reconciliations race (the run's row
\* lock).
THEOREM ClosedWithLastLineAlways == Spec => []ClosedWithLastLine
  <1>1. IInv => ClosedWithLastLine
    BY DEF IInv, RowsInv
  <1> QED
    BY <1>1, Invariant, PTL

\* Who writes which rows.
LEMMA Writers ==
  ASSUME NEW t \in Tx, TxStep(t)
  PROVE  /\ UNCHANGED claim \/ (t \in Planner /\ InsertLines(t))
         /\ \/ UNCHANGED <<po, goods>>
            \/ t \in ReceiptCanceller /\ UncoverInvoices(t)
            \/ t \in OrderCanceller /\ CancelInvoices(t)
            \/ goods' = "recorded" /\ UNCHANGED po
  <1>1. ASSUME NEW from, NEW to, NEW passed, Check(t, from, to, passed)
        PROVE  UNCHANGED <<po, goods, claim>>
    BY <1>1 DEF Check, rows
  <1>2. CASE Acquire(t) \/ DeadlockVictim(t)
    BY <1>2 DEF Acquire, DeadlockVictim, rows
  <1>3. CASE t \in Planner /\ Plan(t)
    BY <1>1, <1>3 DEF Plan, Pass, InsertLines
  <1>4. ASSUME NEW to, CorrectionGuard(t, to)
        PROVE  UNCHANGED <<po, goods, claim>>
    BY <1>1, <1>4 DEF CorrectionGuard, Pass
  <1>5. CASE t \in ReceiptCanceller /\ CancelReceipt(t)
    <2>1. CASE UncoverInvoices(t)
      BY <1>5, <2>1 DEF UncoverInvoices
    <2>2. CASE ~UncoverInvoices(t)
      BY <1>1, <1>4, <1>5, <2>2 DEF CancelReceipt, Pass
    <2> QED
      BY <2>1, <2>2
  <1>6. CASE t \in OrderCanceller /\ CancelOrder(t)
    <2>1. CASE CancelInvoices(t)
      BY <1>6, <2>1 DEF CancelInvoices
    <2>2. CASE ~CancelInvoices(t)
      BY <1>1, <1>4, <1>6, <2>2 DEF CancelOrder, Pass
    <2> QED
      BY <2>1, <2>2
  <1>7. CASE RecordReceipt(t)
    BY <1>1, <1>7 DEF RecordReceipt, Pass, Rematch
  <1>8. CASE Register(t)
    BY <1>1, <1>8 DEF Register, Pass, InsertInvoice
  <1>9. CASE Reconcile(t)
    BY <1>1, <1>9 DEF Reconcile, Pass, DecideLine
  <1> QED
    BY <1>2, <1>3, <1>5, <1>6, <1>7, <1>8, <1>9 DEF TxStep

\* A plan commits only under the guard of CreateRun in Payables: what it checked statement
\* by statement holds all at once (create).
THEOREM PlansAreAtomicAlways == Spec => PlansAreAtomic
  <1> DEFINE Claims == \A t \in Planner :
                         claim'[t] # claim[t]
                           => /\ po = "live"
                              /\ \A i \in PlanOf[t] : inv[i] = "matched" /\ ~LiveClaim(i)
  <1>1. IInv /\ [Next]_vars => [Claims]_vars
    <2> SUFFICES ASSUME IInv, NEW u \in Tx, TxStep(u), NEW t \in Planner, claim'[t] # claim[t]
                 PROVE  /\ po = "live"
                        /\ \A i \in PlanOf[t] : inv[i] = "matched" /\ ~LiveClaim(i)
      BY DEF Next, Finished
    <2>1. u \in Planner /\ InsertLines(u)
      BY Writers
    <2>2. pc[u] = "insert" /\ u = t
      BY <2>1 DEF InsertLines, End, Go, IInv, TypeOK
    <2>3. PlanSeen(t)
      BY DEF IInv, Seen, Tx
    <2> QED
      BY <2>2, <2>3 DEF PlanSeen
  <1> QED
    BY <1>1, Invariant, PTL DEF Spec, PlansAreAtomic

\* A correction commits only under the guard of ApproveCancellation and CancelReceipt in
\* Payables (assertPoCorrectionAllowed).
THEOREM CorrectionsAreAtomicAlways == Spec => CorrectionsAreAtomic
  <1> DEFINE Corrects == /\ po' # po => NoPaymentBegun /\ goods # "recorded"
                         /\ goods' # goods /\ goods' = "cancelled" => NoPaymentBegun
  <1>1. IInv /\ [Next]_vars => [Corrects]_vars
    <2> SUFFICES ASSUME IInv, NEW t \in Tx, TxStep(t)
                 PROVE  Corrects
      BY DEF Next, Finished
    <2>1. CASE UNCHANGED <<po, goods>>
      BY <2>1
    <2>2. CASE goods' = "recorded" /\ UNCHANGED po
      BY <2>2
    <2>3. CASE t \in ReceiptCanceller /\ UncoverInvoices(t)
      <3>1. pc[t] = "reevaluate" /\ UNCHANGED po /\ CorrectionSeen(t)
        BY <2>3 DEF UncoverInvoices, End, Go, IInv, Seen, Corrector
      <3> QED
        BY <3>1 DEF CorrectionSeen, NoPaymentBegun
    <2>4. CASE t \in OrderCanceller /\ CancelInvoices(t)
      <3>1. pc[t] = "reevaluate" /\ UNCHANGED goods /\ CorrectionSeen(t)
        BY <2>4 DEF CancelInvoices, End, Go, IInv, Seen, Corrector
      <3> QED
        BY <2>4, <3>1 DEF CorrectionSeen, NoPaymentBegun
    <2> QED
      BY <2>1, <2>2, <2>3, <2>4, Writers
  <1> QED
    BY <1>1, Invariant, PTL DEF Spec, CorrectionsAreAtomic
-----------------------------------------------------------------------------
(* Cycles.  A transaction that records no receipt takes its rows in one order: the order's or
   the run's row first, then invoices by id. *)

\* t has locked no row of a set before one with a smaller id.
Ascending(t, ids) == \A i \in ids \cap Held(t), j \in ids \ Held(t) : i < j

\* The statements t may wait at, and the rows it has locked when it comes to them.
InOrder(t) ==
  /\ t \in Planner
       => /\ pc[t] \notin {"lock po", "lock run", "settle", "rematch"}
          /\ pc[t] = "lock invoices" => Held(t) \subseteq PlanOf[t] /\ Ascending(t, PlanOf[t])
  /\ t \in Corrector
       => /\ pc[t] \notin {"lock run", "settle", "rematch"}
          /\ pc[t] \in {"read receipt", "lock po", "read po", "update receipt"}
               => Held(t) \subseteq {OrderRow}
          /\ pc[t] = "lock invoices"
               => Held(t) \subseteq Registered \cup {OrderRow} /\ Ascending(t, Registered)
  /\ t \in Registrar
       => /\ pc[t] \notin {"lock run", "lock invoices", "settle", "rematch"}
          /\ pc[t] = "lock po" => Held(t) \subseteq {OrderRow}
  /\ t \in Reconciler
       => /\ pc[t] \notin {"lock po", "lock invoices", "rematch"}
          /\ pc[t] \in {"lock run", "read run", "update line"} => Held(t) \subseteq {RunRow}
          /\ pc[t] = "settle" => Held(t) \subseteq {RunRow, Decides[t].invoice}

OrderInv == \A t \in Tx \ Recorder : InOrder(t)

\* The least of a set of ids.
LEMMA FirstByIdIsLeast ==
  ASSUME NEW t, NEW missing \in SUBSET Invoice, missing # {}
  PROVE  /\ FirstById(t, missing) \in missing
         /\ \A j \in missing \ {FirstById(t, missing)} : FirstById(t, missing) < j
  <1>1. missing \subseteq Nat
    BY InvoiceAssumption
  <1>2. PICK i \in missing : \A j \in missing : i <= j
    BY <1>1, LeastNumber
  <1>3. \A j \in missing \ {i} : i < j
    BY <1>1, <1>2
  <1> QED
    BY <1>3 DEF FirstById

\* The row that t takes next comes after those it has.
TakesNext(t, row) ==
  /\ NextRow(t) = {row} /\ row \in Rows(t) \ Held(t) /\ row \in Row
  /\ \/ pc[t] \in {"lock po", "lock run"} /\ Held(t) = {}
     \/ pc[t] = "settle" /\ row \in Invoice /\ Held(t) \subseteq {RunRow}
     \/ /\ pc[t] = "lock invoices" /\ row \in Invoice
        /\ \A i \in Held(t) : i = OrderRow \/ (i \in Invoice /\ i < row)
        /\ \A j \in Rows(t) \ (Held(t) \cup {row}) : row < j

LEMMA NextRowInOrder ==
  ASSUME IInv, NEW t \in Tx \ Recorder, InOrder(t), NEW row \in NextRow(t)
  PROVE  TakesNext(t, row)
  <1> DEFINE missing == Rows(t) \ Held(t)
  <1>1. missing # {} /\ Rows(t) # {}
    BY DEF NextRow
  <1>2. t \in Planner \cup Corrector \cup Registrar \cup Reconciler /\ t \notin Recorder
    BY DEF Tx, Corrector
  <1>3. pc[t] \in {"lock po", "lock run", "lock invoices", "settle"}
    BY <1>1, <1>2 DEF Rows, InOrder
  <1>4. pc[t] # "rematch" => NextRow(t) = {FirstById(t, missing)}
    BY <1>1 DEF NextRow
  <1>5. CASE pc[t] = "lock po"
    <2>1. t \in Corrector \cup Registrar /\ Rows(t) = {OrderRow}
      BY <1>2, <1>5 DEF InOrder, Rows, OrderRows
    <2>2. Held(t) = {}
      BY <1>1, <1>5, <2>1 DEF InOrder
    <2>3. FirstById(t, missing) = OrderRow
      BY <2>1, <2>2 DEF FirstById
    <2> QED
      BY <1>4, <1>5, <2>1, <2>2, <2>3 DEF TakesNext, Row
  <1>6. CASE pc[t] = "lock run"
    <2>1. t \in Reconciler /\ Rows(t) = {RunRow}
      BY <1>2, <1>6 DEF InOrder, Rows, RunRows
    <2>2. Held(t) = {}
      BY <1>1, <1>6, <2>1 DEF InOrder
    <2>3. FirstById(t, missing) = RunRow
      BY <2>1, <2>2 DEF FirstById
    <2> QED
      BY <1>4, <1>6, <2>1, <2>2, <2>3 DEF TakesNext, Row
  <1>7. CASE pc[t] = "settle"
    <2>1. t \in Reconciler /\ Rows(t) = {Decides[t].invoice}
      BY <1>2, <1>7 DEF InOrder, Rows
    <2>2. Decides[t].invoice \in Invoice
      BY <2>1, RequestAssumption
    <2>3. Held(t) \subseteq {RunRow} /\ missing = {Decides[t].invoice}
      BY <1>1, <1>7, <2>1 DEF InOrder
    <2>4. FirstById(t, missing) = Decides[t].invoice
      BY <2>3 DEF FirstById
    <2> QED
      BY <1>4, <1>7, <2>1, <2>2, <2>3, <2>4 DEF TakesNext, Row
  <1>8. CASE pc[t] = "lock invoices"
    <2>1. /\ Rows(t) \subseteq Invoice /\ Held(t) \subseteq Rows(t) \cup {OrderRow}
          /\ Ascending(t, Rows(t))
      <3>1. CASE t \in Planner
        <4>1. Rows(t) = PlanOf[t]
          BY <1>8, <3>1 DEF Rows, PlanRows
        <4>2. PlanOf[t] \subseteq Invoice
          BY <3>1, RequestAssumption
        <4>3. Held(t) \subseteq PlanOf[t] /\ Ascending(t, PlanOf[t])
          BY <1>8, <3>1 DEF InOrder
        <4> QED
          BY <4>1, <4>2, <4>3
      <3>2. CASE t \notin Planner
        <4>1. t \in Corrector /\ Rows(t) = Registered
          BY <1>2, <1>8, <3>2 DEF Rows, CorrectionRows, InOrder
        <4> QED
          BY <1>8, <4>1 DEF InOrder, Registered
      <3> QED
        BY <3>1, <3>2
    <2>2. /\ row \in missing /\ \A j \in missing \ {row} : row < j
          /\ NextRow(t) = {row}
      <3>1. missing \in SUBSET Invoice /\ missing # {}
        BY <1>1, <2>1
      <3>2. row = FirstById(t, missing) /\ NextRow(t) = {row}
        BY <1>4, <1>8
      <3> HIDE DEF missing
      <3> QED
        BY <3>1, <3>2, FirstByIdIsLeast
    <2>3. \A i \in Held(t) : i = OrderRow \/ (i \in Invoice /\ i < row)
      BY <2>1, <2>2 DEF Ascending
    <2> QED
      BY <1>8, <2>1, <2>2, <2>3 DEF TakesNext, Row
  <1> QED
    BY <1>3, <1>5, <1>6, <1>7, <1>8

\* The rows whose locks a step of t changes are its own.
StepForm(t) ==
  /\ \A u \in Tx \ {t} : pc'[u] = pc[u] /\ Held(u)' = Held(u)
  /\ \/ /\ UNCHANGED pc
        /\ \E row \in NextRow(t) : Held(t)' = Held(t) \cup ({row} \cap Row)
     \/ pc'[t] \in {"committed", "aborted"}
     \/ Held(t)' = Held(t)

LEMMA ReleaseForm ==
  ASSUME TypeOK, NEW t \in Tx, NEW how \in {"committed", "aborted"},
         pc' = [pc EXCEPT ![t] = how],
         lock' = [row \in Row |-> IF lock[row] = t THEN Nobody ELSE lock[row]]
  PROVE  StepForm(t)
  <1>1. \A u \in Tx \ {t}, row \in Row : lock'[row] = u <=> lock[row] = u
    BY KindAssumption
  <1> QED
    BY <1>1 DEF StepForm, Held, TypeOK

LEMMA CheckForm ==
  ASSUME TypeOK, NEW t \in Tx, NEW from, NEW to, NEW passed, Check(t, from, to, passed)
  PROVE  /\ StepForm(t) /\ UNCHANGED <<inv>>
         /\ pc[t] = from /\ pc'[t] \in {to, "aborted"}
  <1>1. CASE passed
    <2>1. pc[t] = from /\ pc' = [pc EXCEPT ![t] = to] /\ lock' = lock /\ UNCHANGED rows
      BY <1>1 DEF Check, Go
    <2> QED
      BY <2>1 DEF StepForm, Held, TypeOK, rows
  <1>2. CASE ~passed
    <2>1. /\ pc[t] = from /\ pc' = [pc EXCEPT ![t] = "aborted"]
          /\ lock' = [row \in Row |-> IF lock[row] = t THEN Nobody ELSE lock[row]]
          /\ UNCHANGED rows
      BY <1>2 DEF Check, End, Go
    <2> QED
      BY <2>1, ReleaseForm DEF TypeOK, rows
  <1> QED
    BY <1>1, <1>2

LEMMA CommitForm ==
  ASSUME TypeOK, NEW t \in Tx, NEW from, End(t, from, "committed")
  PROVE  StepForm(t) /\ pc[t] = from /\ pc'[t] = "committed"
  BY ReleaseForm DEF End, Go, TypeOK

LEMMA AcquireForm ==
  ASSUME TypeOK, NEW t \in Tx, Acquire(t)
  PROVE  StepForm(t) /\ UNCHANGED <<pc, inv>>
  <1>1. PICK row \in NextRow(t) : /\ lock[row] = Nobody
                                  /\ lock' = [lock EXCEPT ![row] = t]
                                  /\ UNCHANGED <<pc, rows>>
    BY DEF Acquire
  <1>2. \A u \in Tx \ {t} : Held(u)' = Held(u)
    BY <1>1, KindAssumption DEF Held, TypeOK
  <1>3. Held(t)' = Held(t) \cup ({row} \cap Row)
    BY <1>1 DEF Held, TypeOK
  <1> QED
    BY <1>1, <1>2, <1>3 DEF StepForm, rows

LEMMA TxStepForm ==
  ASSUME IInv, NEW t \in Tx, TxStep(t)
  PROVE  StepForm(t)
  <1>1. TypeOK
    BY DEF IInv
  <1>2. ASSUME NEW from, NEW to, NEW passed, Check(t, from, to, passed)
        PROVE  StepForm(t)
    BY <1>1, <1>2, CheckForm
  <1>3. ASSUME NEW from, End(t, from, "committed")
        PROVE  StepForm(t)
    BY <1>1, <1>3, CommitForm
  <1>4. ASSUME NEW to, CorrectionGuard(t, to)
        PROVE  StepForm(t)
    BY <1>2, <1>4 DEF CorrectionGuard, Pass
  <1>5. CASE Acquire(t)
    BY <1>1, <1>5, AcquireForm
  <1>6. CASE DeadlockVictim(t)
    BY <1>1, <1>6, ReleaseForm DEF DeadlockVictim
  <1>7. CASE Plan(t)
    BY <1>2, <1>3, <1>7 DEF Plan, Pass, InsertLines
  <1>8. CASE CancelReceipt(t)
    BY <1>2, <1>3, <1>4, <1>8 DEF CancelReceipt, Pass, UncoverInvoices
  <1>9. CASE CancelOrder(t)
    BY <1>2, <1>3, <1>4, <1>9 DEF CancelOrder, Pass, CancelInvoices
  <1>10. CASE RecordReceipt(t)
    BY <1>2, <1>3, <1>10 DEF RecordReceipt, Pass, Rematch
  <1>11. CASE Register(t)
    BY <1>2, <1>3, <1>11 DEF Register, Pass, InsertInvoice
  <1>12. CASE Reconcile(t)
    BY <1>2, <1>3, <1>12 DEF Reconcile, Pass, DecideLine
  <1> QED
    BY <1>5, <1>6, <1>7, <1>8, <1>9, <1>10, <1>11, <1>12 DEF TxStep

\* An invoice appears only under the lock of its order.
LEMMA InvoicesAppearUnderLock ==
  ASSUME IInv, NEW t \in Tx, TxStep(t)
  PROVE  Registered' = Registered \/ lock[OrderRow] = t
  <1>1. CASE UNCHANGED inv
    BY <1>1 DEF Registered
  <1>2. ASSUME NEW from, NEW to, NEW passed, Check(t, from, to, passed)
        PROVE  UNCHANGED inv
    BY <1>2 DEF Check, rows
  <1>3. ASSUME NEW to, CorrectionGuard(t, to)
        PROVE  UNCHANGED inv
    BY <1>2, <1>3 DEF CorrectionGuard, Pass
  <1>4. Locked(t) /\ Seen(t)
    BY DEF IInv
  <1>5. CASE Acquire(t) \/ DeadlockVictim(t)
    BY <1>1, <1>5 DEF Acquire, DeadlockVictim, rows
  <1>6. CASE Plan(t)
    BY <1>1, <1>2, <1>6 DEF Plan, Pass, InsertLines
  <1>7. ASSUME NEW status \in {"received", "exception"}, inv' = Demoted(status)
        PROVE  Registered' = Registered
    BY <1>7 DEF Demoted, Registered
  <1>8. CASE CancelReceipt(t)
    <2>1. CASE UncoverInvoices(t)
      BY <1>7, <2>1 DEF UncoverInvoices
    <2>2. CASE ~UncoverInvoices(t)
      BY <1>1, <1>2, <1>3, <1>8, <2>2 DEF CancelReceipt, Pass
    <2> QED
      BY <2>1, <2>2
  <1>9. CASE CancelOrder(t)
    <2>1. CASE CancelInvoices(t)
      BY <1>7, <2>1 DEF CancelInvoices
    <2>2. CASE ~CancelInvoices(t)
      BY <1>1, <1>2, <1>3, <1>9, <2>2 DEF CancelOrder, Pass
    <2> QED
      BY <2>1, <2>2
  <1>10. CASE RecordReceipt(t)
    <2>1. CASE Rematch(t)
      BY <2>1 DEF Rematch, Registered, Waiting
    <2>2. CASE ~Rematch(t)
      BY <1>1, <1>2, <1>10, <2>2 DEF RecordReceipt, Pass
    <2> QED
      BY <2>1, <2>2
  <1>11. CASE t \in Registrar /\ Register(t)
    <2>1. ASSUME NEW status \in {"received", "matched", "exception"}, InsertInvoice(t, status)
          PROVE  lock[OrderRow] = t
      BY <1>4, <1>11, <2>1 DEF InsertInvoice, End, Go, Locked
    <2>2. CASE \A status \in {"received", "matched", "exception"} : ~InsertInvoice(t, status)
      BY <1>1, <1>2, <1>11, <2>2 DEF Register, Pass
    <2> QED
      BY <2>1, <2>2
  <1>12. CASE t \in Reconciler /\ Reconcile(t)
    <2>1. ASSUME NEW last \in {"keep open", "close"}, DecideLine(t, last)
          PROVE  Registered' = Registered
      <3>1. pc[t] = last
        BY <2>1 DEF DecideLine, End, Go
      <3>2. Decides[t].invoice \in Invoice /\ inv[Decides[t].invoice] = "matched"
        BY <1>4, <1>12, <3>1, RequestAssumption DEF Seen, ReconciliationSeen, IInv, RowsInv, LineInv
      <3>3. \A i \in Invoice : inv'[i] = inv[i] \/ (i = Decides[t].invoice /\ inv'[i] = "paid")
        BY <2>1 DEF DecideLine, IInv, TypeOK
      <3> QED
        BY <3>2, <3>3 DEF Registered
    <2>2. CASE \A last \in {"keep open", "close"} : ~DecideLine(t, last)
      BY <1>1, <1>2, <1>12, <2>2 DEF Reconcile, Pass
    <2> QED
      BY <2>1, <2>2
  <1> QED
    BY <1>5, <1>6, <1>8, <1>9, <1>10, <1>11, <1>12 DEF TxStep

\* The statements a check leads to.
LEMMA OwnChecksInOrder ==
  ASSUME IInv, NEW t \in Tx \ Recorder, InOrder(t), TxStep(t), ~Acquire(t),
         pc'[t] \notin {"committed", "aborted"}, Held(t)' = Held(t), Registered' = Registered
  PROVE  InOrder(t)'
  <1>1. ASSUME NEW from, NEW to, NEW passed, Check(t, from, to, passed)
        PROVE  pc[t] = from /\ pc'[t] = to
    BY <1>1, CheckForm DEF IInv
  <1>2. \A from : ~End(t, from, "committed")
    BY CommitForm DEF IInv
  <1>3. ~DeadlockVictim(t)
    BY DEF DeadlockVictim, IInv, TypeOK
  <1>4. ASSUME NEW to, CorrectionGuard(t, to)
        PROVE  pc'[t] \in {"read paid", "read claims", to}
    BY <1>1, <1>4 DEF CorrectionGuard, Pass
  <1>5. CASE t \in Planner /\ Plan(t)
    <2>1. pc'[t] \in {"read invoices", "read po", "read claims", "insert"}
      BY <1>1, <1>2, <1>5 DEF Plan, Pass, InsertLines
    <2> QED
      BY <1>5, <2>1, KindAssumption DEF InOrder, Corrector
  <1>6. CASE t \in Corrector /\ (CancelReceipt(t) \/ CancelOrder(t))
    <2>1. \/ pc[t] \in {"read receipt", "lock po", "read po", "update receipt"}
             /\ pc'[t] \in {"lock po", "read po", "update receipt", "lock invoices"}
          \/ pc'[t] \in {"read paid", "read claims", "reevaluate", "read receipts"}
      <3>1. CASE CancelReceipt(t)
        <4>1. ~UncoverInvoices(t)
          BY <1>2 DEF UncoverInvoices
        <4>2. CASE CorrectionGuard(t, "reevaluate")
          BY <1>4, <4>2
        <4> QED
          BY <1>1, <3>1, <4>1, <4>2 DEF CancelReceipt, Pass
      <3>2. CASE CancelOrder(t)
        <4>1. ~CancelInvoices(t)
          BY <1>2 DEF CancelInvoices
        <4>2. CASE CorrectionGuard(t, "read receipts")
          BY <1>4, <4>2
        <4> QED
          BY <1>1, <3>2, <4>1, <4>2 DEF CancelOrder, Pass
      <3> QED
        BY <1>6, <3>1, <3>2
    <2>2. t \notin Planner \cup Registrar \cup Reconciler
      BY <1>6, KindAssumption DEF Corrector
    <2>3. Held(t) \subseteq {OrderRow} => Ascending(t, Registered)'
      BY RowAssumption DEF Ascending, Registered
    <2> QED
      BY <1>6, <2>1, <2>2, <2>3 DEF InOrder
  <1>7. CASE t \in Registrar /\ Register(t)
    <2>1. pc'[t] \in {"match", "received", "matched", "exception"}
      BY <1>1, <1>2, <1>7 DEF Register, Pass, InsertInvoice, MatchStatus
    <2> QED
      BY <1>7, <2>1, KindAssumption DEF InOrder, Corrector
  <1>8. CASE t \in Reconciler /\ Reconcile(t)
    <2>1. \/ pc[t] \in {"lock run", "read run", "update line"}
             /\ pc'[t] \in {"read run", "update line", "settle"}
          \/ pc'[t] \in {"count", "keep open", "close"}
      BY <1>1, <1>2, <1>8 DEF Reconcile, Pass, DecideLine
    <2> QED
      BY <1>8, <2>1, KindAssumption DEF InOrder, Corrector
  <1> QED
    BY <1>3, <1>5, <1>6, <1>7, <1>8 DEF TxStep, Corrector

LEMMA InitInOrder == Init => OrderInv
  <1> SUFFICES ASSUME Init, NEW t \in Tx \ Recorder
               PROVE  InOrder(t)
    BY DEF OrderInv
  <1>1. Held(t) = {} /\ pc[t] = Begin(t)
    BY KindAssumption DEF Init, Held
  <1>2. \A ids : Ascending(t, ids)
    BY <1>1 DEF Ascending
  <1>3. /\ t \in Planner => pc[t] = "lock invoices"
        /\ t \in Corrector => pc[t] \in {"read receipt", "lock po"}
        /\ t \in Registrar => pc[t] = "lock po"
        /\ t \in Reconciler => pc[t] = "lock run"
    <2>1. t \in Planner => pc[t] = "lock invoices"
      BY <1>1, KindAssumption DEF Begin
    <2>2. t \in OrderCanceller \cup Registrar => pc[t] = "lock po"
      BY <1>1, KindAssumption DEF Begin
    <2>3. t \in ReceiptCanceller => pc[t] = "read receipt"
      BY <1>1, KindAssumption DEF Begin
    <2>4. t \in Reconciler => pc[t] = "lock run"
      BY <1>1, KindAssumption DEF Begin
    <2> QED
      BY <2>1, <2>2, <2>3, <2>4 DEF Corrector
  <1> QED
    BY <1>1, <1>2, <1>3 DEF InOrder

LEMMA NextInOrder == IInv /\ OrderInv /\ [Next]_vars => OrderInv'
  <1> SUFFICES ASSUME IInv, OrderInv, [Next]_vars
               PROVE  OrderInv'
    OBVIOUS
  <1>1. CASE UNCHANGED vars
    BY <1>1 DEF vars, rows, OrderInv, InOrder, Ascending, Held, Registered
  <1>2. ASSUME NEW t \in Tx, TxStep(t)
        PROVE  OrderInv'
    <2>1. StepForm(t)
      BY <1>2, TxStepForm
    <2>2. Registered' = Registered \/ lock[OrderRow] = t
      BY <1>2, InvoicesAppearUnderLock
    <2>3. ASSUME NEW u \in Tx \ Recorder, u # t
          PROVE  InOrder(u)'
      <3>1. /\ InOrder(u) /\ Locked(u) /\ pc'[u] = pc[u] /\ Held(u)' = Held(u)
        BY <2>1, <2>3 DEF OrderInv, IInv, StepForm
      <3>2. u \in Corrector /\ pc[u] = "lock invoices" => Registered' = Registered
        BY <2>2, <2>3, <3>1 DEF Locked
      <3>3. \A ids : Ascending(u, ids)' <=> (\A i \in ids' \cap Held(u), j \in ids' \ Held(u) : i < j)
        BY <3>1 DEF Ascending
      <3> QED
        BY <3>1, <3>2 DEF InOrder, Ascending
    <2>4. ASSUME t \notin Recorder
          PROVE  InOrder(t)'
      <3>1. InOrder(t)
        BY <2>4 DEF OrderInv
      <3>2. CASE Acquire(t)
        <4>1. PICK row \in NextRow(t) : /\ lock' = [lock EXCEPT ![row] = t]
                                        /\ UNCHANGED <<pc, rows>>
          BY <3>2 DEF Acquire
        <4>2. TakesNext(t, row)
          BY <2>4, <3>1, NextRowInOrder
        <4>3. Held(t)' = Held(t) \cup {row} /\ UNCHANGED pc /\ Registered' = Registered
          BY <4>1, <4>2 DEF TakesNext, Held, IInv, TypeOK, rows, Registered
        <4>4. CASE t \in Planner
          <5>1. t \notin Corrector \cup Registrar \cup Reconciler /\ PlanOf[t] \subseteq Invoice
            BY <4>4, KindAssumption, RequestAssumption DEF Corrector
          <5>2. pc[t] = "lock invoices" => Rows(t) = PlanOf[t]
            BY <4>4 DEF Rows, PlanRows
          <5> QED
            BY <3>1, <4>2, <4>3, <4>4, <5>1, <5>2, RowAssumption DEF InOrder, TakesNext, Ascending
        <4>5. CASE t \in Corrector
          <5>1. t \notin Planner \cup Registrar \cup Reconciler /\ Registered \subseteq Invoice
            BY <4>5, KindAssumption DEF Corrector, Registered
          <5>2. /\ pc[t] = "lock invoices" => Rows(t) = Registered
                /\ pc[t] = "lock po" => Rows(t) = {OrderRow}
            BY <5>1 DEF Rows, CorrectionRows, OrderRows
          <5> QED
            BY <3>1, <4>2, <4>3, <4>5, <5>1, <5>2, RowAssumption DEF InOrder, TakesNext, Ascending
        <4>6. CASE t \in Registrar
          <5>1. t \notin Planner \cup Corrector \cup Reconciler
            BY <4>6, KindAssumption DEF Corrector
          <5>2. pc[t] = "lock po" => Rows(t) = {OrderRow}
            BY DEF Rows, OrderRows
          <5> QED
            BY <3>1, <4>2, <4>3, <4>6, <5>1, <5>2 DEF InOrder, TakesNext
        <4>7. CASE t \in Reconciler
          <5>1. t \notin Planner \cup Corrector \cup Registrar
            BY <4>7, KindAssumption DEF Corrector
          <5>2. /\ pc[t] = "lock run" => Rows(t) = {RunRow}
                /\ pc[t] = "settle" => Rows(t) = {Decides[t].invoice}
            BY DEF Rows, RunRows
          <5> QED
            BY <3>1, <4>2, <4>3, <4>7, <5>1, <5>2 DEF InOrder, TakesNext
        <4> QED
          BY <2>4, <4>4, <4>5, <4>6, <4>7 DEF Tx, Corrector
      <3>3. CASE pc'[t] \in {"committed", "aborted"}
        BY <3>3 DEF InOrder
      <3>4. CASE ~Acquire(t) /\ pc'[t] \notin {"committed", "aborted"}
        <4>1. ASSUME NEW from, NEW to, NEW passed, Check(t, from, to, passed)
              PROVE  UNCHANGED <<lock, inv>>
          BY <3>4, <4>1 DEF Check, End, Go, rows, IInv, TypeOK
        <4>2. \A from : ~End(t, from, "committed")
          BY <3>4, CommitForm DEF IInv
        <4>3. ~DeadlockVictim(t)
          BY <3>4 DEF DeadlockVictim, IInv, TypeOK
        <4>4. ASSUME NEW to, CorrectionGuard(t, to)
              PROVE  UNCHANGED <<lock, inv>>
          BY <4>1, <4>4 DEF CorrectionGuard, Pass
        <4>5. UNCHANGED <<lock, inv>>
          <5>1. CASE Plan(t)
            BY <4>1, <4>2, <5>1 DEF Plan, Pass, InsertLines
          <5>2. CASE CancelReceipt(t)
            BY <4>1, <4>2, <4>4, <5>2 DEF CancelReceipt, Pass, UncoverInvoices
          <5>3. CASE CancelOrder(t)
            BY <4>1, <4>2, <4>4, <5>3 DEF CancelOrder, Pass, CancelInvoices
          <5>4. CASE Register(t)
            BY <4>1, <4>2, <5>4 DEF Register, Pass, InsertInvoice
          <5>5. CASE Reconcile(t)
            BY <4>1, <4>2, <5>5 DEF Reconcile, Pass, DecideLine
          <5> QED
            BY <1>2, <2>4, <3>4, <4>3, <5>1, <5>2, <5>3, <5>4, <5>5 DEF TxStep
        <4>6. Held(t)' = Held(t) /\ Registered' = Registered
          BY <4>5 DEF Held, Registered
        <4> QED
          BY <1>2, <2>4, <3>1, <3>4, <4>6, OwnChecksInOrder
      <3> QED
        BY <3>2, <3>3, <3>4
    <2> QED
      BY <2>3, <2>4 DEF OrderInv
  <1> QED
    BY <1>1, <1>2 DEF Next, Finished

\* Where a row comes in the order.
Place(row) == IF row \in Invoice THEN row + 1 ELSE 0

LEMMA PlaceGrows ==
  /\ \A row : Place(row) \in Nat
  /\ \A row : \A j \in Invoice : row \notin Invoice => Place(row) < Place(j)
  /\ \A i, j \in Invoice : i < j => Place(i) < Place(j)
  <1>1. \A i \in Invoice : i \in Nat /\ Place(i) = i + 1
    BY InvoiceAssumption DEF Place
  <1>2. \A row : row \notin Invoice => Place(row) = 0
    BY DEF Place
  <1> QED
    BY <1>1, <1>2

\* Only a transaction that records a receipt can be part of a cycle: all others wait for a
\* row that comes later than those they have, so that along a cycle without receipts the
\* places of the rows would grow for ever (create: "Lock IDs in order [...] to avoid cycles").
THEOREM CyclesNeedAReceiptAlways == Spec => []CyclesNeedAReceipt
  <1>1. IInv /\ OrderInv => CyclesNeedAReceipt
    <2> SUFFICES ASSUME IInv, OrderInv, NEW t \in Tx, InCycle(t), \A u \in Recorder : ~InCycle(u)
                 PROVE  FALSE
      BY DEF CyclesNeedAReceipt
    <2> DEFINE Waits(u) == CHOOSE row \in NextRow(u) : TRUE
    <2>1. PICK cycles \in SUBSET {u \in Tx : Blocker(u) # Nobody} :
            t \in cycles /\ {Blocker(u) : u \in cycles} = cycles
      BY DEF InCycle
    <2>2. ASSUME NEW u \in cycles
          PROVE  /\ u \in Tx \ Recorder /\ Blocker(u) \in cycles
                 /\ TakesNext(u, Waits(u)) /\ Blocker(u) = lock[Waits(u)]
      <3>1. u \in Tx /\ Blocker(u) # Nobody /\ Blocker(u) \in cycles
        BY <2>1
      <3>2. InCycle(u)
        BY <2>1, <3>1 DEF InCycle
      <3>3. u \notin Recorder
        BY <3>2
      <3>4. NextRow(u) # {} /\ Blocker(u) = lock[Waits(u)]
        BY <3>1 DEF Blocker
      <3>5. Waits(u) \in NextRow(u)
        BY <3>4
      <3>6. TakesNext(u, Waits(u))
        BY <3>1, <3>3, <3>5, NextRowInOrder DEF OrderInv
      <3> QED
        BY <3>1, <3>3, <3>4, <3>6
    <2> HIDE DEF Waits
    <2>3. ASSUME NEW u \in cycles
          PROVE  Place(Waits(u)) < Place(Waits(Blocker(u)))
      <3>1. Waits(u) \in Held(Blocker(u))
        BY <2>2 DEF TakesNext, Held
      <3>2. Blocker(u) \in cycles /\ TakesNext(Blocker(u), Waits(Blocker(u)))
        BY <2>2
      <3>3. /\ Waits(Blocker(u)) \in Invoice
            /\ Waits(u) \in {RunRow, OrderRow} \/ (Waits(u) \in Invoice /\ Waits(u) < Waits(Blocker(u)))
        BY <3>1, <3>2 DEF TakesNext
      <3> QED
        BY <3>3, PlaceGrows, RowAssumption
    <2> DEFINE Places == {Place(Waits(u)) : u \in cycles}
    <2>4. Places \subseteq Nat /\ Places # {}
      BY <2>1, PlaceGrows
    <2>5. PICK n \in Places : \A m \in Places : n <= m
      BY <2>4, LeastNumber
    <2>6. PICK u \in cycles : n = Place(Waits(u))
      BY <2>5
    <2>7. PICK w \in cycles : u = Blocker(w)
      BY <2>1
    <2>8. Place(Waits(w)) < n /\ Place(Waits(w)) \in Places
      BY <2>3, <2>6, <2>7
    <2> QED
      BY <2>4, <2>5, <2>8
  <1> QED
    BY <1>1, InitInOrder, NextInOrder, Invariant, PTL DEF Spec
=============================================================================
