----------------------------- MODULE Beneficiary -----------------------------
(***************************************************************************)
(* The account a payment goes to.  A vendor's bank account counts only     *)
(* after two finance users have entered it, one after the other            *)
(* (vendor.service.ts); a payment run freezes the account and the name of  *)
(* the vendor when it is planned (beneficiary-snapshot.ts), and the bank   *)
(* file of the run is built from what is frozen (payment-run.service.ts,   *)
(* batch.ts), as often as finance asks for it, while vendors are renamed   *)
(* and accounts replaced.                                                  *)
(*                                                                         *)
(* The row lock of the vendor makes an entry and a plan one step each.     *)
(* The bank file is read without a lock: a step that reads the status of   *)
(* the run, and a later one that reads its lines and hands the file over.  *)
(* Who may decide on a run, and what an order has to do with it, is in     *)
(* Payables; a run here keeps what its file and its journal depend on.     *)
(***************************************************************************)
EXTENDS Naturals, FiniteSets

CONSTANTS
  Vendor,      \* vendors
  Invoice,     \* matched invoices, payable unless a run claims or has paid them
  VendorOf,    \* invoice -> vendor
  Run,         \* payment runs
  User,        \* finance principals
  Account,     \* normalized bank accounts
  Nobody,      \* no principal
  NoAccount,   \* no account
  MaxEntries,  \* bound: entries of bank accounts
  MaxRenames   \* bound: renames of a vendor

ASSUME BeneficiaryAssumption ==
  /\ VendorOf \in [Invoice -> Vendor]
  /\ Nobody \notin User /\ NoAccount \notin Account
  /\ MaxEntries \in Nat /\ MaxRenames \in Nat

VARIABLES
  account,     \* vendor.bankAccount
  verified,    \* vendor.bankAccountVerifiedAt and VerifiedBy are set
  submitter,   \* vendor.bankAccountSubmittedBy; set exactly while bankAccountChangedAt is
  name,        \* vendor.name, as the number of renames
  runStatus,   \* paymentRun.status; "none" before the row exists
  line,        \* paymentRunLine.status of an invoice on a run; "none" without a line
  frozen,      \* paymentRunLine.beneficiarySnapshot
  reading,     \* runs for which generateBatch has read the status, not yet the lines
  files,       \* the bank files handed over, per run
  entries,     \* how many entries of accounts there were
  lastEntry,   \* history: the latest entry for a vendor, its account and user
  payee,       \* history: the account that two users entered and nobody replaced since
  due          \* history: what each line owes to whom, noted when its run was planned

masterVars  == <<account, verified, submitter, name>>
runVars     == <<runStatus, line, frozen>>
fileVars    == <<reading, files>>
historyVars == <<entries, lastEntry, payee>>
beneficiaryVars == <<masterVars, runVars, fileVars, historyVars, due>>

NoBeneficiary == [account |-> NoAccount, name |-> 0]

BeneficiaryInit ==
  /\ account = [v \in Vendor |-> NoAccount]
  /\ verified = [v \in Vendor |-> FALSE]
  /\ submitter = [v \in Vendor |-> Nobody]
  /\ name = [v \in Vendor |-> 0]
  /\ runStatus = [r \in Run |-> "none"]
  /\ line = [r \in Run |-> [i \in Invoice |-> "none"]]
  /\ frozen = [r \in Run |-> [i \in Invoice |-> NoBeneficiary]]
  /\ reading = {}
  /\ files = [r \in Run |-> {}]
  /\ entries = 0
  /\ lastEntry = [v \in Vendor |-> <<NoAccount, Nobody>>]
  /\ payee = [v \in Vendor |-> NoAccount]
  /\ due = [r \in Run |-> << >>]
-----------------------------------------------------------------------------
(* The vendor master. *)

\* What the entry of an account makes of the history: the second of two users in a row
\* makes it the payee, an entry of another account ends the old one.
Entered(u, v, a) ==
  /\ entries < MaxEntries
  /\ entries' = entries + 1
  /\ lastEntry' = [lastEntry EXCEPT ![v] = <<a, u>>]
  /\ payee' = [payee EXCEPT ![v] = IF lastEntry[v][1] # a THEN NoAccount
                                   ELSE IF lastEntry[v][2] # u THEN a
                                   ELSE payee[v]]

\* Mutant of MayConfirm: whoever has submitted the account.
AnyoneMayConfirm(u, v) == TRUE

\* The second entry has to come from a different user.
MayConfirm(u, v) == submitter[v] # u

\* verifyBankAccount for an account that differs from the stored one: it is stored, not
\* payable, and waits for its confirmation.
SubmitAccount(u, v, a) ==
  /\ account[v] # a
  /\ account' = [account EXCEPT ![v] = a]
  /\ verified' = [verified EXCEPT ![v] = FALSE]
  /\ submitter' = [submitter EXCEPT ![v] = u]
  /\ Entered(u, v, a)
  /\ UNCHANGED <<name, runVars, fileVars, due>>

\* verifyBankAccount for the account that waits: the entry confirms it.  (An entry of the
\* account that is verified already returns the vendor as it is.)
ConfirmAccount(u, v) ==
  /\ submitter[v] # Nobody
  /\ MayConfirm(u, v)
  /\ verified' = [verified EXCEPT ![v] = TRUE]
  /\ submitter' = [submitter EXCEPT ![v] = Nobody]
  /\ Entered(u, v, account[v])
  /\ UNCHANGED <<account, name, runVars, fileVars, due>>

\* update, and ingestVendors of the ERP, write descriptive fields, among them the name.
Rename(v) ==
  /\ name[v] < MaxRenames
  /\ name' = [name EXCEPT ![v] = @ + 1]
  /\ UNCHANGED <<account, verified, submitter, runVars, fileVars, historyVars, due>>
-----------------------------------------------------------------------------
(* Payment runs. *)

\* freezeBeneficiary refuses an account that is not verified or was changed since.
Freezable(v) == account[v] # NoAccount /\ verified[v] /\ submitter[v] = Nobody

\* An unvoided run has a planned line for the invoice, or a run has paid it.
Taken(i) ==
  \E r \in Run : \/ line[r][i] = "planned" /\ runStatus[r] # "voided"
                 \/ line[r][i] = "paid"

\* create, under the locks of the invoices and their vendors.
Plan(r, invoices) ==
  /\ runStatus[r] = "none"
  /\ invoices # {}
  /\ \A i \in invoices : ~Taken(i) /\ Freezable(VendorOf[i])
  /\ runStatus' = [runStatus EXCEPT ![r] = "draft"]
  /\ line' = [line EXCEPT ![r] = [i \in Invoice |-> IF i \in invoices THEN "planned" ELSE "none"]]
  /\ frozen' = [frozen EXCEPT ![r] =
       [i \in Invoice |-> IF i \in invoices
                          THEN [account |-> account[VendorOf[i]], name |-> name[VendorOf[i]]]
                          ELSE NoBeneficiary]]
  /\ due' = [due EXCEPT ![r] =
       [i \in invoices |-> [account |-> payee[VendorOf[i]], name |-> name[VendorOf[i]]]]]
  /\ UNCHANGED <<masterVars, fileVars, historyVars>>

\* approve, execute and voidRun move a run on from what they read.
Decide(r, from, to) ==
  /\ runStatus[r] \in from
  /\ runStatus' = [runStatus EXCEPT ![r] = to]
  /\ UNCHANGED <<masterVars, line, frozen, fileVars, historyVars, due>>

Approve(r) == Decide(r, {"draft"}, "approved")
Execute(r) == Decide(r, {"approved"}, "executed")
Void(r)    == Decide(r, {"draft", "approved"}, "voided")

\* reconcile, under the lock of the run: a bank outcome, and the last one closes the run.
Reconcile(r, i, outcome) ==
  /\ runStatus[r] = "executed"
  /\ line[r][i] = "planned"
  /\ line' = [line EXCEPT ![r][i] = outcome]
  /\ runStatus' = IF \E j \in Invoice \ {i} : line[r][j] = "planned"
                  THEN runStatus
                  ELSE [runStatus EXCEPT ![r] = "reconciled"]
  /\ UNCHANGED <<masterVars, frozen, fileVars, historyVars, due>>
-----------------------------------------------------------------------------
(* The bank file. *)

Lines(r) == {i \in Invoice : line[r][i] # "none"}

\* generateBatch reads the run ...
ReadRunForFile(r) ==
  /\ runStatus[r] \in {"approved", "executed"}
  /\ reading' = reading \cup {r}
  /\ UNCHANGED <<masterVars, runVars, files, historyVars, due>>

\* buildPaymentBatch: one credit per line, whatever its status, from what is frozen.
Credits(r) == [i \in Lines(r) |-> frozen[r][i]]

\* ... and then its lines, and hands the file over.
HandOver(r) ==
  /\ r \in reading
  /\ reading' = reading \ {r}
  /\ files' = [files EXCEPT ![r] = @ \cup {Credits(r)}]
  /\ UNCHANGED <<masterVars, runVars, historyVars, due>>
-----------------------------------------------------------------------------
MasterStep ==
  \E v \in Vendor :
    \/ Rename(v)
    \/ \E u \in User : ConfirmAccount(u, v) \/ \E a \in Account : SubmitAccount(u, v, a)

RunStep ==
  \E r \in Run :
    \/ \E invoices \in SUBSET Invoice : Plan(r, invoices)
    \/ Approve(r)
    \/ Execute(r)
    \/ Void(r)
    \/ \E i \in Invoice, outcome \in {"paid", "dishonored", "rejected"} : Reconcile(r, i, outcome)
    \/ ReadRunForFile(r)
    \/ HandOver(r)

BeneficiaryNext == MasterStep \/ RunStep

BeneficiarySpec == BeneficiaryInit /\ [][BeneficiaryNext]_beneficiaryVars
-----------------------------------------------------------------------------
(* Properties. *)

Snapshot == [account : Account \cup {NoAccount}, name : 0 .. MaxRenames]

BeneficiaryTypeOK ==
  /\ account \in [Vendor -> Account \cup {NoAccount}]
  /\ verified \in [Vendor -> BOOLEAN]
  /\ submitter \in [Vendor -> User \cup {Nobody}]
  /\ name \in [Vendor -> 0 .. MaxRenames]
  /\ runStatus \in [Run -> {"none", "draft", "approved", "executed", "reconciled", "voided"}]
  /\ line \in [Run -> [Invoice -> {"none", "planned", "paid", "dishonored", "rejected"}]]
  /\ frozen \in [Run -> [Invoice -> Snapshot]]
  /\ reading \subseteq Run
  /\ entries \in 0 .. MaxEntries
  /\ lastEntry \in [Vendor -> (Account \cup {NoAccount}) \X (User \cup {Nobody})]
  /\ payee \in [Vendor -> Account \cup {NoAccount}]
  /\ \A r \in Run : due[r] \in UNION {[lines -> Snapshot] : lines \in SUBSET Invoice}

\* docs/spec.md: a change of a bank account is confirmed before it appears on a payment
\* run; generateBatch: "regeneration yields byte-identical output".  Whatever is entered,
\* replaced, entered again and renamed, by whom and when: every bank file of a run, however
\* late it is built, credits each line to the vendor as it was named, and to the account
\* that two different users had entered one after the other and nobody had replaced since,
\* when the run was planned.
FilesPayConfirmed ==
  \A r \in Run : \A f \in files[r] :
    f = due[r] /\ \A i \in DOMAIN f : f[i].account # NoAccount
=============================================================================
