----------------------------- MODULE LedgerProofs -----------------------------
(***************************************************************************)
(* Proofs about Beneficiary and LedgerExport, for any vendors, accounts,   *)
(* finance users, invoices and runs, and any number of entries, renames,   *)
(* exports, pushes, failures and resolutions.                              *)
(***************************************************************************)
EXTENDS LedgerExport, FiniteSetTheorems, TLAPS
-----------------------------------------------------------------------------
(* Beneficiary: the vendor master and the runs alone. *)

\* The shape of the variables, as far as the proofs need it.
Shape ==
  /\ account \in [Vendor -> Account \cup {NoAccount}]
  /\ verified \in [Vendor -> BOOLEAN]
  /\ submitter \in [Vendor -> User \cup {Nobody}]
  /\ name \in [Vendor -> Nat]
  /\ lastEntry \in [Vendor -> (Account \cup {NoAccount}) \X (User \cup {Nobody})]
  /\ payee \in [Vendor -> Account \cup {NoAccount}]
  /\ runStatus \in [Run -> {"none", "draft", "approved", "executed", "reconciled", "voided"}]
  /\ line \in [Run -> [Invoice -> {"none", "planned", "paid", "dishonored", "rejected"}]]
  /\ frozen \in [Run -> [Invoice -> [account : Account \cup {NoAccount}, name : Nat]]]
  /\ reading \subseteq Run
  /\ files = [r \in Run |-> files[r]]
  /\ due = [r \in Run |-> due[r]]

\* What the columns of a vendor say about the entries of its account: it is the latest one,
\* the submitter is who entered it, and a verified one is the payee.
PayeeInv ==
  \A v \in Vendor :
    /\ lastEntry[v][1] = account[v]
    /\ submitter[v] # Nobody => lastEntry[v][2] = submitter[v]
    /\ verified[v] => payee[v] = account[v]

\* What a run owes is what its lines have frozen, and its files are of that.
FileInv ==
  \A r \in Run :
    /\ runStatus[r] = "none" => r \notin reading /\ files[r] = {}
    /\ runStatus[r] # "none" =>
         due[r] = Credits(r) /\ \A i \in Lines(r) : frozen[r][i].account # NoAccount
    /\ \A f \in files[r] : f = due[r]

\* The inductive invariant.  FilesPayConfirmed speaks of files; why a plan may trust a
\* verified account is in PayeeInv.
BeneficiaryInv == Shape /\ PayeeInv /\ FileInv
-----------------------------------------------------------------------------
LEMMA InitBeneficiaryInv == BeneficiaryInit => BeneficiaryInv
  BY BeneficiaryAssumption
     DEF BeneficiaryInit, BeneficiaryInv, Shape, PayeeInv, FileInv, NoBeneficiary, Lines, Credits

\* An entry of an account leaves the latest entry and, if it is the second of two users,
\* the payee.
LEMMA EnteredEffect ==
  ASSUME Shape, NEW u \in User, NEW v \in Vendor, NEW a \in Account, Entered(u, v, a)
  PROVE  /\ lastEntry' \in [Vendor -> (Account \cup {NoAccount}) \X (User \cup {Nobody})]
         /\ payee' \in [Vendor -> Account \cup {NoAccount}]
         /\ lastEntry'[v][1] = a /\ lastEntry'[v][2] = u
         /\ lastEntry[v][1] = a /\ lastEntry[v][2] # u => payee'[v] = a
         /\ \A w \in Vendor \ {v} : lastEntry'[w] = lastEntry[w] /\ payee'[w] = payee[w]
  BY DEF Entered, Shape

\* The master data of vendors is no part of FileInv.
LEMMA MasterStepInv ==
  ASSUME BeneficiaryInv, MasterStep
  PROVE  BeneficiaryInv'
  <1> USE DEF BeneficiaryInv
  <1>1. UNCHANGED <<runVars, fileVars, due>>
    BY DEF MasterStep, Rename, ConfirmAccount, SubmitAccount
  <1>2. FileInv'
    BY <1>1 DEF FileInv, Lines, Credits, runVars, fileVars
  <1>3. ASSUME NEW v \in Vendor, Rename(v)
        PROVE  Shape' /\ PayeeInv'
    BY <1>1, <1>3 DEF Rename, Shape, PayeeInv, runVars, fileVars, historyVars
  <1>4. ASSUME NEW v \in Vendor, NEW u \in User, NEW a \in Account, SubmitAccount(u, v, a)
        PROVE  Shape' /\ PayeeInv'
    <2>1. Entered(u, v, a)
      BY <1>4 DEF SubmitAccount
    <2>2. Shape'
      BY <1>1, <1>4, <2>1, EnteredEffect DEF SubmitAccount, Shape, runVars, fileVars
    <2>3. ASSUME NEW w \in Vendor
          PROVE  /\ lastEntry'[w][1] = account'[w]
                 /\ submitter'[w] # Nobody => lastEntry'[w][2] = submitter'[w]
                 /\ verified'[w] => payee'[w] = account'[w]
      BY <1>4, <2>1, EnteredEffect DEF SubmitAccount, Shape, PayeeInv
    <2> QED
      BY <2>2, <2>3 DEF PayeeInv
  <1>5. ASSUME NEW v \in Vendor, NEW u \in User, ConfirmAccount(u, v)
        PROVE  Shape' /\ PayeeInv'
    <2>1. Entered(u, v, account[v]) /\ submitter[v] # Nobody /\ submitter[v] # u
      BY <1>5 DEF ConfirmAccount, MayConfirm
    <2>2. account[v] \in Account \cup {NoAccount}
      BY DEF Shape
    <2>3. Shape'
      BY <1>1, <1>5, <2>1 DEF ConfirmAccount, Shape, runVars, fileVars, Entered
    <2>4. lastEntry[v] = <<account[v], submitter[v]>>
      BY <2>1 DEF Shape, PayeeInv
    <2>5. /\ lastEntry' = [lastEntry EXCEPT ![v] = <<account[v], u>>]
          /\ payee' = [payee EXCEPT ![v] = account[v]]
      BY <2>1, <2>4 DEF Entered, Shape
    <2>6. ASSUME NEW w \in Vendor
          PROVE  /\ lastEntry'[w][1] = account'[w]
                 /\ submitter'[w] # Nobody => lastEntry'[w][2] = submitter'[w]
                 /\ verified'[w] => payee'[w] = account'[w]
      BY <1>5, <2>5 DEF ConfirmAccount, Shape, PayeeInv
    <2> QED
      BY <2>3, <2>6 DEF PayeeInv
  <1> QED
    BY <1>2, <1>3, <1>4, <1>5 DEF MasterStep

\* A plan freezes what it owes.
LEMMA PlanFileInv ==
  ASSUME BeneficiaryInv, NEW r \in Run, NEW invoices \in SUBSET Invoice, Plan(r, invoices)
  PROVE  Shape' /\ FileInv'
  <1> USE DEF BeneficiaryInv
  <1>1. \A i \in invoices : /\ VendorOf[i] \in Vendor
                            /\ account[VendorOf[i]] \in Account
                            /\ account[VendorOf[i]] # NoAccount
                            /\ payee[VendorOf[i]] = account[VendorOf[i]]
    BY BeneficiaryAssumption DEF Plan, Freezable, Shape, PayeeInv
  <1>2. /\ line' = [line EXCEPT ![r] = [i \in Invoice |-> IF i \in invoices THEN "planned" ELSE "none"]]
        /\ runStatus' = [runStatus EXCEPT ![r] = "draft"]
        /\ due' = [due EXCEPT ![r] =
             [i \in invoices |-> [account |-> payee[VendorOf[i]], name |-> name[VendorOf[i]]]]]
        /\ frozen' = [frozen EXCEPT ![r] =
             [i \in Invoice |-> IF i \in invoices
                                THEN [account |-> account[VendorOf[i]], name |-> name[VendorOf[i]]]
                                ELSE [account |-> NoAccount, name |-> 0]]]
        /\ runStatus[r] = "none"
        /\ UNCHANGED <<masterVars, fileVars, historyVars>>
    BY DEF Plan, NoBeneficiary
  <1>3. Shape'
    BY <1>1, <1>2 DEF Shape, masterVars, fileVars, historyVars
  <1>4. Lines(r)' = invoices
    BY <1>2 DEF Lines, Shape
  <1>5. due'[r] = [i \in invoices |-> frozen'[r][i]] /\ \A i \in invoices : frozen'[r][i].account # NoAccount
    BY <1>1, <1>2 DEF Shape
  <1>6. due'[r] = Credits(r)' /\ \A i \in Lines(r)' : frozen'[r][i].account # NoAccount
    BY <1>4, <1>5 DEF Credits
  <1>7. files'[r] = {} /\ runStatus'[r] = "draft"
    BY <1>2 DEF Shape, FileInv, fileVars
  <1>8. \A q \in Run \ {r} : /\ runStatus'[q] = runStatus[q] /\ files'[q] = files[q]
                             /\ due'[q] = due[q] /\ line'[q] = line[q] /\ frozen'[q] = frozen[q]
                             /\ reading' = reading
    BY <1>2 DEF Shape, fileVars
  <1>9. \A q \in Run \ {r} : Lines(q)' = Lines(q) /\ Credits(q)' = Credits(q)
    BY <1>8 DEF Lines, Credits
  <1> QED
    BY <1>3, <1>6, <1>7, <1>8, <1>9 DEF FileInv

\* A step that mints no run, and leaves frozen beneficiaries and the set of lines alone.
LEMMA LinesKeepFileInv ==
  ASSUME BeneficiaryInv, UNCHANGED <<frozen, due, files>>,
         \A r \in Run : Lines(r)' = Lines(r),
         \A r \in Run : runStatus'[r] = "none" <=> runStatus[r] = "none",
         \A r \in Run : r \in reading' /\ r \notin reading => runStatus[r] # "none"
  PROVE  FileInv'
  <1>1. \A r \in Run : Credits(r)' = Credits(r)
    BY DEF Credits
  <1> QED
    BY <1>1 DEF FileInv, BeneficiaryInv

LEMMA RunStepInv ==
  ASSUME BeneficiaryInv, RunStep
  PROVE  BeneficiaryInv'
  <1> USE DEF BeneficiaryInv
  <1>1. UNCHANGED <<masterVars, historyVars>>
    BY DEF RunStep, Plan, Approve, Execute, Void, Decide, Reconcile, ReadRunForFile, HandOver
  <1>2. PayeeInv'
    BY <1>1 DEF PayeeInv, masterVars, historyVars
  <1>3. ASSUME NEW r \in Run, NEW invoices \in SUBSET Invoice, Plan(r, invoices)
        PROVE  Shape' /\ FileInv'
    BY <1>3, PlanFileInv
  <1>4. ASSUME NEW r \in Run, Approve(r) \/ Execute(r) \/ Void(r)
        PROVE  Shape' /\ FileInv'
    <2>1. /\ UNCHANGED <<line, frozen, due, files, reading>>
          /\ runStatus' \in [Run -> {"none", "draft", "approved", "executed", "reconciled", "voided"}]
          /\ \A q \in Run : runStatus'[q] = "none" <=> runStatus[q] = "none"
      BY <1>4 DEF Approve, Execute, Void, Decide, Shape, fileVars
    <2>2. Shape'
      BY <1>1, <2>1 DEF Shape, masterVars, historyVars
    <2>3. \A q \in Run : Lines(q)' = Lines(q)
      BY <2>1 DEF Lines
    <2> QED
      BY <2>1, <2>2, <2>3, LinesKeepFileInv
  <1>5. ASSUME NEW r \in Run, NEW i \in Invoice, NEW outcome \in {"paid", "dishonored", "rejected"},
               Reconcile(r, i, outcome)
        PROVE  Shape' /\ FileInv'
    <2>1. /\ UNCHANGED <<frozen, due, files, reading>>
          /\ line' = [line EXCEPT ![r][i] = outcome]
          /\ line[r][i] = "planned"
          /\ runStatus' \in [Run -> {"none", "draft", "approved", "executed", "reconciled", "voided"}]
          /\ \A q \in Run : runStatus'[q] = "none" <=> runStatus[q] = "none"
      BY <1>5 DEF Reconcile, Shape, fileVars
    <2>2. line' \in [Run -> [Invoice -> {"none", "planned", "paid", "dishonored", "rejected"}]]
      BY <2>1 DEF Shape
    <2>3. Shape'
      BY <1>1, <2>1, <2>2 DEF Shape, masterVars, historyVars
    <2>4. \A q \in Run, j \in Invoice : line'[q][j] = "none" <=> line[q][j] = "none"
      BY <2>1 DEF Shape
    <2>5. \A q \in Run : Lines(q)' = Lines(q)
      BY <2>4 DEF Lines
    <2> QED
      BY <2>1, <2>3, <2>5, LinesKeepFileInv
  <1>6. ASSUME NEW r \in Run, ReadRunForFile(r)
        PROVE  Shape' /\ FileInv'
    <2>1. /\ UNCHANGED <<runVars, files, due>>
          /\ reading' = reading \cup {r} /\ runStatus[r] # "none"
      BY <1>6 DEF ReadRunForFile
    <2>2. Shape'
      BY <1>1, <2>1 DEF Shape, masterVars, historyVars, runVars
    <2>3. \A q \in Run : Lines(q)' = Lines(q)
      BY <2>1 DEF Lines, runVars
    <2> QED
      BY <2>1, <2>2, <2>3, LinesKeepFileInv DEF runVars
  <1>7. ASSUME NEW r \in Run, HandOver(r)
        PROVE  Shape' /\ FileInv'
    <2>1. /\ UNCHANGED <<runVars, due>>
          /\ r \in reading /\ reading' = reading \ {r}
          /\ files' = [files EXCEPT ![r] = files[r] \cup {Credits(r)}]
      BY <1>7 DEF HandOver
    <2>2. Shape'
      BY <1>1, <2>1 DEF Shape, masterVars, historyVars, runVars
    <2>3. Credits(r) = due[r] /\ runStatus[r] # "none"
      BY <2>1 DEF FileInv
    <2>4. \A q \in Run : Lines(q)' = Lines(q) /\ Credits(q)' = Credits(q)
      BY <2>1 DEF Lines, Credits, runVars
    <2>5. \A q \in Run : files'[q] = IF q = r THEN files[q] \cup {Credits(r)} ELSE files[q]
      BY <2>1 DEF Shape
    <2> QED
      BY <2>1, <2>2, <2>3, <2>4, <2>5 DEF FileInv, runVars
  <1> QED
    BY <1>2, <1>3, <1>4, <1>5, <1>6, <1>7 DEF RunStep

LEMMA StutterInv ==
  ASSUME BeneficiaryInv, UNCHANGED beneficiaryVars
  PROVE  BeneficiaryInv'
  <1> USE DEF BeneficiaryInv, beneficiaryVars, masterVars, runVars, fileVars, historyVars
  <1>1. Shape'
    BY DEF Shape
  <1>2. PayeeInv'
    BY DEF PayeeInv
  <1>3. \A r \in Run : Lines(r)' = Lines(r)
    BY DEF Lines
  <1> QED
    BY <1>1, <1>2, <1>3, LinesKeepFileInv

LEMMA NextBeneficiaryInv == BeneficiaryInv /\ [BeneficiaryNext]_beneficiaryVars => BeneficiaryInv'
  BY MasterStepInv, RunStepInv, StutterInv DEF BeneficiaryNext

LEMMA InvPaysConfirmed == BeneficiaryInv => FilesPayConfirmed
  <1> SUFFICES ASSUME BeneficiaryInv, NEW r \in Run, NEW f \in files[r]
               PROVE  f = due[r] /\ \A i \in DOMAIN f : f[i].account # NoAccount
    BY DEF FilesPayConfirmed
  <1>1. f = due[r] /\ runStatus[r] # "none"
    BY DEF BeneficiaryInv, FileInv
  <1>2. f = [i \in Lines(r) |-> frozen[r][i]] /\ \A i \in Lines(r) : frozen[r][i].account # NoAccount
    BY <1>1 DEF BeneficiaryInv, FileInv, Credits
  <1> QED
    BY <1>1, <1>2

\* Every bank file of a run, however late it is built (generateBatch), credits what two users
\* had confirmed when the run was planned (verifyBankAccount, freezeBeneficiary), for any
\* vendors, users, runs, entries and renames.
THEOREM FilesPayConfirmedAlways == BeneficiarySpec => []FilesPayConfirmed
  BY InitBeneficiaryInv, NextBeneficiaryInv, InvPaysConfirmed, PTL DEF BeneficiarySpec
-----------------------------------------------------------------------------
(* LedgerExport. *)

\* The shape of the variables, as far as the proofs need it.
ExportShape ==
  /\ drafted = [u \in User |-> drafted[u]]
  /\ \A u \in User : drafted[u].run \in Run \cup {NoRun}
  /\ exported \in [Run -> {"none", "exported", "posted", "rejected"}]
  /\ manifest = [r \in Run |-> manifest[r]]
  /\ handed = [r \in Run |-> handed[r]]

PushShape ==
  /\ claim \in [Run -> User \cup {Nobody}]
  /\ ambiguous \in [Run -> BOOLEAN]
  /\ pushing \in [User -> [run : Run \cup {NoRun},
                           phase : {"idle", "claimed", "posted", "accepted", "failed"}]]
  /\ \A u \in User : pushing[u].phase # "idle" => pushing[u].run \in Run
  /\ underway \subseteq User \X Run
  /\ journals \in [Run -> Nat]
  /\ quiet \in [Run -> BOOLEAN]

\* Nothing but what is frozen was handed to anyone.
ManifestInv ==
  \A r \in Run : handed[r] \subseteq (IF exported[r] = "none" THEN {} ELSE {manifest[r]})

\* A run has nothing at the provider and nothing on its way to it.
Unposted(r) == journals[r] = 0 /\ \A u \in User : <<u, r>> \notin underway

\* A push and its posting belong to the claim of the run, which is drawn once; what was not
\* claimed or not posted yet is not at the provider, and what is on its way has not arrived.
ClaimInv ==
  \A r \in Run :
    /\ claim[r] # Nobody => exported[r] # "none"
    /\ claim[r] = Nobody => Unposted(r)
    /\ journals[r] <= 1
    /\ \A u \in User :
         /\ pushing[u].run = r => claim[r] = u
         /\ pushing[u].run = r /\ pushing[u].phase = "claimed" => Unposted(r)
         /\ pushing[u].run = r /\ pushing[u].phase = "accepted" => journals[r] > 0
         /\ <<u, r>> \in underway => claim[r] = u /\ journals[r] = 0

\* What the record says of a claimed run that nobody has resolved under a working push; a
\* rejected one has no push left that could change it.
RecordInv ==
  \A r \in Run :
    claim[r] # Nobody /\ quiet[r] =>
      /\ exported[r] = "posted" => journals[r] > 0
      /\ exported[r] = "rejected" => Unposted(r) /\ \A u \in User : pushing[u].run # r

LedgerInv == ExportShape /\ PushShape /\ ManifestInv /\ ClaimInv /\ RecordInv
-----------------------------------------------------------------------------
LEMMA InitLedgerInv == Init => LedgerInv
  BY NoRunAssumption
     DEF Init, LedgerInv, ExportShape, PushShape, ManifestInv, ClaimInv, RecordInv, Unposted,
         NoDraft, NoPush

\* What only moves documents leaves the claims and the record alone, as long as it exports
\* no run that is exported already.
LEMMA ExportKeepsClaims ==
  ASSUME LedgerInv, UNCHANGED pushVars,
         exported' \in [Run -> {"none", "exported", "posted", "rejected"}],
         \A r \in Run : exported'[r] = exported[r] \/ (exported[r] = "none" /\ exported'[r] = "exported")
  PROVE  PushShape' /\ ClaimInv' /\ RecordInv'
  <1> USE DEF LedgerInv, pushVars
  <1>1. PushShape'
    BY DEF PushShape
  <1>2. \A r \in Run : Unposted(r)' = Unposted(r)
    BY DEF Unposted
  <1>3. ClaimInv'
    BY <1>2 DEF ClaimInv
  <1>4. RecordInv'
    BY <1>2 DEF RecordInv
  <1> QED
    BY <1>1, <1>3, <1>4

LEMMA ExportStepInv ==
  ASSUME LedgerInv, NEW u \in User, NEW r \in Run,
         BeginExport(u, r) \/ CommitExport(u)
  PROVE  LedgerInv'
  <1> USE DEF LedgerInv
  <1>1. CASE BeginExport(u, r)
    <2>1. UNCHANGED <<exported, manifest, handed, pushVars>>
      BY <1>1 DEF BeginExport
    <2>2. ExportShape' /\ ManifestInv'
      BY <1>1, <2>1 DEF BeginExport, ExportShape, ManifestInv
    <2> QED
      BY <2>1, <2>2, ExportKeepsClaims DEF ExportShape
  <1>2. CASE CommitExport(u)
    <2> DEFINE q == drafted[u].run
    <2>1. q \in Run /\ UNCHANGED pushVars /\ drafted' = [drafted EXCEPT ![u] = NoDraft]
      BY <1>2 DEF CommitExport, ExportShape
    <2>2. CASE exported[q] # "none"
      <3>1. UNCHANGED <<exported, manifest, handed>>
        BY <1>2, <2>2 DEF CommitExport, RunTaken
      <3>2. ExportShape' /\ ManifestInv'
        BY <2>1, <3>1 DEF ExportShape, ManifestInv, NoDraft
      <3> QED
        BY <2>1, <3>1, <3>2, ExportKeepsClaims DEF ExportShape
    <2>3. CASE exported[q] = "none"
      <3>1. /\ exported' = [exported EXCEPT ![q] = "exported"]
            /\ manifest' = [manifest EXCEPT ![q] = drafted[u].manifest]
            /\ handed' = [handed EXCEPT ![q] = handed[q] \cup {drafted[u].manifest}]
        BY <1>2, <2>3 DEF CommitExport, RunTaken
      <3>2. ExportShape'
        BY <2>1, <3>1 DEF ExportShape, NoDraft
      <3>3. handed[q] = {}
        BY <2>1, <2>3 DEF ManifestInv
      <3>4. /\ handed'[q] = {manifest'[q]} /\ exported'[q] = "exported"
            /\ \A s \in Run \ {q} : /\ handed'[s] = handed[s] /\ manifest'[s] = manifest[s]
                                    /\ exported'[s] = exported[s]
        BY <2>1, <3>1, <3>3 DEF ExportShape
      <3>5. ManifestInv'
        BY <3>4 DEF ManifestInv
      <3>6. \A s \in Run : exported'[s] = exported[s] \/ (exported[s] = "none" /\ exported'[s] = "exported")
        BY <2>3, <3>4
      <3> QED
        BY <2>1, <3>2, <3>5, <3>6, ExportKeepsClaims DEF ExportShape
    <2> QED
      BY <2>2, <2>3
  <1> QED
    BY <1>1, <1>2

LEMMA ServeInv ==
  ASSUME LedgerInv, NEW r \in Run, Serve(r)
  PROVE  LedgerInv'
  <1> USE DEF LedgerInv
  <1>1. /\ UNCHANGED <<drafted, exported, manifest, pushVars>>
        /\ exported[r] # "none"
        /\ handed' = [handed EXCEPT ![r] = handed[r] \cup {manifest[r]}]
    BY DEF Serve
  <1>2. ExportShape' /\ ManifestInv'
    BY <1>1 DEF ExportShape, ManifestInv
  <1> QED
    BY <1>1, <1>2, ExportKeepsClaims DEF ExportShape
-----------------------------------------------------------------------------
\* A step of a push that leaves the export's row alone disturbs the claims only.
LEMMA RowKeepsDocuments ==
  ASSUME LedgerInv, UNCHANGED exportVars
  PROVE  ExportShape' /\ ManifestInv'
  BY DEF LedgerInv, ExportShape, ManifestInv, exportVars

LEMMA PreparePushInv ==
  ASSUME LedgerInv, NEW u \in User, NEW r \in Run, PreparePush(u, r)
  PROVE  LedgerInv'
  <1> USE DEF LedgerInv
  <1>1. /\ UNCHANGED <<drafted, exported, manifest, underway, journals, quiet>>
        /\ exported[r] = "exported" /\ claim[r] = Nobody
        /\ claim' = [claim EXCEPT ![r] = u]
        /\ ambiguous' = [ambiguous EXCEPT ![r] = FALSE]
        /\ handed' = [handed EXCEPT ![r] = handed[r] \cup {manifest[r]}]
        /\ pushing' = [pushing EXCEPT ![u] = [run |-> r, phase |-> "claimed"]]
    BY DEF PreparePush, MayClaim, Go
  <1>2. ExportShape' /\ ManifestInv'
    BY <1>1 DEF ExportShape, ManifestInv
  <1>3. PushShape'
    BY <1>1 DEF PushShape
  <1>4. \A q \in Run : Unposted(q)' = Unposted(q)
    BY <1>1 DEF Unposted
  <1>5. /\ Unposted(r) /\ u # Nobody
        /\ \A w \in User : pushing[w].run # r /\ <<w, r>> \notin underway
    BY <1>1, BeneficiaryAssumption DEF ClaimInv
  <1>6. ClaimInv'
    <2> SUFFICES ASSUME NEW q \in Run
                 PROVE  /\ claim'[q] # Nobody => exported'[q] # "none"
                        /\ claim'[q] = Nobody => Unposted(q)'
                        /\ journals'[q] <= 1
                        /\ \A w \in User :
                             /\ pushing'[w].run = q => claim'[q] = w
                             /\ pushing'[w].run = q /\ pushing'[w].phase = "claimed" => Unposted(q)'
                             /\ pushing'[w].run = q /\ pushing'[w].phase = "accepted" => journals'[q] > 0
                             /\ <<w, q>> \in underway' => claim'[q] = w /\ journals'[q] = 0
      BY DEF ClaimInv
    <2>1. CASE q = r
      BY <2>1, <1>1, <1>4, <1>5 DEF PushShape, ClaimInv, ExportShape
    <2>2. CASE q # r
      BY <2>2, <1>1, <1>4 DEF PushShape, ClaimInv, ExportShape
    <2> QED
      BY <2>1, <2>2
  <1>7. RecordInv'
    BY <1>1, <1>4 DEF RecordInv, PushShape, ExportShape
  <1> QED
    BY <1>2, <1>3, <1>6, <1>7

LEMMA PostJournalInv ==
  ASSUME LedgerInv, NEW u \in User, PostJournal(u)
  PROVE  LedgerInv'
  <1> USE DEF LedgerInv
  <1> DEFINE r == pushing[u].run
  <1>1. /\ r \in Run /\ pushing[u].phase = "claimed"
        /\ UNCHANGED <<exportVars, claim, ambiguous, journals, quiet>>
    BY DEF PostJournal, PushShape
  <1>2. Unposted(r) /\ claim[r] = u
    BY <1>1 DEF ClaimInv
  <1>3. \/ /\ pushing' = [pushing EXCEPT ![u] = [run |-> r, phase |-> "posted"]]
           /\ underway' = underway \cup {<<u, r>>}
        \/ /\ pushing' = [pushing EXCEPT ![u] = [run |-> r, phase |-> "failed"]]
           /\ underway' = underway
    BY DEF PostJournal, Go
  <1>4. PushShape'
    BY <1>1, <1>3 DEF PushShape
  <1>5. /\ \A w \in User : pushing'[w].run = pushing[w].run
        /\ \A w \in User \ {u} : pushing'[w] = pushing[w]
        /\ pushing'[u].phase \in {"posted", "failed"}
        /\ \A w \in User, q \in Run : <<w, q>> \in underway' => <<w, q>> \in underway \/ (w = u /\ q = r)
    BY <1>1, <1>3 DEF PushShape
  <1>6. \A q \in Run \ {r} : Unposted(q) => Unposted(q)'
    BY <1>1, <1>5 DEF Unposted
  <1>7. ClaimInv'
    <2> SUFFICES ASSUME NEW q \in Run
                 PROVE  /\ claim'[q] # Nobody => exported'[q] # "none"
                        /\ claim'[q] = Nobody => Unposted(q)'
                        /\ journals'[q] <= 1
                        /\ \A w \in User :
                             /\ pushing'[w].run = q => claim'[q] = w
                             /\ pushing'[w].run = q /\ pushing'[w].phase = "claimed" => Unposted(q)'
                             /\ pushing'[w].run = q /\ pushing'[w].phase = "accepted" => journals'[q] > 0
                             /\ <<w, q>> \in underway' => claim'[q] = w /\ journals'[q] = 0
      BY DEF ClaimInv
    <2>1. CASE q = r
      <3>1. claim'[q] = u /\ journals'[q] = 0 /\ u # Nobody /\ exported'[q] = exported[q]
        BY <2>1, <1>1, <1>2, BeneficiaryAssumption DEF Unposted, exportVars
      <3>2. \A w \in User : pushing'[w].run = q => w = u
        <4>1. \A w \in User : pushing[w].run = q => claim[q] = w
          BY DEF ClaimInv
        <4> QED
          BY <4>1, <2>1, <1>2, <1>5
      <3>3. \A w \in User : <<w, q>> \in underway' => w = u
        BY <2>1, <1>2, <1>5 DEF Unposted
      <3>4. exported[q] # "none"
        BY <2>1, <1>2, <3>1 DEF ClaimInv
      <3> QED
        BY <3>1, <3>2, <3>3, <3>4, <1>5
    <2>2. CASE q # r
      BY <2>2, <1>1, <1>5, <1>6 DEF ClaimInv, exportVars
    <2> QED
      BY <2>1, <2>2
  <1>8. RecordInv'
    <2> SUFFICES ASSUME NEW q \in Run, claim[q] # Nobody, quiet[q]
                 PROVE  /\ exported[q] = "posted" => journals[q] > 0
                        /\ exported[q] = "rejected" => Unposted(q)' /\ \A w \in User : pushing'[w].run # q
      BY <1>1 DEF RecordInv, exportVars
    <2>1. exported[q] = "rejected" => q # r
      BY DEF RecordInv
    <2> QED
      BY <2>1, <1>5, <1>6 DEF RecordInv
  <1> QED
    BY <1>1, <1>4, <1>7, <1>8, RowKeepsDocuments

LEMMA AcceptInv ==
  ASSUME LedgerInv, NEW u \in User, NEW r \in Run, Accept(u, r)
  PROVE  LedgerInv'
  <1> USE DEF LedgerInv
  <1>1. /\ <<u, r>> \in underway
        /\ UNCHANGED <<exportVars, claim, ambiguous, quiet>>
        /\ underway' = underway \ {<<u, r>>}
        /\ \/ journals' = [journals EXCEPT ![r] = journals[r] + 1]
           \/ journals' = journals /\ pushing' = pushing
        /\ \/ pushing[u] = [run |-> r, phase |-> "posted"]
              /\ pushing' = [pushing EXCEPT ![u] = [run |-> r, phase |-> "accepted"]]
              /\ journals' = [journals EXCEPT ![r] = journals[r] + 1]
           \/ pushing' = pushing
    BY DEF Accept, Go
  <1>2. claim[r] = u /\ journals[r] = 0 /\ u # Nobody /\ ~Unposted(r)
    BY <1>1, BeneficiaryAssumption DEF ClaimInv, Unposted
  <1>3. PushShape'
    BY <1>1 DEF PushShape
  <1>4. /\ \A w \in User : pushing'[w].run = pushing[w].run
        /\ \A w \in User : pushing'[w].phase = pushing[w].phase
                          \/ (w = u /\ pushing[w].run = r /\ pushing'[w].phase = "accepted" /\ journals'[r] = 1)
        /\ journals'[r] \in {0, 1}
        /\ \A q \in Run \ {r} : journals'[q] = journals[q]
    BY <1>1, <1>2 DEF PushShape
  <1>5. \A q \in Run \ {r} : Unposted(q) => Unposted(q)'
    BY <1>1, <1>4 DEF Unposted
  <1>6. \A w \in User : <<w, r>> \notin underway'
    BY <1>1, <1>2 DEF ClaimInv
  <1>7. ClaimInv'
    <2> SUFFICES ASSUME NEW q \in Run
                 PROVE  /\ claim'[q] # Nobody => exported'[q] # "none"
                        /\ claim'[q] = Nobody => Unposted(q)'
                        /\ journals'[q] <= 1
                        /\ \A w \in User :
                             /\ pushing'[w].run = q => claim'[q] = w
                             /\ pushing'[w].run = q /\ pushing'[w].phase = "claimed" => Unposted(q)'
                             /\ pushing'[w].run = q /\ pushing'[w].phase = "accepted" => journals'[q] > 0
                             /\ <<w, q>> \in underway' => claim'[q] = w /\ journals'[q] = 0
      BY DEF ClaimInv
    <2>1. CASE q = r
      <3>1. \A w \in User : pushing'[w].run = q => w = u /\ pushing[w].phase # "claimed"
        <4>1. \A w \in User : pushing[w].run = q =>
                claim[q] = w /\ (pushing[w].phase = "claimed" => Unposted(q))
          BY DEF ClaimInv
        <4> QED
          BY <4>1, <2>1, <1>2, <1>4
      <3>2. \A w \in User : pushing[w].run = q => pushing[w].phase # "accepted"
        <4>1. \A w \in User : pushing[w].run = q /\ pushing[w].phase = "accepted" => journals[q] > 0
          BY DEF ClaimInv
        <4> QED
          BY <4>1, <2>1, <1>2
      <3>3. claim'[q] = u /\ exported'[q] # "none"
        BY <2>1, <1>1, <1>2 DEF ClaimInv, exportVars
      <3> QED
        BY <2>1, <3>1, <3>2, <3>3, <1>2, <1>4, <1>6
    <2>2. CASE q # r
      BY <2>2, <1>1, <1>4, <1>5 DEF ClaimInv, exportVars
    <2> QED
      BY <2>1, <2>2
  <1>8. RecordInv'
    <2> SUFFICES ASSUME NEW q \in Run, claim[q] # Nobody, quiet[q]
                 PROVE  /\ exported[q] = "posted" => journals'[q] > 0
                        /\ exported[q] = "rejected" => Unposted(q)' /\ \A w \in User : pushing'[w].run # q
      BY <1>1 DEF RecordInv, exportVars
    <2>1. exported[q] \in {"posted", "rejected"} => q # r
      BY <1>2 DEF RecordInv
    <2> QED
      BY <2>1, <1>4, <1>5 DEF RecordInv
  <1> QED
    BY <1>1, <1>3, <1>7, <1>8, RowKeepsDocuments

\* A push that ends or fails, with whatever it makes of the row: it leaves a posted export
\* only after the provider has accepted the journal.
LEMMA PushEndsInv ==
  ASSUME LedgerInv, NEW u \in User, NEW r \in Run,
         UNCHANGED <<drafted, manifest, handed, claim, underway, journals, quiet>>,
         pushing[u].run = r,
         \/ pushing' = [pushing EXCEPT ![u] = NoPush]
         \/ pushing' = [pushing EXCEPT ![u] = [run |-> r, phase |-> "failed"]],
         ambiguous' \in [Run -> BOOLEAN],
         \/ exported' = exported
         \/ exported[r] = "exported" /\ exported' = [exported EXCEPT ![r] = "exported"]
         \/ exported[r] = "exported" /\ exported' = [exported EXCEPT ![r] = "posted"] /\ journals[r] > 0
  PROVE  LedgerInv'
  <1> USE DEF LedgerInv
  <1>1. \A q \in Run : /\ exported'[q] = "none" <=> exported[q] = "none"
                       /\ exported'[q] = "posted" => exported[q] = "posted" \/ journals[q] > 0
                       /\ exported'[q] = "rejected" => exported[q] = "rejected"
                       /\ exported'[q] \in {"none", "exported", "posted", "rejected"}
    BY DEF ExportShape
  <1>2. ExportShape'
    BY <1>1 DEF ExportShape
  <1>3. ManifestInv'
    BY <1>1 DEF ManifestInv
  <1>4. PushShape'
    BY NoRunAssumption DEF PushShape, NoPush
  <1>5. \A q \in Run : Unposted(q)' = Unposted(q)
    BY DEF Unposted
  <1>6. \A w \in User, q \in Run :
          pushing'[w].run = q => /\ pushing[w].run = q
                                 /\ pushing'[w].phase = pushing[w].phase \/ pushing'[w].phase = "failed"
    BY NoRunAssumption DEF PushShape, NoPush
  <1>7. ClaimInv'
    BY <1>1, <1>5, <1>6 DEF ClaimInv
  <1>8. RecordInv'
    BY <1>1, <1>5, <1>6 DEF RecordInv
  <1> QED
    BY <1>2, <1>3, <1>4, <1>7, <1>8

LEMMA PushStepInv ==
  ASSUME LedgerInv, NEW u \in User, PushStep(u)
  PROVE  LedgerInv'
  <1> USE DEF LedgerInv
  <1>1. ASSUME GiveUp(u)
        PROVE  LedgerInv'
    <2>1. pushing[u].run \in Run
      BY <1>1 DEF GiveUp, PushShape
    <2> QED
      BY <1>1, <2>1, PushEndsInv DEF GiveUp, Go, exportVars, PushShape
  <1>2. ASSUME CompletePush(u)
        PROVE  LedgerInv'
    <2> DEFINE r == pushing[u].run
    <2>1. r \in Run /\ journals[r] > 0
      BY <1>2 DEF CompletePush, PushShape, ClaimInv
    <2>2. \/ exported' = exported
          \/ exported[r] = "exported" /\ exported' = [exported EXCEPT ![r] = "posted"]
      BY <1>2 DEF CompletePush, StillClaimed
    <2>3. ambiguous' \in [Run -> BOOLEAN]
      BY <1>2 DEF CompletePush, PushShape
    <2>4. /\ UNCHANGED <<drafted, manifest, handed, claim, underway, journals, quiet>>
          /\ pushing' = [pushing EXCEPT ![u] = NoPush]
      BY <1>2 DEF CompletePush, Stop
    <2> QED
      BY <2>1, <2>2, <2>3, <2>4, PushEndsInv
  <1>3. ASSUME MarkPushFailed(u)
        PROVE  LedgerInv'
    <2> DEFINE r == pushing[u].run
    <2>1. r \in Run
      BY <1>3 DEF MarkPushFailed, PushShape
    <2>2. \/ exported' = exported
          \/ exported[r] = "exported" /\ exported' = [exported EXCEPT ![r] = "exported"]
      BY <1>3 DEF MarkPushFailed, StillClaimed, AfterFailure
    <2>3. ambiguous' \in [Run -> BOOLEAN]
      BY <1>3 DEF MarkPushFailed, PushShape
    <2>4. /\ UNCHANGED <<drafted, manifest, handed, claim, underway, journals, quiet>>
          /\ pushing' = [pushing EXCEPT ![u] = NoPush]
      BY <1>3 DEF MarkPushFailed, Stop
    <2> QED
      BY <2>1, <2>2, <2>3, <2>4, PushEndsInv
  <1>4. ASSUME Crash(u)
        PROVE  LedgerInv'
    <2> DEFINE r == pushing[u].run
    <2>1. /\ UNCHANGED <<exportVars, claim, ambiguous, underway, journals, quiet>>
          /\ pushing' = [pushing EXCEPT ![u] = NoPush]
      BY <1>4 DEF Crash, Stop
    <2>2. CASE r \in Run
      BY <2>1, <2>2, PushEndsInv DEF exportVars, PushShape
    <2>3. CASE r \notin Run
      <3>1. \A q \in Run, w \in User : pushing'[w].run = q <=> pushing[w].run = q
        BY <2>1, <2>3, NoRunAssumption DEF PushShape, NoPush
      <3>2. \A w \in User : pushing'[w].run \in Run => pushing'[w] = pushing[w]
        BY <2>1, <2>3, NoRunAssumption DEF PushShape, NoPush
      <3>3. \A q \in Run : Unposted(q)' = Unposted(q)
        BY <2>1 DEF Unposted
      <3>4. PushShape'
        BY <2>1, NoRunAssumption DEF PushShape, NoPush
      <3>5. ClaimInv'
        BY <2>1, <3>1, <3>2, <3>3 DEF ClaimInv, exportVars
      <3>6. RecordInv'
        BY <2>1, <3>1, <3>3 DEF RecordInv, exportVars
      <3> QED
        BY <2>1, <3>4, <3>5, <3>6, RowKeepsDocuments
    <2> QED
      BY <2>2, <2>3
  <1> QED
    BY <1>1, <1>2, <1>3, <1>4, PreparePushInv, PostJournalInv, AcceptInv DEF PushStep
-----------------------------------------------------------------------------
LEMMA AcknowledgeInv ==
  ASSUME LedgerInv, NEW r \in Run, NEW verdict \in {"posted", "rejected"}, Acknowledge(r, verdict)
  PROVE  LedgerInv'
  <1> USE DEF LedgerInv
  <1>1. /\ UNCHANGED <<drafted, manifest, handed, pushVars>>
        /\ exported[r] = "exported" /\ claim[r] = Nobody
        /\ exported' = [exported EXCEPT ![r] = verdict]
    BY DEF Acknowledge
  <1>2. ExportShape' /\ ManifestInv'
    BY <1>1 DEF ExportShape, ManifestInv
  <1>3. \A q \in Run : Unposted(q)' = Unposted(q)
    BY <1>1 DEF Unposted, pushVars
  <1>4. PushShape'
    BY <1>1 DEF PushShape, pushVars
  <1>5. \A q \in Run : /\ exported'[q] = "none" <=> exported[q] = "none"
                       /\ claim[q] # Nobody => exported'[q] = exported[q]
    BY <1>1 DEF ExportShape
  <1>6. ClaimInv'
    BY <1>1, <1>3, <1>5 DEF ClaimInv, pushVars
  <1>7. RecordInv'
    BY <1>1, <1>3, <1>5 DEF RecordInv, pushVars
  <1> QED
    BY <1>2, <1>4, <1>6, <1>7

LEMMA ResolveInv ==
  ASSUME LedgerInv, NEW u \in User, NEW r \in Run, Resolve(u, r)
  PROVE  LedgerInv'
  <1> USE DEF LedgerInv
  <1>1. /\ UNCHANGED <<drafted, manifest, handed, claim, ambiguous, pushing, underway, journals>>
        /\ exported[r] = "exported"
        /\ exported' = [exported EXCEPT ![r] = Found(r)]
        /\ quiet' = [quiet EXCEPT ![r] = Quiet(r)]
    BY DEF Resolve
  <1>2. /\ Found(r) \in {"posted", "rejected"}
        /\ Found(r) = "posted" => journals[r] > 0
        /\ Found(r) = "rejected" => journals[r] = 0
    BY DEF Found, PushShape
  <1>3. Quiet(r) \in BOOLEAN /\ (Quiet(r) => \A w \in User : pushing[w].run # r /\ <<w, r>> \notin underway)
    BY DEF Quiet
  <1>4. ExportShape' /\ ManifestInv'
    BY <1>1, <1>2 DEF ExportShape, ManifestInv
  <1>5. PushShape'
    BY <1>1, <1>3 DEF PushShape
  <1>6. \A q \in Run : Unposted(q)' = Unposted(q)
    BY <1>1 DEF Unposted
  <1>7. ClaimInv'
    BY <1>1, <1>2, <1>6 DEF ClaimInv, ExportShape
  <1>8. RecordInv'
    <2> SUFFICES ASSUME NEW q \in Run, claim[q] # Nobody, quiet'[q]
                 PROVE  /\ exported'[q] = "posted" => journals[q] > 0
                        /\ exported'[q] = "rejected" => Unposted(q) /\ \A w \in User : pushing[w].run # q
      BY <1>1, <1>6 DEF RecordInv
    <2>1. CASE q = r
      <3>1. Quiet(r) /\ exported'[q] = Found(r)
        BY <2>1, <1>1 DEF PushShape, ExportShape
      <3> QED
        BY <2>1, <3>1, <1>2, <1>3 DEF Unposted
    <2>2. CASE q # r
      BY <2>2, <1>1 DEF RecordInv, PushShape, ExportShape
    <2> QED
      BY <2>1, <2>2
  <1> QED
    BY <1>4, <1>5, <1>7, <1>8

LEMMA NextLedgerInv == LedgerInv /\ [Next]_vars => LedgerInv'
  <1> SUFFICES ASSUME LedgerInv, [Next]_vars
               PROVE  LedgerInv'
    OBVIOUS
  <1>1. CASE UNCHANGED <<exportVars, pushVars>>
    <2>1. ExportShape' /\ ManifestInv'
      BY <1>1, RowKeepsDocuments
    <2> QED
      BY <1>1, <2>1, ExportKeepsClaims DEF LedgerInv, ExportShape, exportVars
  <1>2. CASE LedgerStep
    <2>1. ASSUME NEW u \in User, CommitExport(u)
          PROVE  LedgerInv'
      <3>1. drafted[u].run \in Run
        BY <2>1 DEF CommitExport, LedgerInv, ExportShape
      <3> QED
        BY <2>1, <3>1, ExportStepInv
    <2>2. ASSUME NEW u \in User, NEW r \in Run, BeginExport(u, r)
          PROVE  LedgerInv'
      BY <2>2, ExportStepInv
    <2>3. ASSUME NEW r \in Run, Serve(r)
          PROVE  LedgerInv'
      BY <2>3, ServeInv
    <2>4. ASSUME NEW u \in User, PushStep(u)
          PROVE  LedgerInv'
      BY <2>4, PushStepInv
    <2>5. ASSUME NEW u \in User, NEW r \in Run, Resolve(u, r)
          PROVE  LedgerInv'
      BY <2>5, ResolveInv
    <2>6. ASSUME NEW r \in Run, NEW verdict \in {"posted", "rejected"}, Acknowledge(r, verdict)
          PROVE  LedgerInv'
      BY <2>6, AcknowledgeInv
    <2> QED
      BY <1>2, <2>1, <2>2, <2>3, <2>4, <2>5, <2>6 DEF LedgerStep
  <1> QED
    BY <1>1, <1>2 DEF Next, vars

THEOREM LedgerInvAlways == Spec => []LedgerInv
  BY InitLedgerInv, NextLedgerInv, PTL DEF Spec
-----------------------------------------------------------------------------
(* What the runs of the ledger check. *)

\* No step of an export or a push (erp.service.ts) touches vendors, runs or bank files.
LEMMA LedgerKeepsBeneficiaries == [Next]_vars => [BeneficiaryNext]_beneficiaryVars
  <1> SUFFICES ASSUME LedgerStep
               PROVE  UNCHANGED beneficiaryVars
    <2>1. UNCHANGED vars => UNCHANGED beneficiaryVars
      BY DEF vars
    <2> QED
      BY <2>1 DEF Next
  <1> QED
    BY DEF LedgerStep, PushStep, BeginExport, CommitExport, Serve, PreparePush, PostJournal, Accept,
           GiveUp, CompletePush, MarkPushFailed, Crash, Acknowledge, Resolve

\* The export and the push of a run (erp.service.ts) leave what Beneficiary promises about
\* its bank files (generateBatch) as it is: every file credits confirmed accounts.
THEOREM LedgerPaysConfirmed == Spec => []FilesPayConfirmed
  <1>1. Init => BeneficiaryInit
    BY DEF Init
  <1> QED
    BY <1>1, LedgerKeepsBeneficiaries, FilesPayConfirmedAlways, PTL DEF Spec, BeneficiarySpec

\* For any number of pushes, timeouts, crashes and resolutions (prepareQboPush, acknowledge):
\* QuickBooks is sent the journal of a run at most once, and never that of a run that was
\* acknowledged without a push.
THEOREM OneJournalPerRunAlways == Spec => []OneJournalPerRun
  <1>1. LedgerInv => OneJournalPerRun
    <2> SUFFICES ASSUME LedgerInv, NEW r \in Run
                 PROVE  /\ journals[r] + Cardinality({u \in User : <<u, r>> \in underway}) <= 1
                        /\ claim[r] = Nobody => journals[r] = 0 /\ \A u \in User : <<u, r>> \notin underway
      BY DEF OneJournalPerRun
    <2> DEFINE sending == {u \in User : <<u, r>> \in underway}
    <2>1. journals[r] \in {0, 1}
      BY DEF LedgerInv, PushShape, ClaimInv
    <2>2. claim[r] = Nobody => journals[r] = 0 /\ \A u \in User : <<u, r>> \notin underway
      BY DEF LedgerInv, ClaimInv, Unposted
    <2>3. \A u \in User : <<u, r>> \in underway => u = claim[r] /\ journals[r] = 0
      BY DEF LedgerInv, ClaimInv
    <2>4. CASE sending = {}
      <3>1. Cardinality(sending) = 0
        BY <2>4, FS_EmptySet
      <3> QED
        BY <2>1, <2>2, <3>1
    <2>5. CASE sending # {}
      <3>1. sending = {claim[r]} /\ journals[r] = 0
        BY <2>3, <2>5
      <3>2. Cardinality(sending) = 1
        BY <3>1, FS_Singleton
      <3>3. journals[r] + Cardinality(sending) <= 1
        BY <3>1, <3>2
      <3> QED
        BY <2>2, <3>3
    <2> QED
      BY <2>4, <2>5
  <1> QED
    BY <1>1, LedgerInvAlways, PTL

\* Unless a claim was resolved while its push was still at it, an export says posted or
\* rejected as the ledger has it (completeQboPush, markQboPushFailed, acknowledge).
THEOREM RecordMatchesLedgerAlways == Spec => []RecordMatchesLedger
  <1>1. LedgerInv => RecordMatchesLedger
    BY DEF LedgerInv, RecordInv, RecordMatchesLedger, Unposted
  <1> QED
    BY <1>1, LedgerInvAlways, PTL

\* Everybody who is ever handed the manifest of a run (exportRun, manifest, prepareQboPush)
\* is handed the same one.
THEOREM FrozenManifestAlways == Spec => []FrozenManifest
  <1>1. LedgerInv => FrozenManifest
    BY DEF LedgerInv, ManifestInv, FrozenManifest
  <1> QED
    BY <1>1, LedgerInvAlways, PTL
=============================================================================
