----------------------------- MODULE LedgerExport -----------------------------
(***************************************************************************)
(* The journal of an executed payment run and its way into the ledger      *)
(* (erp.service.ts, erp.router.ts, qbo.service.ts), composed with the runs *)
(* and the vendor master of Beneficiary.                                   *)
(*                                                                         *)
(* exportRun builds the manifest of a run outside of its transaction and   *)
(* freezes it with the export's row.  A push claims the export in one      *)
(* transaction, posts the manifest to QuickBooks without one, and records  *)
(* the answer in another; the claim is never given back.  A push that has  *)
(* failed, or whose process has ended, leaves the export claimed until a   *)
(* second finance user has looked into QuickBooks and resolved it.         *)
(*                                                                         *)
(* The provider may accept a posting without the answer arriving, and as   *)
(* long as the posting is on its way also after the push has given it up.  *)
(***************************************************************************)
EXTENDS Beneficiary

CONSTANT NoRun   \* no run

ASSUME NoRunAssumption == NoRun \notin Run

VARIABLES
  drafted,     \* the manifest that a user's exportRun has built, and for which run
  exported,    \* erpJournalExport.status; "none" before the row exists
  manifest,    \* erpJournalExport.manifestJson
  handed,      \* the manifests of a run that were handed to anyone
  claim,       \* dispatchClaimId and dispatchClaimedBy
  ambiguous,   \* dispatchFailure is set
  pushing,     \* what a user's push does next, and for which run
  underway,    \* the postings on their way to the provider, [user, run]
  journals,    \* how many journals of a run the provider has accepted
  quiet        \* history: no posting was under way or in hand when the export was resolved

exportVars == <<drafted, exported, manifest, handed>>
pushVars   == <<claim, ambiguous, pushing, underway, journals, quiet>>
vars == <<beneficiaryVars, exportVars, pushVars>>

NoManifest == << >>
NoDraft == [run |-> NoRun, manifest |-> NoManifest]
NoPush == [run |-> NoRun, phase |-> "idle"]

Init ==
  /\ BeneficiaryInit
  /\ drafted = [u \in User |-> NoDraft]
  /\ exported = [r \in Run |-> "none"]
  /\ manifest = [r \in Run |-> NoManifest]
  /\ handed = [r \in Run |-> {}]
  /\ claim = [r \in Run |-> Nobody]
  /\ ambiguous = [r \in Run |-> FALSE]
  /\ pushing = [u \in User |-> NoPush]
  /\ underway = {}
  /\ journals = [r \in Run |-> 0]
  /\ quiet = [r \in Run |-> TRUE]
-----------------------------------------------------------------------------
(* The export. *)

\* buildJournalManifest: the lines of the run, whatever their status, with the names that
\* the vendors have now.
BuildForRun(r) == [i \in Lines(r) |-> name[VendorOf[i]]]

\* exportRun finds no export of the run, and reads what the manifest is built from ...
BeginExport(u, r) ==
  /\ drafted[u] = NoDraft
  /\ exported[r] = "none"
  /\ runStatus[r] \in {"executed", "reconciled"}
  /\ drafted' = [drafted EXCEPT ![u] = [run |-> r, manifest |-> BuildForRun(r)]]
  /\ UNCHANGED <<beneficiaryVars, exported, manifest, handed, pushVars>>

\* Mutant of RunTaken: the index on runId is not unique, a later row hides the first.
RunNeverTaken(r) == FALSE

\* The unique index on erpJournalExport.runId refuses an insert.
RunTaken(r) == exported[r] # "none"

\* ... and inserts the row; the loser of two exports fails.
CommitExport(u) ==
  LET r == drafted[u].run
  IN  /\ r # NoRun
      /\ drafted' = [drafted EXCEPT ![u] = NoDraft]
      /\ IF RunTaken(r)
         THEN UNCHANGED <<exported, manifest, handed>>
         ELSE /\ exported' = [exported EXCEPT ![r] = "exported"]
              /\ manifest' = [manifest EXCEPT ![r] = drafted[u].manifest]
              /\ handed' = [handed EXCEPT ![r] = @ \cup {drafted[u].manifest}]
      /\ UNCHANGED <<beneficiaryVars, pushVars>>

\* exportRun of an exported run, and manifest, serve what is frozen.
Serve(r) ==
  /\ exported[r] # "none"
  /\ handed' = [handed EXCEPT ![r] = @ \cup {manifest[r]}]
  /\ UNCHANGED <<beneficiaryVars, drafted, exported, manifest, pushVars>>
-----------------------------------------------------------------------------
(* The push. *)

Go(u, r, phase) == pushing' = [pushing EXCEPT ![u] = [run |-> r, phase |-> phase]]
Stop(u) == pushing' = [pushing EXCEPT ![u] = NoPush]

\* Mutant of MayClaim: a push that has failed may be tried again.
MayClaimFailed(r) == exported[r] = "exported" /\ (claim[r] = Nobody \/ ambiguous[r])

MayClaim(r) == exported[r] = "exported" /\ claim[r] = Nobody

\* prepareQboPush, under the advisory lock of the export.
PreparePush(u, r) ==
  /\ pushing[u] = NoPush
  /\ MayClaim(r)
  /\ claim' = [claim EXCEPT ![r] = u]
  /\ ambiguous' = [ambiguous EXCEPT ![r] = FALSE]
  /\ handed' = [handed EXCEPT ![r] = @ \cup {manifest[r]}]
  /\ Go(u, r, "claimed")
  /\ UNCHANGED <<beneficiaryVars, drafted, exported, manifest, underway, journals, quiet>>

\* postJournal sends the request, or fails before: no connection, no fresh token, an
\* account without a counterpart in QuickBooks.
PostJournal(u) ==
  LET r == pushing[u].run
  IN  /\ pushing[u].phase = "claimed"
      /\ \/ Go(u, r, "posted") /\ underway' = underway \cup {<<u, r>>}
         \/ Go(u, r, "failed") /\ UNCHANGED underway
      /\ UNCHANGED <<beneficiaryVars, exportVars, claim, ambiguous, journals, quiet>>

\* The provider accepts a posting, and its answer arrives unless the push has given up or
\* the answer is lost; or it refuses the posting, or the posting is lost.
Accept(u, r) ==
  /\ <<u, r>> \in underway
  /\ underway' = underway \ {<<u, r>>}
  /\ \/ /\ journals' = [journals EXCEPT ![r] = @ + 1]
        /\ \/ pushing[u] = [run |-> r, phase |-> "posted"] /\ Go(u, r, "accepted")
           \/ UNCHANGED pushing
     \/ UNCHANGED <<journals, pushing>>
  /\ UNCHANGED <<beneficiaryVars, exportVars, claim, ambiguous, quiet>>

\* A POST is not retried: a refusal, an error of the transport and the deadline all end it.
GiveUp(u) ==
  /\ pushing[u].phase = "posted"
  /\ Go(u, pushing[u].run, "failed")
  /\ UNCHANGED <<beneficiaryVars, exportVars, claim, ambiguous, underway, journals, quiet>>

\* Only the claim that has performed the posting may settle the export or mark it.
StillClaimed(u) == exported[pushing[u].run] = "exported" /\ claim[pushing[u].run] = u

\* completeQboPush: a conflict if the export was resolved meanwhile.
CompletePush(u) ==
  /\ pushing[u].phase = "accepted"
  /\ exported' = IF StillClaimed(u) THEN [exported EXCEPT ![pushing[u].run] = "posted"] ELSE exported
  /\ ambiguous' = IF StillClaimed(u) THEN [ambiguous EXCEPT ![pushing[u].run] = FALSE] ELSE ambiguous
  /\ Stop(u)
  /\ UNCHANGED <<beneficiaryVars, drafted, manifest, handed, claim, underway, journals, quiet>>

\* Mutant of AfterFailure: an error means that nothing was posted.
AfterFailureRejected == "rejected"

\* markQboPushFailed leaves the status as it is.
AfterFailure == "exported"

\* markQboPushFailed: the claim stays, the outcome is ambiguous.
MarkPushFailed(u) ==
  LET r == pushing[u].run
  IN  /\ pushing[u].phase = "failed"
      /\ ambiguous' = IF StillClaimed(u) THEN [ambiguous EXCEPT ![r] = TRUE] ELSE ambiguous
      /\ exported' = IF StillClaimed(u) THEN [exported EXCEPT ![r] = AfterFailure] ELSE exported
      /\ Stop(u)
      /\ UNCHANGED <<beneficiaryVars, drafted, manifest, handed, claim, underway, journals, quiet>>

\* The process of a push ends.
Crash(u) ==
  /\ pushing[u] # NoPush
  /\ Stop(u)
  /\ UNCHANGED <<beneficiaryVars, exportVars, claim, ambiguous, underway, journals, quiet>>
-----------------------------------------------------------------------------
(* The acknowledgement. *)

\* No push of the run is in hand and no posting on its way.
Quiet(r) == \A u \in User : pushing[u].run # r /\ <<u, r>> \notin underway

\* acknowledge of an export that no push has claimed: the answer of an ERP that has
\* imported the file.
Acknowledge(r, verdict) ==
  /\ exported[r] = "exported"
  /\ claim[r] = Nobody
  /\ exported' = [exported EXCEPT ![r] = verdict]
  /\ UNCHANGED <<beneficiaryVars, drafted, manifest, handed, pushVars>>

\* acknowledge with resolveDispatchClaim is for another user than the one who has pushed.
MayResolve(u, r) == claim[r] # Nobody /\ claim[r] # u

\* What is found in QuickBooks: "posted" takes the reference of the journal.
Found(r) == IF journals[r] > 0 THEN "posted" ELSE "rejected"

Resolve(u, r) ==
  /\ exported[r] = "exported"
  /\ MayResolve(u, r)
  /\ exported' = [exported EXCEPT ![r] = Found(r)]
  /\ quiet' = [quiet EXCEPT ![r] = Quiet(r)]
  /\ UNCHANGED <<beneficiaryVars, drafted, manifest, handed, claim, ambiguous, pushing, underway,
                 journals>>
-----------------------------------------------------------------------------
PushStep(u) ==
  \/ \E r \in Run : PreparePush(u, r) \/ Accept(u, r)
  \/ PostJournal(u)
  \/ GiveUp(u)
  \/ CompletePush(u)
  \/ MarkPushFailed(u)
  \/ Crash(u)

LedgerStep ==
  \/ \E u \in User : \/ PushStep(u)
                     \/ CommitExport(u)
                     \/ \E r \in Run : BeginExport(u, r) \/ Resolve(u, r)
  \/ \E r \in Run : Serve(r) \/ \E verdict \in {"posted", "rejected"} : Acknowledge(r, verdict)

Next == (BeneficiaryNext /\ UNCHANGED <<exportVars, pushVars>>) \/ LedgerStep

Spec == Init /\ [][Next]_vars
-----------------------------------------------------------------------------
(* Properties. *)

TypeOK ==
  /\ BeneficiaryTypeOK
  /\ \A u \in User : drafted[u].run \in Run \cup {NoRun}
  /\ exported \in [Run -> {"none", "exported", "posted", "rejected"}]
  /\ claim \in [Run -> User \cup {Nobody}]
  /\ ambiguous \in [Run -> BOOLEAN]
  /\ pushing \in [User -> [run : Run \cup {NoRun},
                           phase : {"idle", "claimed", "posted", "accepted", "failed"}]]
  /\ underway \subseteq User \X Run
  /\ journals \in [Run -> Nat]
  /\ quiet \in [Run -> BOOLEAN]

\* "Claims are never automatically reclaimed": whatever times out, crashes, is lost, or is
\* acknowledged by hand, the provider gets the journal of a run at most once, and never
\* that of a run that was acknowledged without a push.
OneJournalPerRun ==
  \A r \in Run :
    /\ journals[r] + Cardinality({u \in User : <<u, r>> \in underway}) <= 1
    /\ exported[r] # "exported" /\ claim[r] = Nobody
         => journals[r] = 0 /\ \A u \in User : <<u, r>> \notin underway

\* What the export says agrees with the ledger: a posted one has its journal, a rejected
\* one has none and will not get one, however late an answer comes, unless somebody
\* resolved the claim while the push was still at it.
RecordMatchesLedger ==
  \A r \in Run :
    claim[r] # Nobody /\ quiet[r] =>
      /\ exported[r] = "posted" => journals[r] > 0
      /\ exported[r] = "rejected"
           => journals[r] = 0 /\ \A u \in User : <<u, r>> \notin underway

\* "Later reads serve this, never a rebuild from mutable vendor master data": all who were
\* ever handed the manifest of a run were handed the same one, though its vendors are
\* renamed and two users export it at once.
FrozenManifest == \A r \in Run : \A f, g \in handed[r] : f = g
=============================================================================
