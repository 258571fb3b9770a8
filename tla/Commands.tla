------------------------------- MODULE Commands -------------------------------
(***************************************************************************)
(* What every mutation of the API goes through: idempotency.service.ts     *)
(* runs it once per key and stores its result in the same transaction,     *)
(* audit.service.ts appends its entry to the hash chain in that            *)
(* transaction, and retention.service.ts deletes keys after a while.  An   *)
(* operator retains the head of the chain outside the database and         *)
(* verifies the trail while it grows.                                      *)
(*                                                                         *)
(* A call is a request that its client repeats until it has an answer.     *)
(* Its transaction is a step per statement, READ COMMITTED: what it writes *)
(* is seen by others when it commits, and it is gone, with its locks, when *)
(* it fails or its process ends.                                           *)
(*                                                                         *)
(* A hash stands for all that it is computed from: that of an entry for    *)
(* its content and for the hash of the entry before it.  It is therefore   *)
(* told by the seq of the entry, which a sequence of the database hands    *)
(* out once and never again, and by whether it was computed by the         *)
(* application or anew for an entry that was rewritten.                    *)
(***************************************************************************)
EXTENDS Naturals, FiniteSets, FiniteSetsExt

CONSTANTS
  Call,      \* calls of clients
  Key,       \* [actor, operation, idempotencyKey], digested
  KeyOf,     \* call -> key
  InputOf,   \* call -> digest of its input
  NoCall,    \* no call
  PageSize,  \* VERIFICATION_PAGE_SIZE
  FaultyCall, \* bound: the calls that may fail
  MaxFaults, \* bound: failures of transactions and lost answers
  MaxExpiries, \* bound: how often the row of each key grows old
  MaxHarms   \* bound: how often the trail is harmed, once at most

ASSUME CommandsAssumption ==
  /\ KeyOf \in [Call -> Key]
  /\ FaultyCall \subseteq Call
  /\ NoCall \notin Call
  /\ PageSize \in Nat \ {0} /\ MaxFaults \in Nat
  /\ MaxExpiries \in [Key -> Nat]
  /\ MaxHarms \in 0 .. 1

VARIABLES
  stored,      \* idempotencyKey.resultJson: [input, result]; NoRow without a row
  old,         \* keys whose row is beyond its retention
  trail,       \* the rows of auditEntry: [seq, prev, hash, altered]; altered content does
               \* not have the hash
  nextSeq,     \* the sequence of auditEntry.seq
  keyHolder,   \* the call that holds the advisory lock of a key
  chainHolder, \* the call that holds the advisory lock of the chain
  phase,       \* what the transaction of a call does next
  prev,        \* the hash of the head that it has read
  answer,      \* what the client of a call was answered
  effects,     \* history: the entries of the committed executions per key
  expired,     \* history: how often the row of a key was beyond its retention
  verify,      \* a verification: what it does next and has found
  checkpoint,  \* seq and hash of the head that the operator retains, seq 0 without one
  harmed,      \* history: the seq of the oldest entry altered or removed, 0 without one
  faults

keyVars   == <<stored, old, expired>>
trailVars == <<trail, nextSeq>>
callVars  == <<keyHolder, chainHolder, phase, prev, answer, effects, faults>>
auditVars == <<verify, checkpoint, harmed>>
vars == <<keyVars, trailVars, callVars, auditVars>>

NoRow == [input |-> "none", result |-> 0]
NoAnswer == [kind |-> "none", result |-> 0]

\* The hash that the application computed for an entry, and one computed for it anew.
HashOf(n) == <<n, FALSE>>
Rehash(n) == <<n, TRUE>>
NoHash == HashOf(0)

Idle == [phase |-> "idle", seenHarmed |-> FALSE, advanced |-> TRUE, high |-> 0,
         last |-> 0, prev |-> NoHash, ok |-> TRUE]

Init ==
  /\ stored = [k \in Key |-> NoRow]
  /\ old = {}
  /\ trail = {}
  /\ nextSeq = 1
  /\ keyHolder = [k \in Key |-> NoCall]
  /\ chainHolder = NoCall
  /\ phase = [c \in Call |-> "start"]
  /\ prev = [c \in Call |-> NoHash]
  /\ answer = [c \in Call |-> NoAnswer]
  /\ effects = [k \in Key |-> {}]
  /\ expired = [k \in Key |-> 0]
  /\ verify = Idle
  /\ checkpoint = [seq |-> 0, hash |-> NoHash]
  /\ harmed = 0
  /\ faults = 0

Go(c, p) == phase' = [phase EXCEPT ![c] = p]

\* The seq of the newest entry, 0 without one.
Head(entries) == IF entries = {} THEN 0 ELSE Max({e.seq : e \in entries})

HeadHash(entries) ==
  IF entries = {} THEN NoHash ELSE (CHOOSE e \in entries : e.seq = Head(entries)).hash
-----------------------------------------------------------------------------
(* A call: runAtomic with the audit entry of its mutation. *)

\* lockScope on the key.
LockKey(c) ==
  /\ phase[c] = "start"
  /\ keyHolder[KeyOf[c]] = NoCall
  /\ keyHolder' = [keyHolder EXCEPT ![KeyOf[c]] = c]
  /\ Go(c, "look")
  /\ UNCHANGED <<keyVars, trailVars, chainHolder, prev, answer, effects, faults, auditVars>>

\* The locks of a transaction end with it.
Unlock(c) ==
  /\ keyHolder' = [keyHolder EXCEPT ![KeyOf[c]] = IF @ = c THEN NoCall ELSE @]
  /\ chainHolder' = IF chainHolder = c THEN NoCall ELSE chainHolder

\* A stored outcome is returned to a call with the same input, refused to another.
Replay(c) ==
  IF stored[KeyOf[c]].input = InputOf[c]
  THEN [kind |-> "result", result |-> stored[KeyOf[c]].result]
  ELSE [kind |-> "conflict", result |-> 0]

\* The row of the key is read under its lock.
LookUp(c) ==
  /\ phase[c] = "look"
  /\ \/ /\ stored[KeyOf[c]] = NoRow
        /\ Go(c, "append")
        /\ UNCHANGED <<keyHolder, chainHolder, answer>>
     \/ /\ stored[KeyOf[c]] # NoRow
        /\ answer' = [answer EXCEPT ![c] = Replay(c)]
        /\ Unlock(c)
        /\ Go(c, "reply")
  /\ UNCHANGED <<keyVars, trailVars, prev, effects, faults, auditVars>>

\* Mutant of ChainFree: appends are not serialized.
ChainAlwaysFree == TRUE

ChainFree == chainHolder = NoCall

\* The mutation writes what it writes, and record takes the lock of the chain.
LockChain(c) ==
  /\ phase[c] = "append"
  /\ ChainFree
  /\ chainHolder' = c
  /\ Go(c, "read")
  /\ UNCHANGED <<keyVars, trailVars, keyHolder, prev, answer, effects, faults, auditVars>>

\* record reads the newest hashed entry ...
ReadHead(c) ==
  /\ phase[c] = "read"
  /\ prev' = [prev EXCEPT ![c] = HeadHash(trail)]
  /\ Go(c, "commit")
  /\ UNCHANGED <<keyVars, trailVars, keyHolder, chainHolder, answer, effects, faults, auditVars>>

\* Mutant of RowOf: the outcome is stored outside of the transaction, and lost.
RowLost(c) == NoRow

RowOf(c) == [input |-> InputOf[c], result |-> nextSeq]

\* ... and inserts its own, whose seq is the column's default; the row of the key is
\* created, and mutation, entry and row become visible at once.
Commit(c) ==
  /\ phase[c] = "commit"
  /\ stored[KeyOf[c]] = NoRow
  /\ stored' = [stored EXCEPT ![KeyOf[c]] = RowOf(c)]
  /\ effects' = [effects EXCEPT ![KeyOf[c]] = @ \cup {nextSeq}]
  /\ trail' = trail \cup {[seq |-> nextSeq, prev |-> prev[c], hash |-> HashOf(nextSeq),
                          altered |-> FALSE]}
  /\ answer' = [answer EXCEPT ![c] = [kind |-> "result", result |-> nextSeq]]
  /\ prev' = [prev EXCEPT ![c] = NoHash]
  /\ Unlock(c)
  /\ Go(c, "reply")
  /\ nextSeq' = nextSeq + 1
  /\ UNCHANGED <<old, expired, faults, auditVars>>

\* The client receives the answer.
Reply(c) ==
  /\ phase[c] = "reply"
  /\ Go(c, "done")
  /\ UNCHANGED <<keyVars, trailVars, keyHolder, chainHolder, prev, answer, effects, faults, auditVars>>

\* Mutant of Released: the claim of a key is a row of its own and outlives the process.
StillHeld(c) == UNCHANGED <<keyHolder, chainHolder>>

\* "Transaction-owned lock disappears on rollback/crash; no orphan claim."
Released(c) == Unlock(c)

\* The transaction fails, its process ends, it runs into its timeout, or the answer is
\* lost; the client calls again.  A seq that was handed out is not given back.
Fault(c) ==
  /\ phase[c] \notin {"start", "done"}
  /\ c \in FaultyCall /\ faults < MaxFaults
  /\ faults' = faults + 1
  /\ answer' = [answer EXCEPT ![c] = NoAnswer]
  /\ prev' = [prev EXCEPT ![c] = NoHash]
  /\ \/ UNCHANGED nextSeq
     \/ phase[c] = "commit" /\ nextSeq' = nextSeq + 1
  /\ Released(c)
  /\ Go(c, "start")
  /\ UNCHANGED <<keyVars, trail, effects, auditVars>>

CallStep(c) ==
  \/ LockKey(c)
  \/ LookUp(c)
  \/ LockChain(c)
  \/ ReadHead(c)
  \/ Commit(c)
  \/ Reply(c)
-----------------------------------------------------------------------------
(* Retention. *)

\* AIPMS_IDEMPOTENCY_RETENTION_DAYS pass.
GrowOld(k) ==
  /\ stored[k] # NoRow /\ k \notin old
  /\ expired[k] < MaxExpiries[k]
  /\ old' = old \cup {k}
  /\ expired' = [expired EXCEPT ![k] = @ + 1]
  /\ UNCHANGED <<stored, trailVars, callVars, auditVars>>

\* prune, on whatever replica has the lease; a pass that meets another one deletes nothing
\* of it.
Prune ==
  /\ old # {}
  /\ stored' = [k \in Key |-> IF k \in old THEN NoRow ELSE stored[k]]
  /\ old' = {}
  /\ UNCHANGED <<expired, trailVars, callVars, auditVars>>
-----------------------------------------------------------------------------
(* Checkpoints and verification. *)

\* The operator retains the head that checkpoint returns.
Checkpoint ==
  /\ checkpoint.seq = 0 /\ trail # {} /\ harmed = 0
  /\ checkpoint' = [seq |-> Head(trail), hash |-> HeadHash(trail)]
  /\ UNCHANGED <<keyVars, trailVars, callVars, verify, harmed>>

\* The entries of `touched' are rewritten but for those that are lost: what is left of them
\* is linked anew, to each other and to the entry before them, and hashed anew.
Rewritten(touched, lost) ==
  LET left == touched \ lost
      first == CHOOSE e \in touched : \A f \in touched : e.seq <= f.seq
      Anew(e) ==
        LET before == {f \in left : f.seq < e.seq}
        IN  [e EXCEPT !.prev = IF before = {} THEN first.prev ELSE Rehash(Head(before)),
                      !.hash = Rehash(e.seq)]
  IN  (trail \ touched) \cup {Anew(e) : e \in left}

\* By other means than the application the content of e is altered, or it and the entries
\* up to `last' are rewritten or removed.
Harm(e) ==
  /\ harmed = 0 /\ MaxHarms > 0
  /\ harmed' = e.seq
  /\ \/ trail' = (trail \ {e}) \cup {[e EXCEPT !.altered = TRUE]}
     \/ \E last \in trail :
          LET touched == {f \in trail : e.seq <= f.seq /\ f.seq <= last.seq}
          IN  \E lost \in SUBSET touched : e \in touched /\ trail' = Rewritten(touched, lost)
  /\ UNCHANGED <<keyVars, nextSeq, callVars, verify, checkpoint>>

\* Mutant of Advanced: an entry at the retained seq will do, whatever its hash.
NotMissing(expected) == Head(trail) >= expected.seq /\ \E e \in trail : e.seq = expected.seq

\* compareCheckpoint: the trail is not "truncated" before the retained head, whose entry is
\* not "missing" and not "rewritten".
Advanced(expected) ==
  /\ Head(trail) >= expected.seq
  /\ \E e \in trail : e.seq = expected.seq /\ e.hash = expected.hash

\* verifyChain compares the retained checkpoint first, if it is given one ...
Compare ==
  /\ verify.phase = "idle"
  /\ verify' = [Idle EXCEPT !.phase = "pin",
                            !.seenHarmed = harmed \in 1 .. checkpoint.seq,
                            !.advanced = checkpoint.seq = 0 \/ Advanced(checkpoint)]
  /\ UNCHANGED <<keyVars, trailVars, callVars, checkpoint, harmed>>

\* ... then pins the walk to the newest entry ...
Pin ==
  /\ verify.phase = "pin"
  /\ verify' = [verify EXCEPT !.phase = "walk", !.high = Head(trail)]
  /\ UNCHANGED <<keyVars, trailVars, callVars, checkpoint, harmed>>

\* The next page: the oldest entries behind the last one that was seen.
Page ==
  LET rest == {e \in trail : verify.last < e.seq /\ e.seq <= verify.high}
  IN  {e \in rest : Cardinality({f \in rest : f.seq < e.seq}) < PageSize}

\* An entry links to the one before it, on its page or at the end of the last page, and
\* its content has its hash.
Linked(e, page) ==
  LET before == {f \in page : f.seq < e.seq}
  IN  /\ e.prev = IF before = {} THEN verify.prev ELSE HeadHash(before)
      /\ ~e.altered

\* ... and walks it page by page.  A short page is the last one.
Walk ==
  /\ verify.phase = "walk"
  /\ LET intact == \A e \in Page : Linked(e, Page)
         more == intact /\ Cardinality(Page) = PageSize
     IN  verify' = IF more
                   THEN [verify EXCEPT !.last = Head(Page), !.prev = HeadHash(Page)]
                   ELSE [Idle EXCEPT !.phase = "done", !.seenHarmed = verify.seenHarmed,
                                     !.ok = intact /\ verify.advanced]
  /\ UNCHANGED <<keyVars, trailVars, callVars, checkpoint, harmed>>

AuditStep == Checkpoint \/ (\E e \in trail : Harm(e)) \/ Compare \/ Pin \/ Walk
-----------------------------------------------------------------------------
Next ==
  \/ \E c \in Call : CallStep(c) \/ Fault(c)
  \/ \E k \in Key : GrowOld(k)
  \/ Prune
  \/ AuditStep

Spec == Init /\ [][Next]_vars

\* Transactions proceed or fail, and clients repeat their calls.  Nothing is asked of the
\* retention nor of operators.
FairSpec == Spec /\ \A c \in Call : WF_vars(CallStep(c))
-----------------------------------------------------------------------------
(* Properties. *)

TypeOK ==
  /\ \A k \in Key : stored[k].result \in Nat
  /\ old \subseteq Key
  /\ \A e \in trail : e.seq \in 1 .. nextSeq - 1 /\ {e.prev, e.hash} \subseteq Nat \X BOOLEAN
                      /\ e.altered \in BOOLEAN
  /\ keyHolder \in [Key -> Call \cup {NoCall}]
  /\ chainHolder \in Call \cup {NoCall}
  /\ phase \in [Call -> {"start", "look", "append", "read", "commit", "reply", "done"}]
  /\ prev \in [Call -> Nat \X BOOLEAN]
  /\ effects \in [Key -> SUBSET Nat] /\ expired \in [Key -> Nat]
  /\ checkpoint \in [seq : Nat, hash : Nat \X BOOLEAN] /\ harmed \in Nat
  /\ faults \in 0 .. MaxFaults

\* Within its retention a key has one effect, whichever calls meet, fail at any statement
\* and are repeated; all calls that are answered with a result have the same one, of their
\* own input.
KeyRunsOnce ==
  \A k \in Key :
    LET answered == {c \in Call : KeyOf[c] = k /\ answer[c].kind = "result"}
    IN  /\ Cardinality(effects[k]) <= 1 + expired[k]
        /\ expired[k] = 0 =>
             \A c, d \in answered : answer[c] = answer[d] /\ InputOf[c] = InputOf[d]

\* The trail has an entry for every committed effect and for nothing else, and each links
\* to the one before it: concurrent writers never fork the chain.
ChainIsLinear ==
  harmed = 0 =>
    /\ {e.seq : e \in trail} = UNION {effects[k] : k \in Key}
    /\ \A e \in trail : e.prev = HeadHash({f \in trail : f.seq < e.seq})

\* A verification never fails on a trail that nobody has touched, however many entries are
\* appended meanwhile, and it fails if an entry up to the retained checkpoint had been
\* altered, rewritten together with any of those behind it, or removed before it began, also
\* after the trail has grown again.
VerdictIsTrue ==
  verify.phase = "done" =>
    /\ ~verify.ok => harmed # 0
    /\ verify.seenHarmed => ~verify.ok

\* Every call is answered in the end, although the one that holds the lock of its key or of
\* the chain may fail at any statement.
CallIsAnswered == <>(\A c \in Call : phase[c] = "done")
=============================================================================
