----------------------------- MODULE IntakeProofs -----------------------------
(***************************************************************************)
(* Proofs about Intake, for any messages, contents, workers and batches,   *)
(* and any number of requests and faults.                                  *)
(***************************************************************************)
EXTENDS Intake, TLAPS

\* What a worker relies on while others work: a document it is at exists, a message it holds
\* is at its document and leaves its hands with the flag, and what it has selected to drain
\* exists.
WorkerInv(w) ==
  /\ phase[w] = "idle" => message[w] = Nothing
  /\ phase[w] # "idle" => doc[w] \in Document
  /\ phase[w] \notin {"idle", "store"} => status[doc[w]] # "none"
  /\ phase[w] = "store" /\ found[w] => status[doc[w]] # "none"
  /\ phase[w] = "flag" => message[w] # Nothing
  /\ message[w] # Nothing => /\ phase[w] \in {"store", "flag"}
                             /\ doc[w] = ContentOf[message[w]]
  /\ \A d \in batch[w] : status[d] # "none"

\* An event in the outbox is of a document that exists.
EventInv == \A d \in Document : event[d] # "none" => status[d] # "none"

IInv ==
  /\ TypeOK
  /\ \A w \in Worker : WorkerInv(w)
  /\ EventInv
  /\ SeenIsStored
  /\ ReceivedOnce
  /\ ResultMatchesStatus

\* A document that exists does so for ever.
DocumentsStay == \A d \in Document : status[d] # "none" => status'[d] # "none"

\* What a transition does to the documents: nothing, a new one with its event ...
DocsUnchanged ==
  /\ UNCHANGED <<docVars, registered, announced>>
  /\ \A d \in Document : event'[d] # "none" => event[d] # "none"

DocInserted ==
  \E d \in Document :
    /\ status[d] = "none"
    /\ Insert(d)
    /\ SetDoc(d, "new", FALSE, FALSE) \/ SetDoc(d, "extracted", TRUE, FALSE)
    /\ UNCHANGED registered

\* ... or a result that agrees with the status it gives to one that exists.
DocSet ==
  \E d \in Document, s \in {"new", "extracted", "matched", "exception", "dropped"},
     p \in BOOLEAN, l \in BOOLEAN :
    /\ status[d] # "none"
    /\ UNCHANGED eventVars
    /\ SetDoc(d, s, p, l)
    /\ s = "new" => ~p /\ ~l
    /\ s \in {"matched", "exception"} => l
    /\ registered \subseteq registered'
    /\ l => NumberOf[d] \in registered'

DocStep == DocsUnchanged \/ DocInserted \/ DocSet
-----------------------------------------------------------------------------
LEMMA InitIInv == Init => IInv
  BY IntakeAssumption DEF Init, IInv, TypeOK, WorkerInv, EventInv, SeenIsStored, ReceivedOnce, ResultMatchesStatus

-----------------------------------------------------------------------------
(* Types. *)

LEMMA SetDocType ==
  ASSUME TypeOK, NEW d \in Document, NEW s \in {"new", "extracted", "matched", "exception", "dropped"},
         NEW p \in BOOLEAN, NEW l \in BOOLEAN, SetDoc(d, s, p, l)
  PROVE  /\ status' \in [Document -> {"none", "new", "extracted", "matched", "exception", "dropped"}]
         /\ payload' \in [Document -> BOOLEAN]
         /\ linked' \in [Document -> BOOLEAN]
  BY DEF TypeOK, SetDoc

LEMMA DoneType ==
  ASSUME TypeOK, NEW w \in Worker, NEW rest \in SUBSET Document, Done(w, rest)
  PROVE  /\ phase' \in [Worker -> {"idle", "store", "flag", "check", "classify", "write",
                                   "finish", "acknowledge", "reclassify", "bridge"}]
         /\ message' \in [Worker -> Message \cup {Nothing}]
         /\ doc' \in [Worker -> Document \cup {Nothing}]
         /\ found' \in [Worker -> BOOLEAN]
         /\ waked' \in [Worker -> BOOLEAN]
         /\ batch' \in [Worker -> SUBSET Document]
  BY DEF TypeOK, Done, Go

LEMMA GoType ==
  ASSUME TypeOK, NEW w \in Worker,
         NEW p \in {"idle", "store", "flag", "check", "classify", "write",
                    "finish", "acknowledge", "reclassify", "bridge"},
         NEW d \in Document \cup {Nothing}, NEW f \in BOOLEAN, Go(w, p, d, f)
  PROVE  /\ phase' \in [Worker -> {"idle", "store", "flag", "check", "classify", "write",
                                   "finish", "acknowledge", "reclassify", "bridge"}]
         /\ doc' \in [Worker -> Document \cup {Nothing}]
         /\ found' \in [Worker -> BOOLEAN]
  BY DEF TypeOK, Go

LEMMA FailType ==
  ASSUME TypeOK, NEW w \in Worker, doc[w] \in Document, Fail(w)
  PROVE  /\ event' \in [Document -> {"none", "pending", "handled", "dead"}]
         /\ attempts' \in [Document -> Nat]
         /\ worked' \subseteq Document
         /\ announced' = announced
         /\ Done(w, batch[w])
         /\ \A d \in Document : event'[d] # "none" => event[d] # "none"
  <1>1. Done(w, batch[w]) /\ announced' = announced /\ worked' \subseteq Document
    BY DEF Fail, Remaining, TypeOK
  <1>2. CASE waked[w] /\ event[doc[w]] = "pending"
    <2>1. /\ attempts' = [attempts EXCEPT ![doc[w]] = attempts[doc[w]] + 1]
          /\ event' = event \/ event' = [event EXCEPT ![doc[w]] = "dead"]
      BY <1>2 DEF Fail
    <2>2. attempts[doc[w]] + 1 \in Nat
      BY DEF TypeOK
    <2>3. attempts' \in [Document -> Nat]
      BY <2>1, <2>2 DEF TypeOK
    <2>4. /\ event' \in [Document -> {"none", "pending", "handled", "dead"}]
          /\ \A d \in Document : event'[d] # "none" => event[d] # "none"
      BY <1>2, <2>1 DEF TypeOK
    <2> QED
      BY <1>1, <2>3, <2>4
  <1>3. CASE ~(waked[w] /\ event[doc[w]] = "pending")
    BY <1>1, <1>3 DEF TypeOK, Fail
  <1> QED
    BY <1>2, <1>3

LEMMA InsertType ==
  ASSUME TypeOK, NEW d \in Document, Insert(d)
  PROVE  /\ queue' \in Seq(Document)
         /\ event' \in [Document -> {"none", "pending", "handled", "dead"}]
         /\ attempts' \in [Document -> Nat]
         /\ worked' \subseteq Document
         /\ announced' \in [Document -> Nat]
  BY DEF TypeOK, Insert

LEMMA PollerType ==
  ASSUME IInv, NEW w \in Worker, PollerStep(w)
  PROVE  TypeOK'
  <1> USE DEF IInv
  <1>1. ASSUME NEW m \in Message, Fetch(w, m)
        PROVE  TypeOK'
    <2>1. ContentOf[m] \in Document
      BY IntakeAssumption
    <2> QED
      BY <1>1, <2>1, GoType DEF TypeOK, Fetch, docVars, eventVars
  <1>2. CASE Store(w)
    <2>1. doc[w] \in Document
      BY <1>2 DEF WorkerInv, Store
    <2>2. CASE UNCHANGED <<docVars, eventVars>> /\ Done(w, {})
      BY <1>2, <2>2, DoneType DEF TypeOK, Store, docVars, eventVars
    <2>3. CASE UNCHANGED <<docVars, eventVars>> /\ Ingested(w) /\ message[w] # Nothing
      BY <1>2, <2>3 DEF TypeOK, Store, docVars, eventVars, Ingested
    <2>4. CASE Insert(doc[w]) /\ SetDoc(doc[w], "new", FALSE, FALSE) /\ Ingested(w) /\ message[w] # Nothing
      BY <1>2, <2>1, <2>4, InsertType, SetDocType DEF TypeOK, Store, Ingested
    <2>5. CASE Insert(doc[w]) /\ SetDoc(doc[w], "new", FALSE, FALSE) /\ Done(w, {})
      BY <1>2, <2>1, <2>5, InsertType, SetDocType, DoneType DEF TypeOK, Store
    <2> QED
      BY <1>2, <2>2, <2>3, <2>4, <2>5 DEF Store, Ingested
  <1>3. CASE Flag(w)
    <2>1. message[w] \in Message
      BY <1>3, IntakeAssumption DEF TypeOK, WorkerInv, Flag, Stored
    <2> QED
      BY <1>3, <2>1, DoneType DEF TypeOK, Flag, docVars, eventVars
  <1>4. CASE IngestThrows(w)
    BY <1>4, DoneType DEF TypeOK, IngestThrows, docVars, eventVars
  <1> QED
    BY <1>1, <1>2, <1>3, <1>4 DEF PollerStep

\* The documents that a drain selects exist.
LEMMA BatchIsNew == Batch \subseteq {d \in Document : status[d] = "new"}
  BY DEF Batch

\* A worker registers the invoice of a document and writes what the document says of it.
LEMMA WriteDoc ==
  ASSUME IInv, NEW w \in Worker, Write(w)
  PROVE  /\ doc[w] \in Document
         /\ \E s \in {"extracted", "matched", "exception"} : SetDoc(doc[w], s, found[w], TRUE)
         /\ registered' = registered \cup {NumberOf[doc[w]]}
         /\ NumberOf[doc[w]] \in InvoiceNo
  BY IntakeAssumption DEF IInv, WorkerInv, Write, Bridged

LEMMA WriteType ==
  ASSUME IInv, NEW w \in Worker, Write(w)
  PROVE  TypeOK'
  <1> USE DEF IInv
  <1>1. PICK s \in {"extracted", "matched", "exception"} : SetDoc(doc[w], s, found[w], TRUE)
    BY WriteDoc
  <1>2. /\ status' \in [Document -> {"none", "new", "extracted", "matched", "exception", "dropped"}]
        /\ payload' \in [Document -> BOOLEAN]
        /\ linked' \in [Document -> BOOLEAN]
    <2>1. doc[w] \in Document /\ found[w] \in BOOLEAN
      BY WriteDoc DEF TypeOK
    <2> QED
      BY <1>1, <2>1, SetDocType
  <1>3. registered' \subseteq InvoiceNo
    BY WriteDoc DEF TypeOK
  <1>4. CASE Go(w, "finish", doc[w], FALSE) /\ UNCHANGED <<message, waked, batch>>
    BY <1>2, <1>3, <1>4, WriteDoc, GoType DEF TypeOK, Write, eventVars
  <1>5. CASE Done(w, batch[w])
    BY <1>2, <1>3, <1>5, DoneType DEF TypeOK, Write, eventVars
  <1> QED
    BY <1>4, <1>5 DEF Write

LEMMA AgentType ==
  ASSUME IInv, NEW w \in Worker, AgentStep(w)
  PROVE  TypeOK'
  <1> USE DEF IInv
  <1>1. ASSUME NEW d \in Document, Wake(w, d)
        PROVE  TypeOK'
    <2>1. \E p \in {"check", "acknowledge"} : Go(w, p, d, FALSE)
      BY <1>1 DEF Wake
    <2> QED
      BY <1>1, <2>1, GoType DEF TypeOK, Wake, docVars, eventVars
  <1>2. CASE Drain(w)
    BY <1>2, BatchIsNew DEF TypeOK, Drain, docVars, eventVars
  <1>3. CASE TakeNext(w)
    <2>1. PICK d \in batch[w] : Go(w, "check", d, FALSE) /\ batch' = [batch EXCEPT ![w] = @ \ {d}]
      BY <1>3 DEF TakeNext
    <2>2. d \in Document /\ batch' \in [Worker -> SUBSET Document]
      BY <2>1 DEF TypeOK
    <2> QED
      BY <1>3, <2>1, <2>2, GoType DEF TypeOK, TakeNext, docVars, eventVars
  <1>4. CASE Check(w)
    <2>1. doc[w] \in Document
      BY <1>4 DEF Check, WorkerInv
    <2>2. CASE Fail(w)
      BY <1>4, <2>1, <2>2, FailType, DoneType DEF TypeOK, Check, docVars
    <2>3. CASE Go(w, "classify", doc[w], FALSE) /\ UNCHANGED <<eventVars, message, waked, batch>>
      BY <1>4, <2>1, <2>3, GoType DEF TypeOK, Check, docVars, eventVars
    <2> QED
      BY <1>4, <2>2, <2>3 DEF Check
  <1>5. CASE ReadAgain(w)
    BY <1>5, GoType DEF TypeOK, ReadAgain, docVars, eventVars
  <1>6. CASE Write(w)
    BY <1>6, WriteType
  <1>7. CASE Finish(w)
    <2>1. doc[w] \in Document
      BY <1>7 DEF Finish, WorkerInv
    <2> QED
      BY <1>7, <2>1, GoType DEF TypeOK, Finish, docVars
  <1>8. CASE Acknowledge(w)
    BY <1>8, DoneType DEF TypeOK, Acknowledge, docVars
  <1> QED
    BY <1>1, <1>2, <1>3, <1>4, <1>5, <1>6, <1>7, <1>8 DEF AgentStep

LEMMA StoreType ==
  ASSUME IInv, NEW w \in Worker, Store(w)
  PROVE  TypeOK'
  BY PollerType DEF PollerStep

LEMMA RequestCounts == TypeOK /\ Request => requests' \in 0 .. MaxRequests
  BY IntakeAssumption DEF TypeOK, Request

LEMMA ClerkType ==
  ASSUME IInv, NEW w \in Worker, ClerkStep(w)
  PROVE  TypeOK'
  <1> USE DEF IInv
  <1>1. ASSUME NEW d \in Document, BeginIngest(w, d) \/ BeginClassify(w, d) \/ BeginBridge(w, d)
        PROVE  TypeOK'
    <2>1. requests' \in 0 .. MaxRequests
      BY <1>1, RequestCounts DEF BeginIngest, BeginClassify, BeginBridge
    <2>2. \E p \in {"store", "reclassify", "bridge"}, f \in BOOLEAN : Go(w, p, d, f)
      BY <1>1 DEF BeginIngest, BeginClassify, BeginBridge
    <2>3. UNCHANGED <<seen, docVars, eventVars, registered, message, waked, batch, faults>>
      BY <1>1 DEF BeginIngest, BeginClassify, BeginBridge
    <2> QED
      BY <2>1, <2>2, <2>3, GoType DEF TypeOK, docVars, eventVars
  <1>2. CASE CommitClassify(w)
    <2>1. doc[w] \in Document
      BY <1>2 DEF CommitClassify, WorkerInv
    <2>2. SetDoc(doc[w], "new", FALSE, FALSE) \/ SetDoc(doc[w], "extracted", TRUE, FALSE)
      BY <1>2 DEF CommitClassify
    <2> QED
      BY <1>2, <2>1, <2>2, SetDocType, DoneType DEF TypeOK, CommitClassify, eventVars
  <1>3. CASE ReadBridged(w)
    <2>1. doc[w] \in Document
      BY <1>3 DEF ReadBridged, WorkerInv
    <2>2. CASE Done(w, {})
      BY <1>3, <2>2, DoneType DEF TypeOK, ReadBridged, docVars, eventVars
    <2>3. CASE Go(w, "write", doc[w], payload[doc[w]]) /\ UNCHANGED <<message, waked, batch>>
      BY <1>3, <2>1, <2>3, GoType DEF TypeOK, ReadBridged, docVars, eventVars
    <2> QED
      BY <1>3, <2>2, <2>3 DEF ReadBridged
  <1> QED
    BY <1>1, <1>2, <1>3, StoreType, WriteType DEF ClerkStep

LEMMA FaultType ==
  ASSUME IInv, NEW w \in Worker, Fault(w)
  PROVE  TypeOK'
  <1> USE DEF IInv
  <1>1. doc[w] \in Document
    BY DEF Fault, WorkerInv
  <1>2. faults' \in 0 .. MaxFaults
    BY IntakeAssumption DEF Fault, TypeOK
  <1>3. CASE Done(w, {}) /\ UNCHANGED eventVars
    BY <1>2, <1>3, DoneType DEF TypeOK, Fault, docVars, eventVars
  <1>4. CASE Fail(w)
    BY <1>1, <1>2, <1>4, FailType, DoneType DEF TypeOK, Fault, docVars
  <1> QED
    BY <1>3, <1>4 DEF Fault

LEMMA RequestType ==
  ASSUME IInv, RequestStep
  PROVE  TypeOK'
  <1> USE DEF IInv
  <1>1. PICK d \in Document : IngestStructured(d) \/ Drop(d) \/ Requeue(d)
    BY DEF RequestStep
  <1>2. requests' \in 0 .. MaxRequests
    BY <1>1, RequestCounts DEF IngestStructured, Drop, Requeue
  <1>3. CASE IngestStructured(d)
    <2>1. CASE Insert(d) /\ SetDoc(d, "extracted", TRUE, FALSE)
      BY <1>2, <1>3, <2>1, InsertType, SetDocType DEF IngestStructured, TypeOK, workerVars
    <2>2. CASE /\ UNCHANGED <<queue, eventVars>>
               /\ SetDoc(d, IF status[d] = "dropped" THEN "new" ELSE "extracted", status[d] # "dropped", FALSE)
      BY <1>2, <1>3, <2>2, SetDocType DEF IngestStructured, TypeOK, workerVars, eventVars
    <2> QED
      BY <1>3, <2>1, <2>2 DEF IngestStructured
  <1>4. CASE Drop(d)
    <2>1. payload[d] \in BOOLEAN /\ linked[d] \in BOOLEAN
      BY DEF TypeOK
    <2> QED
      BY <1>2, <1>4, <2>1, SetDocType DEF Drop, TypeOK, workerVars, eventVars
  <1>5. CASE Requeue(d)
    BY <1>2, <1>5, SetDocType DEF Requeue, Cleared, TypeOK, workerVars, eventVars
  <1> QED
    BY <1>1, <1>3, <1>4, <1>5
-----------------------------------------------------------------------------
(* Documents. *)

LEMMA WorkerDocStep ==
  ASSUME IInv, NEW w \in Worker, PollerStep(w) \/ AgentStep(w) \/ ClerkStep(w)
  PROVE  DocStep
  <1> USE DEF IInv
  <1>1. CASE Store(w)
    <2>1. doc[w] \in Document
      BY <1>1 DEF Store, WorkerInv
    <2> QED
      BY <1>1, <2>1 DEF Store, HashTaken, DocStep, DocsUnchanged, DocInserted, docVars, eventVars
  <1>2. CASE Write(w)
    <2>1. PICK s \in {"extracted", "matched", "exception"} : SetDoc(doc[w], s, found[w], TRUE)
      BY <1>2, WriteDoc
    <2>2. /\ doc[w] \in Document /\ found[w] \in BOOLEAN
          /\ status[doc[w]] # "none"
          /\ UNCHANGED eventVars
      BY <1>2 DEF Write, TypeOK, WorkerInv
    <2> QED
      BY <2>1, <2>2, <1>2, WriteDoc DEF DocStep, DocSet
  <1>3. CASE CommitClassify(w)
    <2>1. doc[w] \in Document /\ status[doc[w]] # "none"
      BY <1>3 DEF CommitClassify, WorkerInv
    <2> QED
      BY <1>3, <2>1 DEF CommitClassify, DocStep, DocSet
  <1>4. CASE Check(w)
    <2>1. CASE Fail(w)
      <3>1. doc[w] \in Document
        BY <1>4 DEF Check, WorkerInv
      <3> QED
        BY <1>4, <2>1, <3>1, FailType DEF Check, DocStep, DocsUnchanged
    <2> QED
      BY <1>4, <2>1 DEF Check, DocStep, DocsUnchanged, eventVars
  <1>5. CASE Finish(w) \/ Acknowledge(w)
    BY <1>5 DEF Finish, Acknowledge, DocStep, DocsUnchanged, TypeOK
  <1>6. CASE Flag(w) \/ IngestThrows(w) \/ Drain(w) \/ TakeNext(w) \/ ReadAgain(w) \/ ReadBridged(w)
    BY <1>6 DEF Flag, IngestThrows, Drain, TakeNext, ReadAgain, ReadBridged, DocStep, DocsUnchanged, eventVars
  <1>7. ASSUME NEW m \in Message, Fetch(w, m)
        PROVE  DocStep
    BY <1>7 DEF Fetch, DocStep, DocsUnchanged, eventVars
  <1>8. ASSUME NEW d \in Document, Wake(w, d) \/ BeginIngest(w, d) \/ BeginClassify(w, d) \/ BeginBridge(w, d)
        PROVE  DocStep
    BY <1>8 DEF Wake, BeginIngest, BeginClassify, BeginBridge, DocStep, DocsUnchanged, eventVars
  <1> QED
    BY <1>1, <1>2, <1>3, <1>4, <1>5, <1>6, <1>7, <1>8 DEF PollerStep, AgentStep, ClerkStep

LEMMA OtherDocStep ==
  ASSUME IInv, (\E w \in Worker : Fault(w)) \/ RequestStep \/ UNCHANGED vars
  PROVE  DocStep
  <1> USE DEF IInv
  <1>1. ASSUME NEW w \in Worker, Fault(w)
        PROVE  DocStep
    <2>1. doc[w] \in Document
      BY <1>1 DEF Fault, WorkerInv
    <2>2. CASE Fail(w)
      BY <1>1, <2>1, <2>2, FailType DEF Fault, DocStep, DocsUnchanged
    <2> QED
      BY <1>1, <2>2 DEF Fault, DocStep, DocsUnchanged, eventVars
  <1>2. ASSUME NEW d \in Document, IngestStructured(d)
        PROVE  DocStep
    BY <1>2 DEF IngestStructured, HashTaken, DocStep, DocInserted, DocSet
  <1>3. ASSUME NEW d \in Document, Drop(d)
        PROVE  DocStep
    <2>1. payload[d] \in BOOLEAN /\ linked[d] \in BOOLEAN /\ (linked[d] => NumberOf[d] \in registered)
      BY DEF TypeOK, ResultMatchesStatus
    <2> QED
      BY <1>3, <2>1 DEF Drop, DocStep, DocSet
  <1>4. ASSUME NEW d \in Document, Requeue(d)
        PROVE  DocStep
    BY <1>4 DEF Requeue, Cleared, DocStep, DocSet
  <1>5. CASE UNCHANGED vars
    BY <1>5 DEF vars, eventVars, DocStep, DocsUnchanged
  <1> QED
    BY <1>1, <1>2, <1>3, <1>4, <1>5 DEF RequestStep

\* Whatever is done to the documents keeps them, announces each once, and leaves none with a
\* result that its status contradicts.
LEMMA DocStepPreserves ==
  ASSUME IInv, DocStep
  PROVE  /\ DocumentsStay
         /\ EventInv'
         /\ ReceivedOnce'
         /\ ResultMatchesStatus'
  <1> USE DEF IInv
  <1>1. CASE DocsUnchanged
    BY <1>1 DEF DocsUnchanged, DocumentsStay, EventInv, ReceivedOnce, ResultMatchesStatus, docVars
  <1>2. CASE DocInserted
    <2>1. PICK d \in Document :
            /\ status[d] = "none"
            /\ Insert(d)
            /\ SetDoc(d, "new", FALSE, FALSE) \/ SetDoc(d, "extracted", TRUE, FALSE)
            /\ UNCHANGED registered
      BY <1>2 DEF DocInserted
    <2>2. /\ status'[d] \in {"new", "extracted"} /\ ~linked'[d]
          /\ status'[d] = "new" => ~payload'[d]
          /\ announced'[d] = announced[d] + 1 /\ announced[d] = 0
          /\ \A c \in Document \ {d} : /\ status'[c] = status[c] /\ payload'[c] = payload[c]
                                       /\ linked'[c] = linked[c] /\ announced'[c] = announced[c]
                                       /\ event'[c] = event[c]
      BY <2>1 DEF Insert, SetDoc, TypeOK, ReceivedOnce
    <2> QED
      BY <2>1, <2>2 DEF DocumentsStay, EventInv, ReceivedOnce, ResultMatchesStatus
  <1>3. CASE DocSet
    BY <1>3 DEF DocSet, SetDoc, DocumentsStay, EventInv, ReceivedOnce, ResultMatchesStatus, TypeOK, eventVars
  <1> QED
    BY <1>1, <1>2, <1>3 DEF DocStep
-----------------------------------------------------------------------------
(* Workers. *)

\* Work of others leaves a worker what it relies on.
LEMMA Aside ==
  ASSUME IInv, DocumentsStay, NEW v \in Worker,
         phase'[v] = phase[v], message'[v] = message[v], doc'[v] = doc[v],
         found'[v] = found[v], batch'[v] = batch[v]
  PROVE  WorkerInv(v)'
  BY DEF IInv, TypeOK, WorkerInv, DocumentsStay

LEMMA DoneInv ==
  ASSUME IInv, DocumentsStay, NEW w \in Worker,
         NEW rest \in SUBSET {d \in Document : status[d] # "none"}, Done(w, rest)
  PROVE  \A v \in Worker : WorkerInv(v)'
  <1>1. WorkerInv(w)'
    BY DEF IInv, TypeOK, WorkerInv, DocumentsStay, Done, Go
  <1>2. ASSUME NEW v \in Worker \ {w}
        PROVE  WorkerInv(v)'
    BY Aside DEF IInv, TypeOK, Done, Go
  <1> QED
    BY <1>1, <1>2

\* A worker without a message goes on to a document that exists, or may come to exist.
LEMMA GoInv ==
  ASSUME IInv, DocumentsStay, NEW w \in Worker, NEW d \in Document,
         message[w] = Nothing, message' = message, \A v \in Worker : batch'[v] \subseteq batch[v],
         \E p \in {"store", "check", "classify", "write", "finish", "acknowledge", "reclassify", "bridge"},
            f \in BOOLEAN : Go(w, p, d, f) /\ (p # "store" \/ f => status[d] # "none")
  PROVE  \A v \in Worker : WorkerInv(v)'
  <1>1. PICK p \in {"store", "check", "classify", "write", "finish", "acknowledge", "reclassify", "bridge"},
             f \in BOOLEAN : Go(w, p, d, f) /\ (p # "store" \/ f => status[d] # "none")
    OBVIOUS
  <1>2. WorkerInv(w)'
    BY <1>1 DEF IInv, TypeOK, WorkerInv, DocumentsStay, Go
  <1>3. ASSUME NEW v \in Worker \ {w}
        PROVE  WorkerInv(v)'
    BY <1>1 DEF IInv, TypeOK, WorkerInv, DocumentsStay, Go
  <1> QED
    BY <1>2, <1>3

LEMMA FetchInv ==
  ASSUME IInv, DocumentsStay, NEW w \in Worker, NEW m \in Message, Fetch(w, m)
  PROVE  \A v \in Worker : WorkerInv(v)'
  <1>1. ContentOf[m] \in Document /\ m # Nothing
    BY IntakeAssumption
  <1>2. WorkerInv(w)'
    BY <1>1 DEF IInv, TypeOK, WorkerInv, DocumentsStay, Fetch, Go, docVars
  <1>3. ASSUME NEW v \in Worker \ {w}
        PROVE  WorkerInv(v)'
    BY Aside DEF IInv, TypeOK, Fetch, Go
  <1> QED
    BY <1>2, <1>3

LEMMA StoreInv ==
  ASSUME IInv, DocumentsStay, NEW w \in Worker, Store(w)
  PROVE  \A v \in Worker : WorkerInv(v)'
  <1>1. CASE Done(w, {})
    BY <1>1, DoneInv
  <1>2. CASE Ingested(w) /\ message[w] # Nothing
    <2>1. /\ phase' = [phase EXCEPT ![w] = "flag"]
          /\ UNCHANGED <<message, doc, found, batch>>
      BY <1>2 DEF Ingested
    <2>2. doc[w] \in Document /\ status'[doc[w]] # "none"
      <3>1. doc[w] \in Document
        BY DEF IInv, WorkerInv, Store
      <3> QED
        BY <3>1 DEF IInv, TypeOK, WorkerInv, Store, SetDoc, HashTaken, docVars
    <2>3. WorkerInv(w)'
      BY <1>2, <2>1, <2>2 DEF IInv, TypeOK, WorkerInv, DocumentsStay, Store
    <2>4. ASSUME NEW v \in Worker \ {w}
          PROVE  WorkerInv(v)'
      BY <2>1, Aside DEF IInv, TypeOK
    <2> QED
      BY <2>3, <2>4
  <1> QED
    BY <1>1, <1>2 DEF Store, Ingested

LEMMA AgentInv ==
  ASSUME IInv, DocumentsStay, NEW w \in Worker, AgentStep(w)
  PROVE  \A v \in Worker : WorkerInv(v)'
  <1> USE DEF IInv
  <1> DEFINE existing == {d \in Document : status[d] # "none"}
  <1>0. batch[w] \subseteq existing
    BY DEF TypeOK, WorkerInv
  <1>1. ASSUME NEW d \in Document, Wake(w, d)
        PROVE  \A v \in Worker : WorkerInv(v)'
    <2>1. status[d] # "none" /\ message[w] = Nothing
      BY <1>1 DEF Wake, EventInv, Free, WorkerInv
    <2>2. \E p \in {"check", "acknowledge"} : Go(w, p, d, FALSE)
      BY <1>1 DEF Wake
    <2> QED
      BY <1>1, <2>1, <2>2, GoInv DEF Wake
  <1>2. CASE Drain(w)
    <2>1. WorkerInv(w)'
      BY <1>2, BatchIsNew DEF Drain, Free, WorkerInv, DocumentsStay, TypeOK, docVars
    <2>2. ASSUME NEW v \in Worker \ {w}
          PROVE  WorkerInv(v)'
      BY <1>2, Aside DEF Drain, TypeOK
    <2> QED
      BY <2>1, <2>2
  <1>3. CASE TakeNext(w)
    <2>1. PICK d \in batch[w] : Go(w, "check", d, FALSE) /\ batch' = [batch EXCEPT ![w] = batch[w] \ {d}]
      BY <1>3 DEF TakeNext
    <2>2. d \in Document /\ status[d] # "none" /\ message[w] = Nothing
      BY <1>0, <1>3, <2>1 DEF TakeNext, WorkerInv
    <2>3. \A v \in Worker : batch'[v] \subseteq batch[v]
      BY <2>1 DEF TypeOK
    <2> QED
      BY <1>3, <2>1, <2>2, <2>3, GoInv DEF TakeNext
  <1>4. CASE Check(w) \/ ReadAgain(w) \/ Write(w) \/ Finish(w) \/ Acknowledge(w)
    <2>1. doc[w] \in Document /\ status[doc[w]] # "none" /\ message[w] = Nothing
      BY <1>4 DEF Check, ReadAgain, Write, Finish, Acknowledge, WorkerInv
    <2>2. \/ \E rest \in {{}, batch[w]} : Done(w, rest)
          \/ /\ \E p \in {"classify", "write", "finish", "acknowledge"}, f \in BOOLEAN : Go(w, p, doc[w], f)
             /\ UNCHANGED <<message, batch>>
      BY <1>4 DEF Check, Fail, Remaining, ReadAgain, Write, Finish, Acknowledge
    <2>3. CASE UNCHANGED <<message, batch>>
      BY <2>1, <2>2, <2>3, <1>0, GoInv, DoneInv
    <2> QED
      BY <1>0, <2>2, <2>3, DoneInv
  <1> QED
    BY <1>1, <1>2, <1>3, <1>4 DEF AgentStep

LEMMA ClerkInv ==
  ASSUME IInv, DocumentsStay, NEW w \in Worker, ClerkStep(w)
  PROVE  \A v \in Worker : WorkerInv(v)'
  <1> USE DEF IInv
  <1>1. ASSUME NEW d \in Document, BeginIngest(w, d) \/ BeginClassify(w, d) \/ BeginBridge(w, d)
        PROVE  \A v \in Worker : WorkerInv(v)'
    <2>1. message[w] = Nothing
      BY <1>1 DEF BeginIngest, BeginClassify, BeginBridge, Free, WorkerInv
    <2>2. /\ \E p \in {"store", "reclassify", "bridge"}, f \in BOOLEAN :
               Go(w, p, d, f) /\ (p # "store" \/ f => status[d] # "none")
          /\ UNCHANGED <<message, batch>>
      BY <1>1 DEF BeginIngest, BeginClassify, BeginBridge
    <2> QED
      BY <2>1, <2>2, GoInv
  <1>2. CASE CommitClassify(w) \/ ReadBridged(w) \/ Write(w)
    <2>1. doc[w] \in Document /\ status[doc[w]] # "none" /\ message[w] = Nothing /\ payload[doc[w]] \in BOOLEAN
      BY <1>2 DEF CommitClassify, ReadBridged, Write, WorkerInv, TypeOK
    <2>2. \/ \E rest \in {{}, batch[w]} : Done(w, rest)
          \/ /\ \E p \in {"write", "finish"}, f \in BOOLEAN : Go(w, p, doc[w], f)
             /\ UNCHANGED <<message, batch>>
      BY <1>2, <2>1 DEF CommitClassify, ReadBridged, Write
    <2>3. batch[w] \subseteq {d \in Document : status[d] # "none"}
      BY DEF TypeOK, WorkerInv
    <2>4. CASE UNCHANGED <<message, batch>>
      BY <2>1, <2>2, <2>3, <2>4, GoInv, DoneInv
    <2> QED
      BY <2>2, <2>3, <2>4, DoneInv
  <1> QED
    BY <1>1, <1>2, StoreInv DEF ClerkStep

LEMMA OtherInv ==
  ASSUME IInv, DocumentsStay, (\E w \in Worker : Fault(w)) \/ RequestStep \/ UNCHANGED vars
  PROVE  \A v \in Worker : WorkerInv(v)'
  <1>1. ASSUME NEW w \in Worker, Fault(w)
        PROVE  \A v \in Worker : WorkerInv(v)'
    <2>1. batch[w] \subseteq {d \in Document : status[d] # "none"}
      BY DEF IInv, TypeOK, WorkerInv
    <2>2. \E rest \in {{}, batch[w]} : Done(w, rest)
      BY <1>1 DEF Fault, Fail, Remaining
    <2> QED
      BY <2>1, <2>2, DoneInv
  <1>2. CASE RequestStep \/ UNCHANGED vars
    <2>1. UNCHANGED <<phase, message, doc, found, batch>>
      BY <1>2 DEF RequestStep, IngestStructured, Drop, Requeue, workerVars, vars
    <2> QED
      BY <2>1, Aside
  <1> QED
    BY <1>1, <1>2
-----------------------------------------------------------------------------
\* A message is flagged only by a worker at whose hands it has its document.
LEMMA SeenStays ==
  ASSUME IInv, [Next]_vars, DocumentsStay
  PROVE  SeenIsStored'
  <1> USE DEF IInv
  <1>1. seen' = seen \/ \E w \in Worker : Flag(w) /\ seen' = seen \cup {message[w]}
    BY DEF Next, PollerStep, AgentStep, ClerkStep, RequestStep, vars, Fetch, IngestThrows, Store, Flag,
           Wake, Drain, TakeNext, Check, ReadAgain, Write, Finish, Acknowledge, BeginIngest, BeginClassify, BeginBridge,
           CommitClassify, ReadBridged, Fault, IngestStructured, Drop, Requeue, Worker
  <1>2. \A m \in seen' : m \in seen \/ \E w \in Worker : phase[w] = "flag" /\ m = message[w]
    BY <1>1 DEF Flag, Stored
  <1>3. \A m \in seen' : m \in Message /\ status[ContentOf[m]] # "none"
    BY <1>2, IntakeAssumption DEF SeenIsStored, WorkerInv, TypeOK
  <1> QED
    BY <1>3, IntakeAssumption DEF SeenIsStored, DocumentsStay

LEMMA NextIInv == IInv /\ [Next]_vars => IInv'
  <1> SUFFICES ASSUME IInv, [Next]_vars
               PROVE  IInv'
    OBVIOUS
  <1>1. \/ \E w \in Worker : PollerStep(w) \/ AgentStep(w) \/ ClerkStep(w)
        \/ (\E w \in Worker : Fault(w)) \/ RequestStep \/ UNCHANGED vars
    BY DEF Next, Worker
  <1>2. DocStep
    BY <1>1, WorkerDocStep, OtherDocStep
  <1>3. DocumentsStay /\ EventInv' /\ ReceivedOnce' /\ ResultMatchesStatus'
    BY <1>2, DocStepPreserves
  <1>4. TypeOK'
    <2>1. CASE UNCHANGED vars
      BY <2>1 DEF IInv, TypeOK, vars, docVars, eventVars, workerVars
    <2> QED
      BY <1>1, <2>1, PollerType, AgentType, ClerkType, FaultType, RequestType
  <1>5. \A v \in Worker : WorkerInv(v)'
    <2>1. ASSUME NEW w \in Worker, PollerStep(w)
          PROVE  \A v \in Worker : WorkerInv(v)'
      <3>1. CASE Flag(w)
        BY <1>3, <3>1, DoneInv DEF Flag
      <3>2. CASE IngestThrows(w)
        BY <1>3, <3>2, DoneInv DEF IngestThrows
      <3> QED
        BY <1>3, <2>1, <3>1, <3>2, FetchInv, StoreInv DEF PollerStep
    <2> QED
      BY <1>1, <1>3, <2>1, AgentInv, ClerkInv, OtherInv
  <1> QED
    BY <1>3, <1>4, <1>5, SeenStays DEF IInv

\* Columns, flags and workers keep their types.
THEOREM TypeCorrect == Spec => []TypeOK
  BY InitIInv, NextIInv, PTL DEF Spec, IInv

\* For any mailbox and any pollers that fail between fetch and flag: a message that will not
\* be fetched again has its document (pollMailbox).
THEOREM SeenIsStoredAlways == Spec => []SeenIsStored
  BY InitIInv, NextIInv, PTL DEF Spec, IInv

\* For any number of deliveries of a content on any number of workers: one document and one
\* event (the unique index and ingest's transaction).
THEOREM ReceivedOnceAlways == Spec => []ReceivedOnce
  BY InitIInv, NextIInv, PTL DEF Spec, IInv

\* For any agents and people who write on what they have read before: what a document says of
\* its invoice agrees with what has happened to it (classify, attachInvoice, requeue).
THEOREM ResultMatchesStatusAlways == Spec => []ResultMatchesStatus
  BY InitIInv, NextIInv, PTL DEF Spec, IInv
-----------------------------------------------------------------------------
(* The timer. *)

NoMailStored == \A m \in Message : status[ContentOf[m]] = "none"

\* Without clerks and other pollers no step gives a mail its document.
LEMMA NoMailStays ==
  ASSUME Timer = Poller, Clerk = {}, IInv, NoMailStored, [Next]_vars
  PROVE  NoMailStored'
  <1> USE DEF IInv
  <1>1. ASSUME NEW w \in Timer, PollerStep(w)
        PROVE  status' = status
    BY <1>1 DEF PollerStep, Fetch, IngestThrows, Store, Flag, docVars
  <1>2. ASSUME NEW w \in Agent, AgentStep(w)
        PROVE  status' = status \/ \E d \in Document : status[d] # "none"
                                      /\ \A c \in Document \ {d} : status'[c] = status[c]
    <2>1. CASE Write(w)
      <3>1. PICK s \in {"extracted", "matched", "exception"} : SetDoc(doc[w], s, found[w], TRUE)
        BY <2>1, WriteDoc DEF Worker
      <3>2. doc[w] \in Document /\ status[doc[w]] # "none"
        BY <2>1 DEF Write, WorkerInv, Worker
      <3> QED
        BY <3>1, <3>2 DEF SetDoc, TypeOK
    <2>2. CASE ~Write(w)
      BY <1>2, <2>2 DEF AgentStep, Wake, Drain, TakeNext, Check, ReadAgain, Finish, Acknowledge, docVars
    <2> QED
      BY <2>1, <2>2
  <1>3. ASSUME NEW w \in Worker, Fault(w)
        PROVE  status' = status
    BY <1>3 DEF Fault, docVars
  <1>4. ASSUME NEW d \in Document, IngestStructured(d)
        PROVE  d \in Structured /\ \A c \in Document \ {d} : status'[c] = status[c]
    BY <1>4 DEF IngestStructured, SetDoc, TypeOK
  <1>5. ASSUME NEW d \in Document, Drop(d) \/ Requeue(d)
        PROVE  status[d] # "none" /\ \A c \in Document \ {d} : status'[c] = status[c]
    BY <1>5 DEF Drop, Requeue, SetDoc, TypeOK
  <1>6. CASE status' = status
    BY <1>6 DEF NoMailStored
  <1>7. CASE \E d \in Document : /\ d \in Structured \/ status[d] # "none"
                                 /\ \A c \in Document \ {d} : status'[c] = status[c]
    BY <1>7, IntakeAssumption DEF NoMailStored
  <1>8. CASE UNCHANGED vars
    BY <1>6, <1>8 DEF vars, docVars
  <1> QED
    BY <1>1, <1>2, <1>3, <1>4, <1>5, <1>6, <1>7, <1>8 DEF Next, RequestStep

\* Where mail arrives by the timer alone, and nobody ingests a content of it by hand, none is
\* ever stored, whatever else happens (poll, intake-imap.service.ts line 105).
THEOREM TimerStoresNothing ==
  ASSUME Timer = Poller, Clerk = {}
  PROVE  Spec => []NoMailStored
  <1>1. Init => NoMailStored
    BY IntakeAssumption DEF Init, NoMailStored
  <1>2. IInv /\ NoMailStored /\ [Next]_vars => NoMailStored'
    BY NoMailStays
  <1> QED
    BY <1>1, <1>2, InitIInv, NextIInv, PTL DEF Spec
=============================================================================
