-------------------------------- MODULE Intake --------------------------------
(***************************************************************************)
(* The intake queue: supplier mail is polled from a mailbox                *)
(* (intake-imap.service.ts), structured invoices are posted                *)
(* (intake.router.ts), documents are deduplicated, classified, registered  *)
(* as invoices and dropped or requeued by people (intake.service.ts), and  *)
(* an agent works through the new ones (agent.service.ts), woken by the    *)
(* event of each document or draining the oldest ones (agent.scheduler.ts, *)
(* agent-command.service.ts).                                              *)
(*                                                                         *)
(* Handlers run in transactions that read documents without a lock and     *)
(* update them by id.  An update keeps its row locked until the commit, so *)
(* that a handler is its reads, each a step, and then its writes with the  *)
(* commit, one step.                                                       *)
(*                                                                         *)
(* The relay delivers intake.received at least once, to several replicas   *)
(* if a claim expires (EventRelay); the lease of the drain may end before  *)
(* the drain does (automation-lease.service.ts).  Neither is assumed to    *)
(* keep two workers apart here.                                            *)
(*                                                                         *)
(* The mailbox is polled if it is configured (AIPMS_IMAP_HOST, _USER and   *)
(* _PASSWORD), the handler of intake.received is subscribed with           *)
(* AGENT_AUTORUN=1 or AIPMS_AGENT_WAKE=1: both are taken as done.  The     *)
(* drain runs with AGENT_AUTORUN=1 only, which is a constant.              *)
(***************************************************************************)
EXTENDS Naturals, Sequences, FiniteSets

CONSTANTS
  Message,      \* messages in the mailbox
  Document,     \* contents, told apart by [channel, contentHash]
  ContentOf,    \* the content of each message; re-deliveries share one
  Structured,   \* contents posted as structured files instead
  Unreadable,   \* contents that extraction or registration refuses
  InvoiceNo,    \* [vendorId, number] of invoices
  NumberOf,     \* the invoice number on each content
  Poller,       \* what runs pollMailbox: the timer of a replica, or a call of the method
  Timer,        \* the pollers that are timers, and call it through poll
  Agent,        \* relays and drains of the replicas
  Clerk,        \* requests of people
  Autorun,      \* AGENT_AUTORUN is 1
  Nothing,      \* no message, no document
  BatchSize,    \* AGENT_BATCH_SIZE
  MaxAttempts,  \* EVENT_RELAY_MAX_ATTEMPTS
  MaxRequests,  \* bound: requests of people
  MaxFaults     \* bound: crashes, refusals of the quota, failures of the mail server

Worker == Poller \cup Agent \cup Clerk

ASSUME IntakeAssumption ==
  /\ Structured \subseteq Document /\ Unreadable \subseteq Document
  /\ ContentOf \in [Message -> Document \ Structured]
  /\ NumberOf \in [Document -> InvoiceNo]
  /\ Nothing \notin Message \cup Document
  /\ Timer \subseteq Poller
  /\ Autorun \in BOOLEAN
  /\ Agent \cap (Poller \cup Clerk) = {}
  /\ BatchSize \in Nat \ {0} /\ MaxAttempts \in Nat \ {0}
  /\ MaxRequests \in Nat /\ MaxFaults \in Nat

VARIABLES
  seen,       \* messages that carry the flag \Seen
  queue,      \* the documents that exist, oldest first (receivedAt)
  status,     \* intakeDocument.status; "none" before the row exists
  payload,    \* its classified value holds an invoice payload
  linked,     \* its classified value holds an invoiceId
  announced,  \* how many intake.received events of it are in the outbox
  event,      \* the latest: "pending", "handled" or "dead"; "none" without one
  attempts,   \* its failed deliveries
  worked,     \* documents of which the agent's run for the event has succeeded (agentRun)
  registered, \* the invoices that exist, by their number
  phase,      \* what a worker does next
  message,    \* the message it is at
  doc,        \* the document it is at
  found,      \* what it has read: the document exists, is dropped, or holds a payload
  waked,      \* it is at doc on behalf of the event
  batch,      \* the documents its drain has yet to try
  requests, faults

docVars    == <<queue, status, payload, linked>>
eventVars  == <<announced, event, attempts, worked>>
workerVars == <<phase, message, doc, found, waked, batch>>
vars == <<seen, docVars, eventVars, registered, workerVars, requests, faults>>

Init ==
  /\ seen = {}
  /\ queue = <<>>
  /\ status = [d \in Document |-> "none"]
  /\ payload = [d \in Document |-> FALSE]
  /\ linked = [d \in Document |-> FALSE]
  /\ announced = [d \in Document |-> 0]
  /\ event = [d \in Document |-> "none"]
  /\ attempts = [d \in Document |-> 0]
  /\ worked = {}
  /\ registered = {}
  /\ phase = [w \in Worker |-> "idle"]
  /\ message = [w \in Worker |-> Nothing]
  /\ doc = [w \in Worker |-> Nothing]
  /\ found = [w \in Worker |-> FALSE]
  /\ waked = [w \in Worker |-> FALSE]
  /\ batch = [w \in Worker |-> {}]
  /\ requests = 0 /\ faults = 0

\* w goes to the phase p of its work on d, knowing f.
Go(w, p, d, f) ==
  /\ phase' = [phase EXCEPT ![w] = p]
  /\ doc' = [doc EXCEPT ![w] = d]
  /\ found' = [found EXCEPT ![w] = f]

\* w is done with what it was at; a drain goes on with the documents `rest'.
Done(w, rest) ==
  /\ Go(w, "idle", Nothing, FALSE)
  /\ message' = [message EXCEPT ![w] = Nothing]
  /\ waked' = [waked EXCEPT ![w] = FALSE]
  /\ batch' = [batch EXCEPT ![w] = rest]

Free(w) == phase[w] = "idle" /\ batch[w] = {}

SetDoc(d, s, p, l) ==
  /\ status' = [status EXCEPT ![d] = s]
  /\ payload' = [payload EXCEPT ![d] = p]
  /\ linked' = [linked EXCEPT ![d] = l]
-----------------------------------------------------------------------------
(* Mail. *)

\* pollMailbox fetches an unseen message, and ingest looks for its document, if it is called.
Fetch(w, m) ==
  /\ Free(w)
  /\ m \notin seen
  /\ message' = [message EXCEPT ![w] = m]
  /\ Go(w, "store", ContentOf[m], w \notin Timer /\ status[ContentOf[m]] # "none")
  /\ UNCHANGED <<seen, docVars, eventVars, registered, waked, batch, requests, faults>>

\* poll calls pollMailbox as a function without its object: for every message the call of
\* this.ingestMessage throws, and the catch around it leaves the message unseen.
IngestThrows(w) ==
  /\ w \in Timer
  /\ phase[w] = "store"
  /\ Done(w, {})
  /\ UNCHANGED <<seen, docVars, eventVars, registered, requests, faults>>

\* The row of d with its event, in one transaction.
Insert(d) ==
  /\ queue' = Append(queue, d)
  /\ announced' = [announced EXCEPT ![d] = @ + 1]
  /\ event' = [event EXCEPT ![d] = "pending"]
  /\ UNCHANGED <<attempts, worked>>

\* Mutant of HashTaken: the index is not unique.
HashNeverTaken(d) == FALSE

\* The unique index on [channel, contentHash] refuses an insert.
HashTaken(d) == status[d] # "none"

\* Only a message has a flag to set.
Ingested(w) ==
  IF message[w] = Nothing
  THEN Done(w, {})
  ELSE phase' = [phase EXCEPT ![w] = "flag"] /\ UNCHANGED <<message, doc, found, waked, batch>>

\* ingest: an existing document is returned as it is; an insert that another worker was
\* faster with fails, and the message stays unseen.
Store(w) ==
  LET d == doc[w]
  IN  /\ w \notin Timer
      /\ phase[w] = "store"
      /\ \/ found[w] /\ Ingested(w) /\ UNCHANGED <<docVars, eventVars>>
         \/ ~found[w] /\ HashTaken(d) /\ Done(w, {}) /\ UNCHANGED <<docVars, eventVars>>
         \/ ~found[w] /\ ~HashTaken(d) /\ Ingested(w) /\ Insert(d) /\ SetDoc(d, "new", FALSE, FALSE)
      /\ UNCHANGED <<seen, registered, requests, faults>>

\* Mutant of Stored: the message is flagged as soon as it is fetched.
Fetched(w) == phase[w] \in {"store", "flag"}

Stored(w) == phase[w] = "flag"

\* messageFlagsAdd, after the ingest has succeeded.
Flag(w) ==
  /\ Stored(w)
  /\ seen' = seen \cup {message[w]}
  /\ Done(w, {})
  /\ UNCHANGED <<docVars, eventVars, registered, requests, faults>>
-----------------------------------------------------------------------------
(* Requests. *)

Request ==
  /\ requests < MaxRequests
  /\ requests' = requests + 1

\* A request ingests a document of its own, of a channel that may be that of the mail.
BeginIngest(w, d) ==
  /\ Request
  /\ Free(w)
  /\ Go(w, "store", d, status[d] # "none")
  /\ UNCHANGED <<seen, docVars, eventVars, registered, message, waked, batch, faults>>

\* ingestStructured: ingest and classify in one transaction, also for a file that was
\* sent before.
IngestStructured(d) ==
  /\ Request
  /\ d \in Structured
  /\ \/ /\ ~HashTaken(d)
        /\ Insert(d)
        /\ SetDoc(d, "extracted", TRUE, FALSE)
     \/ /\ HashTaken(d)
        /\ SetDoc(d, IF status[d] = "dropped" THEN "new" ELSE "extracted",
                  status[d] # "dropped", FALSE)
        /\ UNCHANGED <<queue, eventVars>>
  /\ UNCHANGED <<seen, registered, workerVars, faults>>

\* drop
Drop(d) ==
  /\ Request
  /\ status[d] \notin {"none", "dropped"}
  /\ SetDoc(d, "dropped", payload[d], linked[d])
  /\ UNCHANGED <<seen, queue, eventVars, registered, workerVars, faults>>

\* Mutant of Cleared: what was classified stays.
Kept(d) == <<payload[d], linked[d]>>

\* requeue empties the classified value.
Cleared(d) == <<FALSE, FALSE>>

\* requeue
Requeue(d) ==
  /\ Request
  /\ status[d] \notin {"none", "new"}
  /\ SetDoc(d, "new", Cleared(d)[1], Cleared(d)[2])
  /\ UNCHANGED <<seen, queue, eventVars, registered, workerVars, faults>>

\* classify by a person reads the document ...
BeginClassify(w, d) ==
  /\ Request
  /\ Free(w)
  /\ status[d] # "none"
  /\ Go(w, "reclassify", d, status[d] = "dropped")
  /\ UNCHANGED <<seen, docVars, eventVars, registered, message, waked, batch, faults>>

\* ... and stores the payload, or wakes a document it has seen dropped.
CommitClassify(w) ==
  /\ phase[w] = "reclassify"
  /\ IF found[w] THEN SetDoc(doc[w], "new", FALSE, FALSE)
                 ELSE SetDoc(doc[w], "extracted", TRUE, FALSE)
  /\ Done(w, {})
  /\ UNCHANGED <<seen, queue, eventVars, registered, requests, faults>>

\* registerInvoice by a person reads a document that is not dropped and has a payload ...
BeginBridge(w, d) ==
  /\ Request
  /\ Free(w)
  /\ status[d] \notin {"none", "dropped"} /\ payload[d]
  /\ Go(w, "bridge", d, FALSE)
  /\ UNCHANGED <<seen, docVars, eventVars, registered, message, waked, batch, faults>>

\* ... and attachInvoice reads it again, with what is classified now.
ReadBridged(w) ==
  /\ phase[w] = "bridge"
  /\ IF status[doc[w]] = "dropped"
     THEN Done(w, {})
     ELSE /\ Go(w, "write", doc[w], payload[doc[w]])
          /\ UNCHANGED <<message, waked, batch>>
  /\ UNCHANGED <<seen, docVars, eventVars, registered, requests, faults>>
-----------------------------------------------------------------------------
(* The agent. *)

\* The relay delivers the event of d.  beginRun has nothing left to do if its run has succeeded.
Wake(w, d) ==
  /\ Free(w)
  /\ event[d] = "pending"
  /\ Go(w, IF d \in worked THEN "acknowledge" ELSE "check", d, FALSE)
  /\ waked' = [waked EXCEPT ![w] = TRUE]
  /\ UNCHANGED <<seen, docVars, eventVars, registered, message, batch, requests, faults>>

\* c was received before d.
Before(c, d) == \E i, j \in DOMAIN queue : i < j /\ queue[i] = c /\ queue[j] = d

\* processPending selects the oldest new documents ...
Batch ==
  LET new == {d \in Document : status[d] = "new"}
  IN  {d \in new : Cardinality({c \in new : Before(c, d)}) < BatchSize}

Drain(w) ==
  /\ Autorun
  /\ Free(w)
  /\ Batch # {}
  /\ batch' = [batch EXCEPT ![w] = Batch]
  /\ UNCHANGED <<seen, docVars, eventVars, registered, phase, message, doc, found, waked, requests, faults>>

\* ... and processes them one after the other, whatever became of them meanwhile.
TakeNext(w) ==
  /\ phase[w] = "idle"
  /\ \E d \in batch[w] :
       /\ \A c \in batch[w] : ~Before(c, d)
       /\ Go(w, "check", d, FALSE)
       /\ batch' = [batch EXCEPT ![w] = @ \ {d}]
  /\ UNCHANGED <<seen, docVars, eventVars, registered, message, waked, requests, faults>>

\* Mutant of Remaining: a failure ends the drain.
NoneRemaining(w) == {}

\* A document that fails leaves the rest of its batch to be tried.
Remaining(w) == batch[w]

\* The work on a document failed.  The run of its event has failed, also if another delivery
\* has succeeded with it, and the event is delivered again or a dead letter.
Fail(w) ==
  LET d == doc[w]
  IN  /\ IF waked[w] /\ event[d] = "pending"
         THEN /\ attempts' = [attempts EXCEPT ![d] = @ + 1]
              /\ event' = IF attempts[d] + 1 >= MaxAttempts THEN [event EXCEPT ![d] = "dead"] ELSE event
         ELSE UNCHANGED <<attempts, event>>
      /\ worked' = IF waked[w] /\ phase[w] # "acknowledge" THEN worked \ {d} ELSE worked
      /\ Done(w, Remaining(w))
      /\ UNCHANGED announced

\* classifyAndRegister reads that the document is not dropped and extracts its payload ...
Check(w) ==
  LET d == doc[w]
  IN  /\ phase[w] = "check"
      /\ IF status[d] = "dropped" \/ d \in Unreadable
         THEN Fail(w)
         ELSE Go(w, "classify", d, FALSE) /\ UNCHANGED <<eventVars, message, waked, batch>>
      /\ UNCHANGED <<seen, docVars, registered, requests, faults>>

\* ... classify reads it again, and would wake a dropped one without a payload ...
ReadAgain(w) ==
  /\ phase[w] = "classify"
  /\ Go(w, "write", doc[w], status[doc[w]] # "dropped")
  /\ UNCHANGED <<seen, docVars, eventVars, registered, message, waked, batch, requests, faults>>

\* attachInvoice: what the invoice's status, which Payables goes on changing, makes of
\* the document's.
Bridged(invoiceStatus) ==
  IF invoiceStatus \in {"matched", "exception"} THEN invoiceStatus ELSE "extracted"

\* ... the invoice is registered, once per number, and attached; everything is committed.
\* `found' says whether the classified value that is written holds a payload.
Write(w) ==
  LET d == doc[w]
  IN  /\ phase[w] = "write"
      /\ registered' = registered \cup {NumberOf[d]}
      /\ \E invoiceStatus \in {"received", "matched", "exception"}
              \cup (IF NumberOf[d] \in registered THEN {"paid"} ELSE {}) :
           SetDoc(d, Bridged(invoiceStatus), found[w], TRUE)
      /\ IF waked[w] THEN Go(w, "finish", d, FALSE) /\ UNCHANGED <<message, waked, batch>>
                     ELSE Done(w, batch[w])
      /\ UNCHANGED <<seen, queue, eventVars, requests, faults>>

\* spawnRun notes that the run of the event has succeeded, after the commit.
Finish(w) ==
  /\ phase[w] = "finish"
  /\ worked' = worked \cup {doc[w]}
  /\ Go(w, "acknowledge", doc[w], FALSE)
  /\ UNCHANGED <<seen, docVars, announced, event, attempts, registered, message, waked, batch, requests, faults>>

\* The relay publishes the event, if it has not been given up meanwhile.
Acknowledge(w) ==
  LET d == doc[w]
  IN  /\ phase[w] = "acknowledge"
      /\ event' = IF event[d] = "pending" THEN [event EXCEPT ![d] = "handled"] ELSE event
      /\ Done(w, {})
      /\ UNCHANGED <<seen, docVars, announced, attempts, worked, registered, requests, faults>>

\* A worker fails at any point but in a commit: an error of the database or of the mail
\* server, a refusal of the quota (which ends a drain), the end of the process.
Fault(w) ==
  /\ phase[w] # "idle" /\ faults < MaxFaults
  /\ faults' = faults + 1
  /\ \/ Done(w, {}) /\ UNCHANGED eventVars
     \/ w \in Agent /\ Fail(w)
  /\ UNCHANGED <<seen, docVars, registered, requests>>
-----------------------------------------------------------------------------
PollerStep(w) ==
  \/ \E m \in Message : Fetch(w, m)
  \/ IngestThrows(w)
  \/ Store(w)
  \/ Flag(w)

AgentStep(w) ==
  \/ \E d \in Document : Wake(w, d)
  \/ Drain(w)
  \/ TakeNext(w)
  \/ Check(w)
  \/ ReadAgain(w)
  \/ Write(w)
  \/ Finish(w)
  \/ Acknowledge(w)

ClerkStep(w) ==
  \/ \E d \in Document : BeginIngest(w, d) \/ BeginClassify(w, d) \/ BeginBridge(w, d)
  \/ Store(w)
  \/ CommitClassify(w)
  \/ ReadBridged(w)
  \/ Write(w)

RequestStep ==
  \E d \in Document : IngestStructured(d) \/ Drop(d) \/ Requeue(d)

Next ==
  \/ \E w \in Poller : PollerStep(w)
  \/ \E w \in Agent : AgentStep(w)
  \/ \E w \in Clerk : ClerkStep(w)
  \/ \E w \in Worker : Fault(w)
  \/ RequestStep

Spec == Init /\ [][Next]_vars

\* The timers of the poller and, with AGENT_AUTORUN=1, of the drain fire again and again, and
\* what they await answers or fails.  Nothing is asked of people, nor of other calls of
\* pollMailbox.
FairSpec ==
  /\ Spec
  /\ \A w \in Timer : WF_vars(PollerStep(w))
  /\ \A w \in Agent : WF_vars(AgentStep(w))
-----------------------------------------------------------------------------
(* Properties. *)

TypeOK ==
  /\ seen \subseteq Message
  /\ queue \in Seq(Document)
  /\ status \in [Document -> {"none", "new", "extracted", "matched", "exception", "dropped"}]
  /\ payload \in [Document -> BOOLEAN]
  /\ linked \in [Document -> BOOLEAN]
  /\ announced \in [Document -> Nat]
  /\ event \in [Document -> {"none", "pending", "handled", "dead"}]
  /\ attempts \in [Document -> Nat]
  /\ worked \subseteq Document
  /\ registered \subseteq InvoiceNo
  /\ phase \in [Worker -> {"idle", "store", "flag", "check", "classify", "write",
                           "finish", "acknowledge", "reclassify", "bridge"}]
  /\ message \in [Worker -> Message \cup {Nothing}]
  /\ doc \in [Worker -> Document \cup {Nothing}]
  /\ found \in [Worker -> BOOLEAN]
  /\ waked \in [Worker -> BOOLEAN]
  /\ batch \in [Worker -> SUBSET Document]
  /\ requests \in 0 .. MaxRequests /\ faults \in 0 .. MaxFaults

\* No failure between the fetch of a message and its flag loses the message: one that the
\* poller will not fetch again has its document ("a crash between fetch and store
\* re-processes rather than loses").
SeenIsStored == \A m \in seen : status[ContentOf[m]] # "none"

\* Every content has one document and one intake.received, however many pollers fetch its
\* messages at once, fail on the way, and start over.
ReceivedOnce ==
  \A d \in Document : announced[d] = IF status[d] = "none" THEN 0 ELSE 1

\* What a document says of its invoice agrees with what has happened to it, whichever of
\* agents and people wrote last on what they had read before: a new one carries no earlier
\* result, and one that is matched or excepted names an invoice that is registered.
ResultMatchesStatus ==
  \A d \in Document :
    /\ status[d] \in {"none", "new"} => ~payload[d] /\ ~linked[d]
    /\ status[d] \in {"matched", "exception"} => linked[d]
    /\ linked[d] => NumberOf[d] \in registered

\* With the drain on, every document that can be read is worked through, also when it is
\* requeued, when its event has become a dead letter, and behind documents that always fail, as
\* long as these are fewer than a batch.
DocumentIsHandled ==
  Autorun => \A d \in Document \ Unreadable : status[d] = "new" ~> status[d] # "new"
=============================================================================
