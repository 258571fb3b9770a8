# A formal model of AIPMS

AIPMS is a procurement and accounts-payable system: a NestJS/tRPC API over
Prisma and PostgreSQL (`apps/api`), an agent runtime that calls the API
(`apps/agent`) and a web client (`apps/web`). What can go wrong in it is money:
an invoice paid twice or without goods, a budget that does not add up, a letter
sent twice, an approval that is ordered twice or never. All of that is decided
in the API, between transactions that run at READ COMMITTED, in several
replicas, with background workers and people acting on the same rows. The
modules here model that part.

`PROJECT.json` lists components, runs, mutants, findings, hazards and theorems,
and maps every definition to the lines it models.

## Inventory

| Component (`apps/api/src`) | State | Operations | What is hard | What makes it correct |
|---|---|---|---|---|
| `purchase-order`, `approval` (cancellation), `budget` | order and budget rows, cancellation gate | issue, confirm, request/approve/reject cancellation | cancelling what is planned or billed; commitment of several orders in one balance | commitment is what live orders have left; limit; cancelled orders are never paid |
| `receipt`, `invoice` | receipts, invoices with a stored match | record, cancel; register, rematch, reevaluate, correction guard | tolerance adding up, forgotten invoices, statements of two transactions | goods cover what is eligible; nothing waits that could match |
| `payment-run` | runs with lines that claim invoices | create, approve, execute, void, reconcile, bank file | overlapping plans, replans, void against approve/execute, counting the last line | one claim and one payment per invoice; maker is not checker |
| `messaging` | message rows with a delivery claim | submit, approve, reject, resolve, claim and dispatch, poll | crash between staging and release; ambiguous transport; late senders | no message delivered twice, none forgotten, gated ones reviewed |
| `shared/events` | outbox rows with a leased claim | poll, heartbeat, publish, record failure, requeue | expiring leases, late failures, crashes | one dispatcher per event; each event published or a dead letter |
| `agent` (wake, command) | agent runs, idempotent commands | handle `requisition.approved`, `intake.received`; cancel stale run | second delivery at any step, orders issued or cancelled by people meanwhile | an approval is answered, and ordered once while its key is kept; never two live orders per requisition |
| `shared/idempotency` | keys with results | `runAtomic`; `run` (claim and wait, no caller) | replays, crashes | one effect per key |
| `requisition`, `policy`, `approval` (gates, SLA) | requisitions, policies in versions, gates | create, submit, decide, escalate, activate | sibling gates decided at once | approved only with every gate decided |
| `sourcing` | quotes | request, receive, compare, award | expiry, one award | one accepted quote |
| `vendor`, beneficiary snapshot, batch | vendors, bank accounts, contacts, files | verify, revoke, blacklist; freeze, build, hand over | changes between plan, approval and file | a file pays whom two people confirmed, as it was when the run was planned |
| `erp` (export, QuickBooks) | exports with a frozen manifest, push claims, tokens | export, prepare/complete/fail push, acknowledge, resolve, refresh | ambiguous pushes, manual resolution, two refreshes | one journal per run, one manifest, a record that agrees with the ledger |
| `intake` | documents, flags in the mailbox | fetch, ingest, classify, register, drop, requeue | crashes between mail and document, workers on what they had read | each content one document, no mail lost, all mail worked through |
| `shared/agent-quota`, `shared/automation` | slots, counters; advisory locks | run, runExclusive | slots across awaits, nested calls; timeout of the lock | never over the limit, slots come back |
| `shared/audit`, `shared/retention` | hash chain, checkpoints, keys | append, checkpoint, verify, prune | concurrent appends, verification of a growing trail | one chain, a true verdict |
| `trpc`, `sso`, `analytics`, `catalog`, `bir`, `signing` | — | checks, queries, documents | no protocol of several steps | — |
| `apps/web`, `apps/agent`, `packages`, `scripts` | — | user interface, prompts, configuration | — | — |

Components interact through rows of one database (row locks, conditional
updates), through the outbox (a domain mutation and its event commit together,
the relay calls handlers later), and through requests of the agent runtime, which
take the same paths as those of people.

## Modules

```
ThreeWayMatch  <- Payables  ----implements---->  PaymentClaims
                     ^   \----> PayablesProofs
                     |  (its transactions, statement by statement)
                PlanningLocks ---> PlanningProofs
Procurement    (up to the issue of the order, where Payables begins; the SLA sweep)
               ---> ProcurementProofs
Beneficiary    <- LedgerExport ---> LedgerProofs
MessageDispatch ---> MessageProofs
EventRelay     <- AgentWake ---> WakeProofs
Intake         ---> IntakeProofs
Commands       ---> CommandsProofs
```

An arrow `<-` points to the module that is extended; a `*Proofs` module extends what it proves about.
The `MC*` modules give constants small values; they define nothing of the system.

### ThreeWayMatch, Payables

One action of `Payables` is one committed transaction, from an issued order to a
paid invoice. A variable is a column (`poStatus`, `invStatus`, `line`,
`committed`, ...), or a pair of them where the code always writes both. Documents
(what an order, a receipt or an invoice says) never change after they are written,
so they are constants. `ThreeWayMatch` is `matchAgainstPo` with its
order of tests, as a function of the document, the goods and what other invoices
reserve.

| Action | Code |
|---|---|
| `IssuePo`, `ConfirmPo`, `RequestCancellation` | `purchase-order.service.ts` |
| `ApproveCancellation`, `RejectCancellation` | `approval.service.ts`, the `poCancellation` branch |
| `RecordReceipt`, `CancelReceipt` | `receipt.service.ts`, with the rematch and the reevaluation they end in |
| `RegisterInvoice` | `invoice.service.ts`, with its match |
| `CreateRun`, `ApproveRun`, `ExecuteRun`, `Reconcile` | `payment-run.service.ts`; `Reconcile` includes `settlePaidInvoice` |
| `BeginVoid`, `CommitVoid` | `voidRun`, whose update checks less than its read: two actions |

A rematch is a loop over the waiting invoices in which each sees what the earlier
ones were given. `JudgedInOrder` states that as a condition on the outcomes
instead of a loop: every invoice of the batch has the outcome its match gives when
those that arrived before it count by their new outcome. There is exactly one such
assignment.

### Procurement

From the draft of a requisition to its order. `Submit` is a transaction, and so is `Decide`, with its three branches: the
approval of a submission concludes the requisition by counting all approvals that
carry its id, those of vendors and of a cancellation leave it alone. `CheckAward`, `RejectOthers`
and `CommitAward` are the statements of `award`, which holds an advisory lock that
offers do not take; `CheckIssue` and then `IssueOrder`, `OpenVendorGate` or `Abort` are those of
`issue`, which locks the requisition and not its quotes. Without the advisory lock an
offer that arrives between two statements makes two accepted quotes: the comment in
`sourcing.service.ts` is right to ask for it.

What `Procurement` shows is what others take for granted: `AgentWake` answers announced
approvals, one per requisition (`StatusFollowsApproval`), and `Payables` has one live order per requisition (`OneLiveOrder`).

Overdue approvals are escalated by a sweep on each replica (`BeginSweep`, then an `Escalate` per
selected approval, `AbortSweep`): its update repeats the condition of its selection, which is what makes
`EscalatedOnce` hold against decisions and against the other sweep. `Slow` limits which approvals
wait long enough.

### PlanningLocks

`Payables` takes a transaction for one step. Where transactions lock different
rows in different orders that has to be earned: `PlanningLocks` runs them
statement by statement, with row locks, reads of what is committed at that moment
and writes that appear at the commit, and checks that each commits only when the guard of
its action in `Payables` holds. Commits are actions of their own (`InsertLines`, `UncoverInvoices`,
`CancelInvoices`, `Rematch`, `InsertInvoice`, `DecideLine`). A cycle of waiting transactions is
ended as the database does, by aborting one of them; `InCycle` is that the transaction belongs to a set
of waiting transactions whose blockers are that set. It starts from an order without goods, or from one
whose goods are booked and cover its invoices. `CorrectionsAreAtomic` asks for the guard of the order's
cancellation and of that of its goods separately: an order is normally cancelled when its goods are
gone already.

### PaymentClaims

What payment runs promise about invoices, without orders, goods, people or money:
runs reserve free invoices, every reservation ends by payment or release, a paid
invoice is never reserved again. `Payables` implements it under the mapping at the
end of the module; TLC checks the refinement, and so does a theorem.

### Beneficiary, LedgerExport

`Beneficiary` is where money goes: the vendor's account, which counts only after a second
finance user has entered it again, the snapshot a run freezes when it is planned, and the bank file,
which is read without a lock in two steps while vendors are renamed, accounts replaced and the run
decided on. `LedgerExport` extends it with the journal of an executed run:
`BeginExport` and `CommitExport` (the manifest is built before the row is inserted), `PreparePush`,
`PostJournal`, `Accept` or `GiveUp`, `CompletePush` or `MarkPushFailed` (claim, request, answer and
record of a push, which no transaction joins), `Acknowledge` and `Resolve`. A posting stays on its
way after its push has given up, so that the provider may accept it at any later time. `Found` is
what the second user sees in QuickBooks; `quiet` notes whether a push was still at it then, which
the code does not check and `RecordMatchesLedger` excepts. Who may decide on a run is in `Payables`;
the runs of `Beneficiary` keep what a file and a journal depend on.

### MessageDispatch

Workers are the requests of the API, which release what they have staged, and the
dispatchers of the replicas. `Claim` is the claim's transaction, `Transport` the
provider (which may accept and still answer with an error), `Record` the second
transaction. `Crash` leaves the row as it is. Operators resolve failed and stale
deliveries with evidence: confirming *sent* needs `delivered > 0`, *not sent*
`delivered = 0`, at the moment they look. `docs/message-dispatch-recovery.md` has them stop the
old sender first, which the code cannot check: `unquiesced` collects the messages for
which they did not, and the properties that depend on the procedure leave these out.

### EventRelay, AgentWake

`EventRelay` is the outbox: claims with leases, heartbeats, attempts, dead letters and
requeues. Claim ids are the replicas that drew them: a replica handles one event at
a time and every claim overwrites the previous one, so a row's id equals that of a replica's
current claim exactly if that claim is still in the row. Time appears as two
actions: `Expire` for a claim whose holder is gone, `Pause` for a live holder whose
heartbeat stops. `recordFailure` is two actions, because it reads the
claim without a lock and updates the row without the claim.

`AgentWake` puts the handler of `requisition.approved` into the relay's phase
`handle`, one action per transaction, next to people who order, cancel and cancel
stale runs, and to retention, which deletes idempotency keys by their age (`PruneKeys`). There is no
clock, so that a key may be old as soon as it is stored; `pruned` counts the deletions. A dead letter
may be requeued at any time, also after its key is gone: an approval is therefore ordered once within
the retention of its key (`OneOrderPerStoredResult`) and not once for ever. Its events are
all of that type, one per requisition, as the approval service emits them.

### Intake

The mailbox poller (`Fetch`, `Store`, `Flag`), the ingest routes, the agent on delivered events and
on drains of the oldest documents (`Wake`, `Drain`, `TakeNext`, `Check`, `ReadAgain`, `Write`,
`Finish`, `Acknowledge`), and people who drop, requeue, classify and register. Handlers read without locks
and update by id, so that each read is a step and the write is another one. Parsers and the channel
policy are what comes out of them: contents the agent can or cannot read. `Fault` is a crash, a
refused quota or an unreachable mail server. Neither the lease of the drain nor the claim of the
relay is assumed to keep two workers off one document.

A poller is either a call of `pollMailbox` on its service or a timer (`Timer`), which calls it through
`poll`. There it loses its `this`, so that a timer's message ends in `IngestThrows` and never in `Store`: see
the findings. What the module says of storing and flagging is said of `pollMailbox` as it is written, and
holds of both; that documents are worked through does not depend on how they arrived.

### Commands

What every mutation passes: the advisory lock of its key, the stored outcome, the append to the
audit chain under the lock of the chain, the commit, the answer. `Fault` ends a transaction at any
statement or loses its answer, after which the client calls again. `Prune` deletes old keys, and an
operator's `Checkpoint` is compared with a trail that meanwhile grows, and that `Harm` may have
altered, rewritten or shortened by other means than the application (`Compare`, `Pin`, `Walk`). A hash
stands for what it is computed from: it is told by the `seq` of its entry and by whether the
application has computed it (`HashOf`) or somebody anew for a rewritten entry (`Rehash`). `Harm` alters an
entry and leaves its hash, or takes any entries that follow each other, removes some of them and links and
hashes the others anew, up to the newest one or not. `effects` is a history variable:
the entries that calls of a key have committed; `expired` counts how often its row has grown old.

## Runs

| Run | Instance | Shows |
|---|---|---|
| `PayablesOrders` | three orders of two requisitions on one budget, of which the second replaces a cancelled first; two invoices (half plus 5%, half) compete for the one unit received of it, the third order is billed exactly and paid | the tolerance never adds up, no invoice waits with goods there, none is eligible on a cancelled order, the commitment is what open orders have left |
| `PayablesRuns` | two runs over two invoices of one order, two people | one claim, one payment, claims backed by order and match, decisions final, a budget exceeded by no more than its live orders were paid beyond their totals, refinement of `PaymentClaims` |
| `Locks` | two overlapping plans, a registration, a receipt, both corrections, two reconciliations, over three invoices with goods for two | plans and corrections commit only under their guards, the order's cancellation after that of its goods included; goods are never used twice; a run closes with its last line; only a receipt can be part of a lock cycle |
| `Procurement` | one requisition, a qualified vendor and a prospective one, two buyers, two offers, two orders, an update of a vendor, two sweeps | the status follows the one approval that decides it, announced once; one live order, one award, ordered as awarded; open approvals escalated once |
| `Messages` | an automatic message that can never be claimed, one that can, a gated one, a dispatcher, a request, a crash, a recovery with the sender stopped or not | at most one delivery and records that agree with the provider, unless operators resolve under a working sender; even then every claim is authorized once and gated messages are reviewed; staged messages are handled (liveness) |
| `Relay` | two replicas, three events of which one has no handlers, a claim that expires under its holder, a crash, a requeue | every event is published or a dead letter (liveness); while live claims do not expire, one dispatcher per event, each settled once |
| `Wake` | one approval, two replicas, an expiring claim, a crash, an order by hand, cancelled orders and runs, a deleted key | an approval is ordered again only after its key was deleted, and every approval is answered (liveness); while live claims do not expire, a delivered approval is answered and its run says succeeded |
| `Intake` | a mail, a structured file the agent cannot read that carries the same invoice, a call of `pollMailbox`, a timer, an agent, a clerk with three requests, a fault, the drain on | a flagged mail is stored, a content has one document and one event, results agree with the status, readable documents are worked through (liveness) |
| `Disbursement` | a vendor whose account is entered four times by two users, one rename, a run of two invoices, any number of exports and pushes | files pay confirmed accounts, one manifest, one journal, a record that agrees with the ledger |
| `Commands` | a command, a call that reuses its key for another input, a command of its own, a fault, a key that grows old, a checkpoint, a trail that is altered, rewritten or cut once, pages of two entries | a key runs once, the chain never forks, a verification tells the truth, every call is answered (liveness) |
| `PayablesVoidRace`, `RelayLostLease` | as small as the case allows | the findings below |

Every property of these runs has a mutant in `PROJECT.json`: a definition changed as a
plausible bug would, under which the run must find the property violated.

### Bounds, and why they are enough

- *Two of each actor that races itself* (runs, planners, replicas, buyers, sweeps, finance users; a
  request and a dispatcher in `Messages`, which claim alike; a poller and a clerk in `Intake`, which
  ingest alike, and an agent and a clerk, which write alike): the races are over one row, and a third contender finds the row as the second did.
- *Amounts*: a unit costs 20, so that 21 is the largest invoice that one unit covers within the 5%
  tolerance, and 21 with 20 is within it for two units and beyond it for one.
- *`MaxCrashes`, `MaxPauses`, `MaxRequeues`, `MaxRecoveries`, `MaxManual`, `MaxQualifications`,
  `MaxSweeps`, `MaxEntries`, `MaxRenames`, `MaxRequests`, `MaxFaults`, `MaxExpiries`,
  `MaxPrunes`, `MaxHarms`* bound what
  the environment does. Each is at least one, so that every action meets the result of
  a crash or an expired claim. `ExclusiveWhileRenewed` and a part of `OneOrderPerStoredResult` are those
  of healthy heartbeats and say `pauses = 0 => ...`; the runs contain both kinds of behaviour.
- *Four entries of an account* let two users submit one, confirm it, and replace it by another, or
  by the same again; the proofs do without the bound.
- *Pages of two entries*: the three entries of `Commands` (the third when a key has been pruned) make a full
  page and a short one with a link across them and appends between them; the code's page only holds more.
  Three entries are also what a rewriting needs to have one before it and one behind it.
- *`FaultyCall`, `MaxExpiries` per key*: in `Commands` one of the two calls of a key fails and only that key
  grows old; the others meet it in every state of theirs, and the proofs are of any calls and keys. A call
  that lost its answer is itself repeated, which is the replay of a stored outcome.
- One mail in `Intake` suffices for its re-delivery, since a fetch that was not flagged is repeated;
  the other document is what blocks the queue. It fits a batch of two, as `DocumentIsHandled` requires.
- `MaxAttempts` is 2 in the relay: a first failure that is retried and a second that is the last
  (1 in `Intake`, whose dead letters are the drain's business, and in `Wake`, where an event is delivered
  again when it is requeued or its replica crashes or loses its claim).
  The code's 5, batches of 25 and polls of 50 differ from that in length only.
- `CHECK_DEADLOCK FALSE` where everything may be done: all orders cancelled, all events
  published, all calls answered. `PlanningLocks` ends in a stutter and checks deadlock.

### Fairness

Safety properties need none. `Messages`, `Relay`, `Wake`, `Intake` and `Commands` assume weak
fairness of the steps of a worker: timers of the pollers (`setInterval`) fire again and
again, what a worker awaits ends with an answer or a timeout, a crashed process is
started again, and in `Commands` clients repeat unanswered calls. They assume nothing of people,
nothing of retention, and nothing of a particular outcome: handlers may fail every time. `Expire`
is fair because time passes. In `Intake` fairness is that of the timers only: nobody need call
`pollMailbox` directly. `Messages` and `Intake` assume that fewer messages (documents) than a
batch always fail; as many as a batch holds would starve the others, since a poll always takes the
oldest.

Three of these workers run only if they are configured, and the properties speak of an installation in
which they are. The drain needs `AGENT_AUTORUN=1` (`agent.scheduler.ts:25`, `33-36`): `Drain` has it as a guard
(`Autorun`) and `DocumentIsHandled` as its condition, because a document that is requeued, or whose event
is a dead letter, is left to the drain. The handlers of both events need `AGENT_AUTORUN=1` or
`AIPMS_AGENT_WAKE=1` (`agent-wake.service.ts:52-61`); without them the relay publishes these events unheard. The
mailbox is polled only with `AIPMS_IMAP_HOST`, `_USER` and `_PASSWORD` (`intake-imap.service.ts:84-89`).

## Findings

Each is a run that is expected to be violated.

- `PayablesVoidRace`: the maker's void reads a draft run, a checker approves it, the void
  commits; `docs/financial-corrections.md` says an approved run's maker cannot void it.
- `RelayLostLease`: a replica that lost its lease between the two statements of
  `recordFailure` releases the claim of the new holder, and a third dispatch begins;
  the class comment promises one dispatcher at a time.

More consequences are noted without a run of their own:

- `poll` calls `(this.pollOnce ?? this.pollMailbox)(config)` (`intake-imap.service.ts:105`), which leaves
  `pollMailbox` without its `this`. `this.ingestMessage` (line 147) then throws for every message, the catch
  around it leaves the message unseen, and the timer never stores a mail, although the class comment and
  `docs/spec.md:360` say that it polls the mailbox and ingests what is unseen. The tests call `ingestMessage`
  itself. This one is a theorem, `TimerStoresNothing`: it needs no small instance.
- Retention deletes keys by their age alone (`retention.service.ts:128`, 30 days by default), and a dead letter
  can be requeued without a limit in time. A handler issues the order of an approval and its event becomes a
  dead letter, the order is cancelled, the key `event:<id>` deleted, and the requeued event is ordered a second
  time: `Wake` reaches such states. `docs/codebase-analysis.md:379` has the result stored "so retries return the
  memoized PO", `docs/spec.md:729` says of keys that "agent retries are safe"; within the retention they are, which
  is `OneOrderPerStoredResult`.
- An invoice within tolerance above the only order of a full budget takes committed + spent over the
  limit (`payment-run.service.ts:483`), although `docs/spec.md:723` says that the limit is enforced;
  what is overspent is taken from the commitment of sibling orders, so that cancelling an unpaid one may
  be refused as inconsistent (`approval.service.ts:373`). What holds regardless is
  `BudgetWithinTolerance`: the excess is at most what live orders were paid beyond their totals, and it does
  not build up while orders are cancelled and issued again. That `BudgetWithinLimit` and
  `CommitmentIsOpenOrders` hold where invoices bill no more than their order is a theorem each.
- A handler whose claim has expired may fail late and overwrite the succeeded run of a delivered
  event (`agent-wake.service.ts:279`).
- A document that is dropped between the last read of an agent, or of a registration by hand, and its
  write is overwritten: it ends as extracted, matched or excepted, and nobody is told that the drop is lost
  (`intake.service.ts:98`, `132`).
- The bank file of a run can be handed over while the run is voided (`payment-run.service.ts:299`). "Voided
  runs never pay" (line 293) is not contradicted, since a run that is voided is refused when its file
  is asked for; but a file that was built before is not recalled. It and the journal keep lines that
  the bank has dishonored or rejected.
- `issue` reads quotes without a lock, so that a quote requested or awarded meanwhile goes unnoticed
  and the order has the terms of the requisition's own lines (`purchase-order.service.ts:227`);
  approving a vendor gate makes a vendor active that has been blacklisted since
  (`approval.service.ts:245`); and a requisition whose awarded order was cancelled cannot be ordered
  again, because the quote stays referenced (`purchase-order.service.ts:375`).
- Lock cycles between `rematchOpenForPo` (arrival order) and `create` (id order) are
  possible; the database ends them by aborting one side, nothing is lost, and no text
  promises their absence for receipts. `CyclesNeedAReceipt` says that there are no others.

## Proofs

TLC checks a small instance, TLAPS every value of the constants. Every invariant and action property
of the passing runs is stated by a theorem; only liveness is left to TLC. The assumptions are those
that the modules declare beside their constants, and TLC evaluates them on every run:

| Module | Assumed of the constants |
|---|---|
| `ThreeWayMatch`, `Payables` | documents are well formed, with natural amounts; rows are finite in number; invoices arrive one after the other; runs are numbered; every order has a budget; `NoUser` and `NoRun` are none |
| `PlanningLocks` | as many invoices as one likes, with ids and arrivals of their own; a transaction is of one kind; a plan is not empty (`payment-run.service.ts:66`), a registration is of its own invoice |
| `Procurement`, `MessageDispatch`, `EventRelay`, `AgentWake`, `Intake`, `Beneficiary`, `LedgerExport`, `Commands` | identities are distinct from those of nobody and nothing; sizes of batches, pages and attempts are positive; bounds are natural numbers |

Three theorems have a hypothesis of their own. `CommitmentIsOpenOrdersAlways` and `BudgetWithinLimitAlways`
assume `BilledExactly`, that no invoices which the match would accept together bill more than was
ordered. The instance of `PayablesOrders` satisfies it, that of `PayablesRuns` does not, and there
`BudgetWithinLimit` fails, as the findings say. `TimerStoresNothing` is of an installation in which
mail arrives by timers only and nobody ingests a document by hand.

### Payables

- *Payments* (`SingleLiveClaimAlways`, `PaidOnceAlways`, `ClaimBackedAlways`, `CancelledOrderUnpaid`,
  `CheckerApproves`, `ClosesWithLastLine`, `DecisionsAreFinal`). None is inductive alone. That
  reconciling a line meets an unpaid invoice needs *a live claim is on a matched invoice*; that a
  correction never touches a claimed invoice's order needs *at most one live claim*
  and that minted run numbers are fresh (`NoLineBeforeRun`). `IInv` is their
  conjunction with `TypeOK`. Every step leaves invoices and claims alone
  (`QuietPreserves`), rejudges invoices that are neither paid nor claimed
  (`RejudgePreserves`), ends claims (`ReleasePreserves`), or is `CreateRun` or
  `Reconcile`, which have lemmas of their own. `RunInv` carries the properties of runs.
- *The match* (`ReservedWithinCoverAlways`, `WaitingMeansNoGoodsAlways`). `MatchInv` says of each order
  that what its matched and paid invoices bill fits its goods and its total within one tolerance
  (`Covered`), and that an invoice waits only while nothing of value is booked (`NoneWaits`). That tolerances
  do not add up is `ToleranceDoesNotAccumulate`; a batch is judged in the order of arrival, so that the last
  invoice it accepts bounds the sum of all. Every transaction that changes the goods judges the whole
  batch that waits, and the match lets an invoice wait only without goods.
- *The budget* (`BudgetWithinToleranceAlways`, `CommitmentIsOpenOrdersAlways`,
  `BudgetWithinLimitAlways`). `BudgetInv` accounts for every budget: what it has spent is what was paid on its
  live orders, their cost is within its limit, and commitment and spending together lie between
  that cost and the cost with what was paid beyond it. That a paid order is never cancelled
  (`PaymentInv`) keeps the first true; the second is what a floor at zero can do at most. Under `BilledExactly`
  nothing is overpaid, and the two bounds meet.
- *Refinement* (`PayablesImplementClaims`): each transaction is a reservation, a release, a payment or a
  stutter of `PaymentClaims` (`InvisibleStep`).

Sums over sets are folds of the library, whose own induction theorems need an operator as a parameter.
The lemmas at the head of `PayablesProofs` do without: the fold is a function on the subsets of a
finite set, unique because a smallest set on which two such functions differ cannot exist
(`LeastNumber`, over cardinalities). From that follow what a sum is with one element more, and what
each document adds.

### PlanningLocks

`PlansAreAtomicAlways`, `CorrectionsAreAtomicAlways`, `EligibleIsCoveredAlways`,
`ClosedWithLastLineAlways`. The invariant has two parts for each transaction: the locks it has at each
statement (`Locked`), and that what its earlier statements have read still holds (`Seen`). The second
follows from the first, since every commit that could falsify it needs a lock that is taken. The interesting
case is the order's row, which a plan reads without a lock: its matched and locked invoices keep a
cancellation out, whose guard waits for them. `RowsInv` says that an eligible invoice is covered and
that a planned line is on a matched one.

`CyclesNeedAReceiptAlways` has an invariant of its own (`OrderInv`): all but receipts take
the row of the order or the run first, and invoices by id. Along a cycle without a receipt the rows
waited for would come later and later (`Place`), for ever.

### Procurement

`OneLiveOrderAlways`, `OneAwardAlways`, `OrderedAsAwardedAlways`, `StatusFollowsApprovalAlways` and
the action property `EscalatedOnceAlways`. `AwardInv` says that who holds the advisory lock sees nothing
accepted until it accepts, `IssueInv` that what `issue` has read under the requisition's lock holds when
it inserts, `LiveInv` that a pending cancellation is that of the one live order, and `OrderInv` that the
award outlives the order that was placed on it.

### MessageDispatch

`AtMostOneDeliveryAlways`, `RecordMatchesProviderAlways` and `OneClaimPerAuthorizationAlways`. The last
counts claims against recoveries and the attempt that is under way (`ClaimInv`). For the first two a message
that is at the provider is in the hands of one worker, whose knowledge agrees with the provider's
(`SenderInv`), unless its sender was not stopped before a recovery (`unquiesced`).

### EventRelay, AgentWake

`WakeRefinesRelay`: the handler, with its requests and the people beside it, leaves the outbox's
protocol as it is, so that what is proved of the relay (`ExclusiveWhileRenewedAlways`, from `HoldInv`: while no
live claim expires, who is at an event holds its claim) holds of the handler too. `OneOrderPerStoredResultAlways` adds
what a second delivery relies on: an event's idempotency key is stored with its order or its decision, and
the orders of an event are no more than the deletions of its key, and one more while the key is there
(`KeyInv`), an order is a handler's or a person's (`OrderInv`), a run succeeds
only after its event was answered (`RunInv`), and while claims are renewed a published event has
a succeeded run (`TraceInv`).

### Intake

`SeenIsStoredAlways`, `ReceivedOnceAlways`, `ResultMatchesStatusAlways`, `TimerStoresNothing`. Workers write what they read
earlier, so the invariant keeps what cannot go stale: a document that exists stays, the message in a worker's hands is
that of its document, and its flag comes after the row (`WorkerInv`). Each of the actions makes one of
three transitions of the documents (`DocStep`).

### Beneficiary, LedgerExport

`FilesPayConfirmedAlways` (of the vendor master and the runs), `LedgerPaysConfirmed` (of the
whole, because no step of an export touches them), `OneJournalPerRunAlways`,
`RecordMatchesLedgerAlways`, `FrozenManifestAlways`.

For the files the invariant has to say why a plan may trust the master data: the columns of a vendor
agree with the history of its entries, so that a verified account is the one two users confirmed
(`PayeeInv`), and what a run has frozen is what it owes (`FileInv`). For the journal it has to say
that the claim of a run is drawn once, that a push which has not posted yet finds nothing at the
provider, and that what is on its way has not arrived (`ClaimInv`). `RecordInv` adds that an export
rejected by a quiet resolution has no push left.

### Commands

`KeyRunsOnceAlways`: the property compares answers with each other; what is inductive compares each with the row
of its key (`AnswerInv`), and counts an effect for the row that is there and one for each that has
expired (`CountInv`). No lock is needed for it: the unique key decides at the commit.

`ChainIsLinearAlways` needs the lock: a call at its append has read the last entry and holds the chain
(`LockInv`), so that what it inserts succeeds it (`LinearInv`). `VerdictIsTrueAlways` adds that harm up to the
checkpoint leaves a scar which no append heals (`ScarInv`): no entry has the hash that was retained, or one before it
is altered or links to a hash that is not there. A rewriting that ends before the checkpoint breaks the link of the
entry behind it, and one that reaches it changes its hash. A walk over an untouched trail has had nothing to complain of
(`SoundInv`); one that knows of harm stands on an entry, has passed nothing altered and no missing
link, and has the checkpoint before it (`SeenInv`), so that it cannot end well. Pages are read by `seq`, so that
appends between two of them change nothing below the top it pinned.

### Only model-checked

Liveness (`StagedIsHandled`, `EventuallySettled`, `EventuallyAnswered`, `DocumentIsHandled`,
`CallIsAnswered`): fairness and `ENABLED` are out of the prover's reach. That the two findings are
violations is a matter of a behaviour, which TLC shows.

## Not modelled, and why

Wording, rendering, signatures and reports are data. Audit and event records that
commit with a transaction change nothing a property here speaks of, except in `Commands` and the
relay. SQLite, the provider of the local demo, serialises writers, so that its behaviours are among
those of PostgreSQL. Money is exact integers in the code as here; the 32-bit range check
of amounts refuses the transaction and has no further effect. Currencies and vendors
are compared by the match and nothing else. In `Procurement`: who may decide, and which of its
outcomes a policy gives a submission (any). In `AgentWake`: how the vendor is chosen (a choice that
differs from that of a stored result is refused, one of the failures of `FailRun`).
In `LedgerExport`: the OAuth connection to QuickBooks, whose token refresh and settings are written
back after an unlocked read (`qbo.service.ts:200`, `248`), and the ingest of reference data but for
the names of vendors. In `Intake`: parsers, the channel policy, and the quotas and leases of the agent
except as failures. In `Commands`: `IdempotencyService.run`, which no code of the API calls, the cold
archive and the purge of rate limits.

Measured in lines the model covers a small part of the repository. Most of the rest has no behaviour
that a state machine could get wrong: the web client and its component library (`apps/web`,
`packages/ui`), generated server code (`generated/server.ts`), routers that check input and call a
service, schemas of input and output, queries and reports (`analytics`, `bir`, `catalog`), templates,
cryptography, configuration and scripts. A definition is mapped to the lines it translates and not
widened beyond them.

## Plan

1. Proofs: that the commits of `PlanningLocks` are steps of `Payables` as a refinement, with the
   locks hidden, where the two now share guards; that `Procurement` implements what `AgentWake` and
   `Payables` take from it (one announced approval, one live order per requisition).
2. `Procurement`: roles and maker/checker of decisions, policy versions and the gate as operators.
3. The OAuth connection of QuickBooks (two refreshes of a rotating token), and agent quotas with their
   slots and the lease of background jobs, as modules of their own.
