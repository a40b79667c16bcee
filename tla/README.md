# CRMWolf: specifications of the server's durable work and approvals

CRMWolf is a CRM for sales teams: a FastAPI server (`src/CRM-Server/app`, SQLAlchemy on MySQL 8,
InnoDB, REPEATABLE READ, sessions with `autoflush` off) and a Vue client (`src/CRM-Client`).
Paths below are relative to `src/CRM-Server/app` unless they begin with `src/`.

This directory holds TLA+ modules of those parts of the server that have state worth arguing about,
TLC configurations that check small instances of them, and TLAPS proofs for every instance.
`PROJECT.json` is the machine-readable index: for each definition the source lines it stands for, for
each run its properties, for each property a plausible bug that breaks it, the hazards and the theorems.

    tlc -workers 2 -config Approval_safety.cfg MCContractApproval     # a run: any .cfg with its MC module
    tlapm ContractApprovalProofs.tla                                  # a proof module

Contents: [1 The system](#1-the-system) · [2 Modules](#2-modules-and-how-they-correspond-to-the-code) ·
[3 Runs and bounds](#3-runs-and-bounds) · [4 Fairness](#4-fairness) · [5 Proofs](#5-proofs) ·
[6 What the code does not keep](#6-what-the-code-does-not-keep) ·
[7 What is not modelled](#7-what-is-not-modelled) · [8 Plan](#8-plan)

## 1 The system

A request is handled in one or a few database transactions. Whatever takes long (a model call, a
message to Feishu) is not done in the request: the request inserts a *job* row in the transaction
that makes the job necessary, commits, and *kicks* an asyncio task. A kick may get lost with the
process; a recovery loop of each queue, started in `main.py`, scans the table and runs what it finds.
Several server processes may run the same job at the same time, so every queue guards its rows with a
lease: a random token, an expiry time and an attempt counter.

Three facts make this code hard to test and shape the models:

1. **A snapshot is older than the lock.** Under REPEATABLE READ a plain `SELECT` shows what was
   committed before the transaction's *first read*; `SELECT ... FOR UPDATE` shows the current row.
   Code that checks a value, then waits for a lock, then writes, has checked an old value.
2. **A result is older than the lease.** A model or Feishu answers after seconds or minutes. By then
   the lease may have lapsed, another worker may have finished the job, the user may have edited or
   deleted what it was about.
3. **A process may die between any two commits**, and any best-effort call may simply not happen.

### 1.1 Components

| Component | State | Operations | Works with | Hard parts | Must hold |
|---|---|---|---|---|---|
| **Outbound notification outbox** (`crud/outbound_notification_job.py`, `services/outbound_notification_job_service.py`, `tasks/outbound_notification_recovery.py`) | job rows by idempotency key: status, attempts, lease, `next_attempt_at` | enqueue (pending, reminder, outcome), requeue, claim, deliver to each recipient, record, give up, recover | approvals and business writes enqueue; Feishu receives | sending precedes recording; requeue reads without a lock; the document moves on while cards are sent | leases exclude; attempts bound copies; completed means handed over; exhaustion is justified; every job ends |
| **Customer initial enrichment** (`crud/customer_enrichment_job.py`, `services/customer_enrichment_*`, `tasks/customer_enrichment_*`) | one job per customer, the customer's field and version, the receipt of the profile refresh | register (three ways), claim, infer, compare-and-set, record, refresh, requeue, backfill, reconcile, recover | customer records; users who edit them; customer intelligence | user edits during inference; lost registration; a callback after the commit | the user's value survives; written once; success is refreshed |
| **Customer activity and its AI job** (`services/customer_activity_write_service.py`, `services/customer_activity_ai_job_service.py`, `crud/customer_activity*.py`) | activity row (status, revision), AI job, post-commit jobs | create (form, agent, Assistant 2.0), resubmit, claim, compute, finalize, fail, exhaust, delete, recover | the post-commit workflow takes over at finalization | stale snapshots under the job lock; deletion at any moment | content, job and follow-up work are one commit; nothing after deletion; the activity settles |
| **Post-commit workflow** (`services/customer_activity_post_commit_*.py`) | job row, graph thread in the checkpointer, follow-up tasks, confirmation cases | project the next step, match older tasks with a model, execute, open cases, deliver; user: close, reply, delete | sales commitments, confirmations, checkpointer | a retry resumes a thread that carries the failure; the fence between lock and snapshot | no effect after deletion; completed means reconciled; settled is final |
| **Approval of contracts** (`crud/approval.py`, `services/approval_transaction_manager.py`, `api/approvals.py`, `crud/contract.py`, `api/contracts.py`) | contract (status, phase, content), approvals, records | submit (two endpoints), approve, reject, cancel, edit, delete | outbox (notifications), deal journey | checks before the lock; two endpoints with different guards | one review at a time; signed by all nodes; decided is final |
| **Payment plans and records** (`crud/payment.py`, `api/payments.py`, `services/command_execution_service.py`) | plans, payments, the contract's paid amount and status, receipts of idempotency keys | plan, replan, delete; register, correct, remove, submit, decide | contracts, approvals | sums compared under a lock or in a snapshot; derived columns; failures after the commit | payments fit their plan; nothing is called paid that was not approved; receipts are true |
| **Invoices** (`crud/invoice.py`, `api/invoices.py`) | application, its reissue applications, red offsets, approvals | edit, submit, decide, issue, reissue, complete, offset, delete | payments, approvals | files are uploaded between the check and the write; some rows are locked, others not | issued as approved, once; offsets match reissues |
| **Leads, customers, pool** (`crud/lead.py`, `crud/customer.py`, `api/leads.py`, `api/customers.py`) | owner and status of lead and customer, the customer's version | claim, assign, return, edit, convert, lose, delete | activities, contracts | pages and snapshots that are old; leads are never locked | versions protect what was shown; one customer per lead |
| **Confirmations of tasks** (`crud/sales_commitment.py`, `services/follow_up_task_confirmation_*`, `services/follow_up_confirmation_delivery_*`) | task, cases, deliveries with leases | raise, move, withdraw, cancel; deliver, recover; answer, postpone, close | post-commit workflow, activities, assistant | an edit races the question; answers by two channels; deliveries repeated | questions are about the present text; a case is answered once; closed stays closed |
| **Assistant 2.0** (`services/assistant/*`, `api/assistant.py`, `tasks/assistant_turn_recovery.py`) | the task (version, card, active turn), turns with owner, lease and version, command claims | submit, claim, keep the lease, draft, confirm, revise, refuse, offer and settle proposals, retry, reset, recover, adjudicate | writes activities and CRM documents | a turn taken over while it runs; a confirmation whose effect is not known | one open turn; the latest input wins; what is called done was done |
| Approval of other documents, reminders | approvals of opportunities and licences; reminder stamps | the same engine through adapters; `create_with_approval` with an idempotent command; overdue reminders | finance, sales, assistant | the command and the document are one transaction; reminder cadence | one document per command; as above |
| Opportunity suggestion jobs (`services/customer_opportunity_suggestion_job_service.py`) | one leased job per activity revision, the suggestion | enqueue, claim, evaluate, write, recover | activities | as every leased queue | one suggestion per revision |
| Opportunities, deal journeys (`crud/opportunity.py`, `services/deal_journey_service.py`) | stage, journey | move stage, win, lose, delete | contracts, payments | stage and journey apart | journey follows stage |
| Legacy agent (`services/agent/*`, `tasks/agent_turn_execution_recovery.py`) | turn executions, asynchronous operations and their events, UI actions, idempotency keys, checkpoints in two schemas | accept, run, wait, resume, reconcile; cut over checkpoints | activities, documents | an effect committed and its record lost; cutover while turns run | no effect twice; partial commits are found |
| Customer intelligence (`services/customer_intelligence_*`) | runs (pending, running, retry, ...), events | schedule, run, supersede, retry | activities, enrichment | later events overtake a run | the newest run wins |
| Reminder rules (`services/reminder_rule_execution.py`) | rules, runs | evaluate due rules, deliver, record | Feishu, all documents | delivery before its record; overlapping scans | once per due time |
| Evidence synchronisation; users, roles and teams; lists, exports, charts; integrations, licences and deployments; model prompts; Feishu and model providers; web client | little or none of their own, or external | – | – | – | – |

The components in bold are modelled, most of them in part; section 7 says what of them is left out, section 8 what comes next.

### 1.2 How the modelled components interact

    form / agent / assistant ──► CustomerActivity ──(same commit)──► post-commit job
                                       │                                   │
                                  AI job's run()                   ActivityPostCommit ──► tasks, cases
                                                                           ▲
                                     user closes, replies, deletes ────────┘
    customer created ──► CustomerEnrichment ──(callback)──► profile refresh
    ContractApproval ──(enqueue)──► OutboundNotification ──► Feishu
    AssistantTurn ──(activity, proposals)──► CustomerActivity and the CRM's own transactions
    ActivityPostCommit ──(a decision that asks)──► TaskConfirmation ──► the task's owner
    CustomerOwnership ──► contracts ──► PaymentLedger ──► InvoiceIssuing

`CustomerActivity` and `ActivityPostCommit` meet in the post-commit row: the first registers it (and
closes it at a deletion), the second runs it. Both carry the row, with the operations the other side
may apply to it. `ContractApproval` and `OutboundNotification` meet in the document: what the second
calls `subject` ("open", "moved", "deleted") is what the first does to an approval's current node.
`ActivityPostCommit` and `TaskConfirmation` meet in the case: the first has one case and the graph that opens
it, the second any number, with the activities that raise them as actions (`RaiseCase`, `WithdrawCase`, `EditActivity`,
`DeleteActivity`, `ScheduleFenced`) and the delivery in full. `AssistantTurn` sees what it writes elsewhere as
effects with receipts (`crm`). `CustomerOwnership` has of a contract only its owner and whether it is under review, and of
the idempotency receipts nothing: those are `PaymentLedger`'s, one service for all endpoints. A payment's deletion takes
its invoice application along, which is `InvoiceIssuing`'s `dropSource`.

## 2 Modules, and how they correspond to the code

| Module | Lines of the system | Kind |
|---|---|---|
| `LeasedJob` | the row and its conditional updates, shared by all queues | operators |
| `DurableJob` | what a durable job table promises | abstract specification |
| `OutboundNotification` | the outbox; implements `DurableJob` | state machine |
| `CustomerEnrichment` | the enrichment pipeline; implements `DurableJob` | state machine |
| `ActivityPromise` | what an activity's pipeline promises | abstract specification |
| `CustomerActivity` | activity writes and AI job; implements `ActivityPromise` | state machine |
| `ActivityPostCommit` | the post-commit job, its graph, and the user beside it | state machine |
| `ContractApproval` | contract and approvals under concurrent requests | state machine |
| `PaymentBooks` | a contract's plans, payments and receipts, what is derived from them and what they must say of each other | rows, sums and properties |
| `PaymentLedger` | the requests that write these books | state machine |
| `InvoiceIssuing` | an invoice, its reissues and red offsets | state machine |
| `CustomerOwnership` | a lead, its customers, their owners, statuses and versions | state machine |
| `TaskConfirmation` | confirmation cases of a task, their deliveries and answers | state machine |
| `AssistantTurn` | one task of Assistant 2.0 and the turns that work on it | state machine |
| `...Proofs` | theorems about the module of that name; `CustomerActivityProofs` also about `ActivityPostCommit` | proofs |
| `BillingProofs` | theorems about `InvoiceIssuing` and `PaymentLedger`, and about sums | proofs |
| `MC...` | instances for TLC: model values, symmetry sets | model checking |

Conventions:

- **One action per transaction or per stretch between two awaits.** A CRUD update is a
  `SELECT ... FOR UPDATE` and a commit, hence one step. `run()` of a queue is a sequence of such steps;
  between any two of them other workers, users, clocks and crashes take theirs. `run[w]` holds what
  the Python function holds in local variables.
- **Snapshots are explicit** where code decides on them: `CustomerActivity!run[w].seen`,
  `ActivityPostCommit!run[w].sees` and `user.sees`, `ContractApproval!request[r].approvals`, `request[r].seen` of
  `PaymentLedger`, `InvoiceIssuing` and `CustomerOwnership`, `TaskConfirmation!run[w].seen` and `request[r].open`. An action reads
  these where the code reads without a lock, and the variables themselves where it reads under one.
- **A column that does not change is not written**: SQLAlchemy compares with what was loaded. Where a row is
  written on an old snapshot the models compare too (`WriteContract`, `Flushed`, `Written`).
- **`Acts`** of the modules about requests says what users do, and **`Alone`** of `PaymentLedger` and `ContractApproval` which acts do not
  overlap with any other. An act that compares only before it locks keeps nothing when it overlaps; with it in `Alone` the
  runs and theorems show what holds of all the others, and section 6 what it breaks otherwise. In `InvoiceIssuing` and
  `CustomerOwnership` everything overlaps.
- **Clocks are comparisons.** `live` is "`lease_expires_at` is in the future", `due` is
  "`next_attempt_at` has passed". Each flips on its own at any moment (`LeaseExpires`, `Due`, `RetryDue`), so a
  lease may lapse between any two steps of its holder.
- **A worker is its token.** Every `run()` draws a fresh random token; a worker runs one job at a time and
  never holds two tokens, so the worker's name stands for the token.
- **Statuses are the code's**; `RETRY_PENDING` of two tables is `LeasedJob`'s `"FAILED"`.
- Definitions whose comment begins with "Mutant:" are the plausible bugs used to see that each property can fail.
  They take no part in the specifications.

### LeasedJob

`Claimable`, `Claimed`, `SpentAndFree`, `OwnsLease`, `Closed`, `RetryLater` and `Recoverable` are the WHERE clauses and SET
lists of `claim_for_execution`, `finalize_retries_exhausted`, `_owns_running_lease`,
`mark_*_if_lease_owner` and `list_system_recovery_candidates`. The four job tables were compared line by
line; where one differs, its module says so (`ClaimableDue` and `RecoveryCandidate` of the enrichment,
`RecoveryCandidate` of the AI job). Note `OwnsLease`: the *token* decides, the expiry is not looked at, so a
late result is accepted as long as nobody else has claimed the row.

### OutboundNotification

`Enqueue*`, `RequeuePending`/`ResetForRetry` (the unlocked read and the later reset of `requeue_pending`),
`Begin` (the first read of `run()`, by a kick or by the recovery scan), `Claim`, `FinalizeExhausted`, `CheckSubject` (`_deliver`'s look
at the document, by `SkipReason`), `SendTo` per recipient, `SendDone`, `DeliverRaises`, `RecordOutcome`, `RecordFailure`. What a notification
is about is a node of an approval (`Nodes`), a decision (`Outcomes`) or a business event (`Events`): the first two are *documents*, which
the delivery looks at before it sends; a business event carries its text in the row and is branched off before
that look. The code's two other reasons to skip, no recipients and an unknown event, have no producer. Recipients come from a small
set; a card's text is not modelled. `sent` counts what Feishu accepted; `handled` is who was tried since the row was last queued,
also those whose send raised and was caught by `send_to_users`.

### CustomerEnrichment

A customer is created with its job in one transaction, or the job follows in a second, or its registration
is lost. `Execute`, `LoadContext`, `Infer`, `Apply` (`CustomerEnrichmentWriteService.apply` with its compare-and-set and the job's outcome in one
commit), `ClassifyConflict`, `RecordSkip`, `RecordFailure`, `RegisterRefresh` are the run; `Backfill`, `RepairReceipt`, `Recover` the loops;
`EditCustomer` and `DeleteCustomer` the users. `writes` is a history variable.

### CustomerActivity

`CreatePendingFromForm`, `CreateFinalFromAgent`, `CreateFinalFromAssistant2`, `Resubmit`, `Delete` are the write service; `Peek`, `Claim`, `Compute`,
`FinalizeRead`/`FinalizeWrite`, `RecordSkip`, `FailureRead`/`RecordFailure`, `Terminalize` the run. The reads that fix a snapshot are
steps of their own because what happens between them and the lock decides the outcome.
`processing_status` and `effectiveness_status` move together and are one `state`.

### ActivityPostCommit

The graph's nodes are actions (`Load`, `Project`, `Match`, `Execute`, `CreateCases`, `Deliver`), each a transaction with its own
snapshot; `Enter` saves the state under the job's thread and enters the next node. When a thread is invoked
again the engine, which is external, may resume it or start over, in either case keeping the saved value of
every field the input does not set: `Start` allows both. One older task, one case and one user request at
a time stand for the customer's.

### ContractApproval

`Begin` is a request's first read, which fixes its snapshot and passes or fails the endpoint's own checks
(`Admissible`); the other actions are what it does when it has the lock: `Submit` (`submit_for_approval`, the generic
endpoint), `SubmitContract` (`submit_contract_approval`, the older one, also called when a contract is created), `Approve`, `Reject`,
`Cancel`, `Edit`, `Delete`. Two constants describe the environment:

- `Alone`: nobody else asks while the contract's own submission endpoint works. That endpoint compares
  before it locks and never again; with `Alone = FALSE` it starts two reviews (section 6).
- `Dated`: decisions carry `updated_time`, and no two changes of an approval fall in the same second. The
  parameter is optional and the column has seconds.

### PaymentLedger

One contract, its plans and their payments: `PaymentBooks` has the rows, the derived sums and the properties, `PaymentLedger` the
requests. `Begin` is a request's first read: the endpoint's checks
(`Admissible`) and the snapshot. `Register` locks the plan and its payments and compares with what is there (`Room`), derives the
plan's status and the contract's paid amount from the *snapshot* plus its own change (`Derive`, `WriteContract`) and leaves the receipt
of its key in the same transaction; what follows the commit may raise, and `PersistFailure` then writes
a receipt of its own unless there is one. `CreatePlan`, `UpdatePlan`, `DeletePlan` hold the contract's lock but add up the plans as seen;
`Correct` and `Remove` take phases as seen; `Submit` and `Decide` lock the payment.

### InvoiceIssuing

Document 0 is the application, the others its reissue applications. The content of a document is the number of its
edits, an approval remembers the content it was asked for. `Update`, `Submit`, `Decide`, `Issue` lock the row and read it again;
`Revise`, `CreateReissue`, `Complete`, `Offset`, `Delete` act on what was seen before the files were uploaded. `offsets` is the
sequence of red offsets, each of a reissue or made by hand. Any two requests overlap.

### CustomerOwnership

A lead is entered by a user, who owns it. `Look` shows a user a page with the customer's version; `BeginCustomer` sends a request from it,
with or without the version as the endpoint demands (`VersionedAct`, and `lifecycle` always). The customer is then locked (`Locked`) and the
version compared (`VersionIsRight`), unless the request is a *legacy* transfer (`legacyAssign`: no operation id and no idempotency key), whose
endpoint works the version out and does not pass it on (`Compared`). Leads are read and written without locks
(`WriteLead`, `DeleteLead`, `Convert`); conversions overlap. `ContractStep` is the rest of the program, as far as a transfer or deletion of a customer meets it.

### TaskConfirmation

A case belongs to the task and to the activity revision that asks; `RaiseCase` creates it or moves the pending one to the activity
that asks now. `EditActivity` raises the revision and cancels the activity's own pending cases; `DeleteActivity` leaves them, as the code
does; `ScheduleFenced` is the delivery node of a workflow whose revision is no longer the activity's. `Begin`, `Reply`,
`ReplyUnresolved`, `Transition` are users: a reply locks the case and reads it again (`StillPending`), the task is as it was first seen.
`Schedule`/`Recover`, `Ensure`, `Claim`, `Decline`, `Acknowledge`, `AcknowledgeLate`, `Fail` are a run of the delivery workflow; every stage
asks the revision guard (`Current`, `Guarded`). `Init` admits activities that were edited or deleted, cases that were withdrawn, and runs and requests
that take no part, so that an instance can concentrate on one side.

### AssistantTurn

`Submit` accepts an input as a turn for the card on the table; `Claim` takes it under a lease. Two tokens are modelled as whether a worker
still has them: `owns` (the turn's lease version, `Holds`) and `current` (the task's version, `Fresh`). The settling actions
(`Structured`, `Revised`, `ActivityWritten`, `ActivityRefused`, `Offered`, `Conclude`...) are single transactions that end the turn together with what it does to the
task. A proposal in `Claimed` takes three: `ClaimCommand`, `ExecuteCommand` (the CRM's own transaction, which asks for no lease) and `CommandDone`; whoever finds an
earlier claim reads the receipt (`Reconciled`) or marks it unknown (`MarkUnknown`). `Die`, `Lapse` and `Lost` are the faults, `CloseOverdue`, `AskRetry`/`Retry` and
`Adjudicate` the repairs.

## 3 Runs and bounds

| Run | Distinct states | Asks |
|---|---|---|
| `outbound_resend` | 263 423 | one pending notification, its reminder, two overlapping runs, one requeue that may hit a row in any state: copies per recipient (`CopiesBounded`), no completion in the name of runs that sent before the requeue (`CompletedWasHandedOver`), and the refinement of `DurableJob` |
| `outbound_delivery` | 318 607 | the notification of a decision, whose document may change or go, and that of a business event, with a crash: every job settles |
| `enrichment_pipeline` | 169 598 | three attempts, two workers, two edits, a crash: the user's value survives, one write, the refinement of `DurableJob`, and three repairs (refresh, registration, lost attempts) |
| `activity_pipeline` | 8 756 | three attempts, two workers, two crashes, a deletion at any moment: activity, AI job and follow-up work agree; refinement of `ActivityPromise`; a form activity settles |
| `postcommit_safety` | 5 247 833 | two workers on one job, one crash, while a user closes the task, answers the case and deletes the activity |
| `approval_safety` | 553 262 | two concurrent requests of every kind, three submissions, an edit, a flow of two nodes: one review, signed by all nodes, each by its own role, what is decided stays decided, no deletion under review |
| `payments_ledger` | 1 003 176 | two requests, two plans, two keys, an amount of 2, one plan overdue: payments fit their plan, nothing is overstated, receipts are true |
| `invoices_issuing` | 641 889 | two requests of every kind, any two overlapping, on an application and one reissue, with an edit and two submissions each: issued as reviewed, once, and a red offset exactly while the reissue is completed |
| `ownership_customers` | 956 791 | four requests, any two overlapping, by two users on a lead and its customers, with their contracts under review or not: versions that are compared protect what was shown, closed customers stay closed, reviewed contracts keep their owner |
| `confirmation_cases` | 1 006 344 | two users and two activities about one task, or two delivery runs and one activity, with lapsing leases and failures |
| `assistant_drafting` | 31 373 | three inputs, two workers and a request for a retry, one fault: one open turn, the latest input wins, every turn is settled |
| `assistant_proposals` | 176 894 | eight turns, a proposal of each sort, two faults, an operator: what is settled is so, and was answered on its card |

The bounds and why they are enough:

- **Two workers** (or requests): every property here is about one holder and one intruder. A third worker
  can only repeat what the second does, since a row has one lease and each run has its own local state.
- **`MaxAttempts`** 2 or 3: one attempt that is not the last, and the last. Three where a property speaks
  about an attempt in the middle (`LostAttemptIsRetaken`).
- **`MaxResets` 1, `MaxEdits` 1–2, `MaxCrashes` 1–2**: each reset, edit or crash returns the system to a state with no
  memory of it except in a counter the properties mention. Two edits let a value be entered and cleared again
  between the read and the compare-and-set.
- **`MaxRevision` 3** for activities: a finalization raises the revision by at most one.
- **One customer, activity, contract** in the first six modules: no action reads two of them. The outbox has two keys of one
  document, because requeue and reminder address different rows of the same document.
- **`Total = 2`** of a contract: a payment may fill its plan or half of it, two may overfill it, and one plan may leave room for another.
- **`Reissues` 1, `MaxEdits` 1, `MaxRounds` 2** of an invoice: an edit between a rejection and the next submission, or between a
  submission and its decision; a second reissue starts only when the first is over and meets the same rows.
- **`Users`** of the outbox: one recipient in both runs. Recipients do not meet in the code, and the theorems are about any number.
- **`MaxRequests` 4** for ownership: a claim needs a conversion and a return before it; one request is then left to interfere. One name
  for customers: two customers of one lead (section 6) do not meet in any row the three properties are about.
- **`MaxRevision` 2, `MaxCases` 2, `MaxAttempts` 2** of confirmations: a revision before and after an edit, a case and its successor.
  `MCInit` has two scenarios: two users and two activities without delivery runs, and two delivery runs beside one user and one
  activity whose case is the last there is. They share the case, whose every change by one side is an action the other scenario has
  too (an answer withdraws a case, so does an edit).
- **`MaxTurns` 3 and 8, `MaxCards` 2 and 3, `MaxFaults` 1 and 2** of the assistant: a draft, its confirmation and the turn after it; with proposals,
  eight turns cover draft, confirmation, the offers and their answers, and answers that are lost or refused. `VIEW Unsettled` forgets how
  settled turns ended and what they were about, which is sound because nobody asks for retries in that run.
- **`N = 2` nodes**: the first and the last node behave differently; a middle node behaves as the first.
  **`MaxApprovals` 3**: a cancelled or rejected approval, a resubmission, and one more.

Counters are bounded in guards, never by a state constraint. `CHECK_DEADLOCK FALSE` is set throughout because
the systems may come to rest: a job that is settled, with its bounds of crashes and requests used up.
Symmetry over workers or requests is used only in runs without liveness properties.

## 4 Fairness

The liveness properties are checked under `FairSpec`, which assumes:

- weak fairness of a *started* run (`RunProgress`): database calls return, model and Feishu calls have time-outs.
  A crash may still end a run at any step, up to `MaxCrashes` times;
- weak fairness of the recovery scan (and of backfill and reconciliation): each is an endless loop with a
  sleep, started in `main.py`, whose body catches exceptions. For two workers it is fairness of "some worker
  recovers this row";
- weak fairness of the clocks: a lease expires, a retry becomes due.

`AssistantTurn` has a `LiveSpec` of its own, with the same three assumptions: what a worker does goes on (`Advance`), for each worker and for
an operator; the lease of a worker that died lapses (`Lapse`); some worker claims what the recovery scan finds (`Claim`). Deaths
are bounded by `MaxFaults`.

Nothing is assumed of kicks, of users, of a model answering rather than failing, of Feishu accepting a message or of
callbacks after a commit.

## 5 Proofs

TLAPS checks the following for **every** value of the constants (any number of workers, keys, customers,
activities, turns, requests, attempts and faults), assuming only the named `ASSUME`s of the modules
(`LeasedJobAssumption`, `OutboundAssumption`, `KeyAssumption`, `EnrichmentAssumption`, `ActivityAssumption`,
`PostCommitAssumption`, `ApprovalAssumption`, `BooksAssumption`, `LedgerAssumption`, `InvoiceAssumption`, `OwnershipAssumption`,
`ConfirmationAssumption`, `TurnAssumption`), which TLC evaluates in every run, and, where a table says so, that certain
requests do not overlap. `BooksAssumption` asks that a contract's plans and keys are finitely many: sums are taken over them.
`ActivityPostCommit` and `PaymentLedger` are instantiated by their proof modules (`P` and `L`), so their assumptions appear as
hypotheses of the theorems.

### OutboundNotificationProofs

| Theorem | States |
|---|---|
| `TypeCorrect` | `Spec => []TypeOK` |
| `Invariance` | `Spec => []IInv` |
| `SnapshotStaysCurrent` | `Spec => []AttemptSnapshotCurrent` |
| `ExhaustedIsSpent` | `Spec => []ExhaustedOnlyWhenSpent` |
| `DeliveredBeforeCompleted` | `Spec => []CompletedWasHandedOver` |
| `CopiesAreBounded` | `Spec => []CopiesBounded` |
| `Refinement` | `Spec => ImplementsDurableJob` |

Why an inductive invariant is needed: `_record_failure` chooses between retry and exhaustion on the attempt
number it read at the claim, perhaps long ago. That this number is still the row's is not visible in the
step. `IInv` adds `RowShape` (exactly the running rows have an owner, only they a live lease), the
snapshot clause itself (a claim by anybody changes the owner, a reset clears it, so whoever still owns the row
has seen the last claim), `HandedSoFar` (whom a run that still owns the row is done with was tried since the row was queued: a reset takes
the lease away, so a run from before it owns nothing), `NothingSkippedYet`, and `ResettingExists` (a requeue in flight saw a row). The refinement maps the row to an abstract phase, holder
and tries and a run in its delivering part to a ticket, and goes through the actions; those that touch neither are stutters.

`CopiesBounded` needs an invariant of its own (`CopiesInv`): every attempt allows one message per recipient, whether it was sent or
a run may still send it, so `sent + |Senders| <= MaxAttempts * resets + attempts`, where `Senders` are the runs that are still
before their dispatch. A claim adds a sender and an attempt, a dispatch turns a sender into a message, a requeue trades the attempts
for a reset. That `Senders` is finite is part of the invariant, as nothing bounds the runs.

### CustomerEnrichmentProofs

| Theorem | States |
|---|---|
| `TypeCorrect` | `Spec => []TypeOK` |
| `WrittenOnce` | `Spec => []CompletedMeansWrittenOnce` |
| `ReceiptsStandForSuccess` | `Spec => []ReceiptOnlyAfterSuccess` |
| `UserValuesSurvive` | `Spec => UserValueSurvives` |
| `Refinement` | `Spec => ImplementsDurableJob` |

The invariant has two parts. `RowShape` is about one customer: the row's status, owner and lease fit together, `writes` and
`receipt` fit the status. `Carried` is about one run: the attempt number it holds is the row's while the row has its token (needed
where a failure is recorded), and a run that goes on to the refresh leaves a job behind that ended well. The second clause
holds because a job that ended well is never opened again: `requeue_enrichment_job` asks for `EXHAUSTED`. `UserValueSurvives` needs no invariant
beyond the types; it is the compare-and-set.

### CustomerActivityProofs

| Theorem | States |
|---|---|
| `TypeCorrect` | `Spec => []TypeOK` |
| `FollowUpIsExact` | `Spec => []FollowUpMatchesFinalization` |
| `DeletionIsLast` | `Spec => NoWriteAfterDeletion` |
| `KeepsThePromise` | `Spec => ImplementsPromise` |

Every step leaves the rows alone or is about *one* activity, with one of five effects: saved (created or submitted again), gone, touched (the
AI job is claimed, retried or closed), worked (only its status is marked) or finalized. Each action is first shown to have one
of them; the invariant (`TypeOK`, `Shape`: which status goes with which job, and `FollowUpMatches`) and the refinement are
then shown for the five effects and not once per action.

The second half of the module is about the post-commit workflow (`P == INSTANCE ActivityPostCommit`):

| Theorem | States |
|---|---|
| `FlowTypeCorrect` | `P!Spec => []P!TypeOK` |
| `DeletionSettlesTheJob` | `P!Spec => []P!DeletedMeansSettled` |
| `SettledForGood` | `P!Spec => P!SettledIsFinal` |
| `DeletionFencesTheRuns` | `P!Spec => P!NoEffectAfterDeletion` |
| `ClosedTaskHasNoOpenCase` | `P!Spec => P!ClosingSettlesTheCase` |
| `CompletionIsReconciled` | `P!Spec => P!CompletedMeansReconciled` |

What a job's last step looks at, the state of its graph, may have been written by any earlier attempt: a run that dies leaves it in the
thread, and the next run resumes it or starts over with its values. `FlowInv` therefore says the same of the saved thread
as of the state every run holds (`Sound`): behind the question to the model there is an answer or a skip, and the fence has stopped
the graph only if the activity is deleted. `Placed` ties the state's node to the run's, so that a run that finishes has passed the question. A run whose graph was
fenced does not complete the job because a deletion settles the job in its own transaction (`DeletedMeansSettled`) and takes the lease away;
that nothing else has one is `Leased`.

### ContractApprovalProofs

| Theorem | States |
|---|---|
| `TypeCorrect` | `Spec => []TypeOK` |
| `CoreHolds` | `Spec => []Core`: what holds of contract, approvals and records whatever overlaps |
| `DecisionsStay` | `Spec => DecidedStays`, whatever overlaps |
| `SignaturesAreComplete` | `Spec => []SignedByAllNodes`, whatever overlaps |
| `SignaturesFallOnlyToASecondReview` | `Spec => SignatureFallsOnlyToASecondReview`, whatever overlaps |
| `ReviewsAreSingle` | under `Serial`, `Spec => []UnderReviewHasOneApproval` |
| `SignaturesAreFinal` | under `Serial`, `Spec => SignedIsFinal` |
| `DeletionsSpareReviewed` | under `Serial`, `Spec => DeletionSparesReviewed` |
| `NodesAreDecidedByTheirRole` | under `Dated`, `Spec => []NodeDecidedByItsRole` |

`Serial == Alone \/ "submitContract" \notin Acts`: either nobody else asks while the contract's own
submission endpoint works, or nobody uses that endpoint. **The code guarantees neither** (`api/approvals.py:683-709` compares before it
locks), so the three theorems under `Serial` are not promises of the program as it is: they say what would be true if that endpoint were
dropped or looked again under its lock, and that nothing else stands in the way. With two pending approvals a late rejection or cancellation does
take a signature back, and a cancellation opens the way to a deletion under review. What is left of the signature without any assumption is
`SignaturesFallOnlyToASecondReview`: it falls only to the decision of a second pending approval or to the endpoint itself, never
to a generic submission, an edit or a deletion, however old their snapshots.

The argument: decisions lock the *approval*, submissions and deletions lock the *contract*, and neither
side reads the other's row under its lock. What makes them fit together is the invariant `OnePending`: the contract
is in `PENDING_REVIEW` exactly while one approval is pending. A decision finds its approval pending, so
it is that one and the contract is under review; a submission reads the phase and so knows that none is
pending. `Follows` ties the status to the phase, `Quiet` says what a request at the contract's own endpoint may still
rely on, `Behind` that a pending approval has a record of every node before its current one (needed for
`SignedByAllNodes`). `NewestExists` shows that the approval read from a snapshot exists, by a well-founded
argument on the finite set of ids.

### BillingProofs

Invoices:

| Theorem | States |
|---|---|
| `TypeCorrect` | `Spec => []TypeOK` |
| `IssuesTheReviewed` | `Spec => []IssuedAsReviewed`, whatever overlaps |
| `IssuesOnce` | `Spec => IssuedOnce`, whatever overlaps |
| `OffsetsAreOfTheCompleted` | `Spec => []OffsetsFollowCompletion`, whatever overlaps |

The fate of an application is written in three places: its status, its phase and its approval. `Reviewed` ties them together
and says that the content an approval was asked for stays the row's while it waits; `Addressed` that reissues are
revised and completed, never the application. That an offset outlives no
completion rests on the decisions: one that was let in while its approval waited looks at it again under its lock (`StillPending`) and so
cannot reopen a reissue that was approved and completed meanwhile (`Onward`: what is approved, completed or gone never goes back). How *many* offsets a completed reissue has is not bounded (section 6).

The ledger (`L == INSTANCE PaymentLedger`, over the rows of `PaymentBooks`):

| Theorem | States |
|---|---|
| `LedgerTypeCorrect` | `L!Spec => []L!TypeOK`, whatever overlaps |
| `ReceiptsAreTrue` | `L!Spec => []ReceiptTellsTheTruth`, whatever overlaps |
| `PaymentsStayWithinPlan` | `L!Spec => []RecordsWithinPlan` if nothing overlaps with `updatePlan` |
| `ClaimsAreApproved` | `L!Spec => []NeverOverstated` if nothing overlaps with `updatePlan`, `deletePlan`, `correct`, `remove` |

*Sums.* A sum is a fold, and the library's induction theorems cannot be used on it. What the ledger needs is proved from the
fold's definition all the same: a function on the subsets of a set that adds them up element by element exists and is unique (`AddsExists`,
`AddsUnique`), by induction over the subsets of a finite set stated for a *set* of subsets (`SubsetInduction`, from
the least element of a set of cardinalities). From it follow `SumRemove` (any element may be taken out first), `SumMonotone` (more and
larger amounts add up to more) and, by unfolding `MapThenSumSet`, that `Registered`, `Approved` and `Paid` are such sums (`LedgerSumsAreTheBooks`, `LedgerKeepsTheBooks`: what the instance adds up is what the books' properties speak of). `Registered` and its
like are thus known to be monotone in the payments, which is all that the invariants use.

*Receipts.* `LedgerInv` holds whatever overlaps. It carries `ReceiptTellsTheTruth` itself, which is inductive with the facts that a request about
a payment is about one that was made, and about its plan (`Aimed`, `PlanSeen`), and that a payment in the books has a plan (`PaymentsPlanned`).

*Within the plan.* Registering and correcting add up the *current* payments under the plan's lock, deriving changes no amount, everything else takes payments away. Only
a change of the plan's amount compares with nothing; its endpoint has seen a plan without payments, and run alone that is still so when
it writes (`Bare`). The other requests may overlap as they like, which is more than the run allows.

*Never overstated.* Statuses and the paid amount are derived from snapshots. A snapshot that is old is harmless as long as it is `Below` what is there: all
its plans and approved payments are there, as they were. Then what is derived from it is at most what would be derived now (`ClaimsGrow`,
by the monotony of sums), and `Behind` states this of every request. The hypothesis is what keeps `Behind`: with a plan changed or
deleted, or a payment corrected or removed meanwhile, the snapshot is ahead. It cannot be dropped for any of the four, nor the other theorem's for `updatePlan` (section 6).

### CustomerOwnershipProofs

| Theorem | States |
|---|---|
| `TypeCorrect` | `Spec => []TypeOK` |
| `OnWhatIsShown` | `Spec => ActsOnWhatIsShown`: every request whose version is compared, which is every one but a legacy transfer |
| `ClosedCustomers` | `Spec => ClosedStaysClosed` |
| `ReviewedContracts` | `Spec => ReviewedKeepsOwner` |

A version protects what a page showed only because *everything* that changes a customer raises it. `PageIsOld` states this: while the row has
the version of a page, it is as the page showed it. `Planned` says what a switch of status, planned on an unlocked read, may rely on.

### TaskConfirmationProofs

| Theorem | States |
|---|---|
| `TypeCorrect` | `Spec => []TypeOK` |
| `QuestionsAreCurrent` | `Spec => []PendingIsCurrent` |
| `Answers` | `Spec => []AnsweredOnce` |
| `Closed` | `Spec => ClosedStaysClosed` |
| `PromptsAreCounted` | `Spec => []PromptsCounted` |

Nearly every step only leaves cases alone or cancels them (`Eased`), which keeps the invariants at once. Two steps are left:
`RaiseCase`, which reads the activity's revision under its lock, and `Reply`, which reads the case again under its own.

For the counter (`Counted`), a step of a delivery either leaves it (`Unprompted`: it sends nothing, and what is sent or skipped remains
one or the other) or adds one (`Prompted`: the delivery was neither sent nor skipped before, which is what the lease check behind the
dispatch says). Two workers with the same delivery therefore count once, the second finds it settled.

### AssistantTurnProofs

| Theorem | States |
|---|---|
| `TypeCorrect` | `Spec => []TypeOK` |
| `OpenTurns` | `Spec => []OneOpenTurn` |
| `Settlements` | `Spec => []SettledIsProven` |
| `ActivityOnce` | `Spec => []WrittenOnce` |
| `LatestInput` | `Spec => LatestInputWins` |
| `AnsweredCards` | `Spec => AnswersItsCard` |

The code never compares a worker's input with the task's latest one at the moment it commits; it compares a lease and a version. The invariant says
what each is worth: a lease stands for nobody having submitted anything newer (`Busy`), a version for the card the worker loaded being the
one on the table (`Seen`, `OnTable`). Claims of proposals and the CRM's receipts leave marks (`Marked`) that agree with what the
task says (`Proven`, `Unwritten`); `CardKept` and `Answering` follow a turn from its submission to its end.

### Only model-checked

- Liveness and everything with `ENABLED` (out of the prover's reach): `EveryJobSettles` of the outbox, `SuccessIsRefreshed`,
  `MissedJobIsRegistered`, `LostAttemptIsRetaken`, `FormActivitySettles`, `EveryTurnSettles`.
- `SnapshotStaysCurrent`, `ExhaustedIsSpent`, `ReceiptsStandForSuccess`, `SignaturesAreFinal`, `SignaturesFallOnlyToASecondReview`, `ActivityOnce`,
  `DeletionSettlesTheJob` and `SettledForGood` are proved and belong to no run.

## 6 What the code does not keep

The runs hold the properties the code keeps. The modules also state promises of the code, its comments or its documents that it does *not*
keep; TLC finds a counterexample for each when the property is put alone into the configuration given here
(`INVARIANT` or, for formulas with `[][...]` or `~>`, `PROPERTY`), changed as described.

| Property | Promise | Configuration | What happens |
|---|---|---|---|
| `OutageIsRetried` (`OutboundNotification`) | `services/outbound_notification_job_service.py`, retries of a delivery that fails | `Outbound_delivery.cfg` | `services/feishu_notification.py:112` catches an outage recipient by recipient: the job is `COMPLETED`, reached nobody and is not retried. |
| `EveryJobSettles` (`CustomerEnrichment`) | `2026-09-20-customer-initial-enrichment-design.md:62` | `Enrichment_pipeline.cfg` | The recovery scan asks for `attempt_count < max_attempts` of running rows too (`crud/customer_enrichment_job.py:392`): a last attempt that outlives its lease leaves the row `RUNNING` for ever. |
| `CompletedStaysCompleted` (`CustomerActivity`) | `src/CRM-Docs/design-agent/roadmap/customer-activity-workflow-parity-spec.md:726` | `Activity_pipeline.cfg` | `_terminalize_exhausted` takes a job that has become `COMPLETED` since its unlocked look for one it has just exhausted, and marks the completed activity `FAILED`. |
| `ResubmissionIsReplayed` (`CustomerActivity`) | same file, :500 | `Activity_pipeline.cfg` | Finalization has raised the revision; the form sent again finds no AI job of that revision and is refused. |
| `RetryAsksAgain` (`ActivityPostCommit`) | the retries of the job | `PostCommit_safety.cfg`, no symmetry; it is an `INVARIANT` | A retry invokes the job's thread without resetting `skip_reason` and `error_message`, and fails on the old ones without asking the model. |
| `TaskIsClosedOnce` (`ActivityPostCommit`) | `...parity-spec.md:748` | `PostCommit_safety.cfg`, `UserActs = {}`, no symmetry | Two runs read the task as open in their snapshots; both close it and record an event. |
| `NoOrphanedNextStep` (`ActivityPostCommit`) | `2026-08-06-sales-commitment-management.md:1104` | `PostCommit_safety.cfg`, `UserActs = {"delete"}`, no symmetry | The deletion's snapshot is older than the projection of the next step; the task stays open. |
| `UnderReviewHasOneApproval` with `Alone = FALSE` | `crud/approval.py:515` | `Approval_safety.cfg`, `Alone = FALSE` | `api/approvals.py:683-709` compares before it locks: two submissions by the contract's own endpoint start two pending approvals. |
| `SignedAsReviewed` (`ContractApproval`) | `api/contracts.py:1461` | `Approval_safety.cfg`, `Acts = {"submit", "approve", "edit"}` | An edit that passed its check before the submission is written under review. |
| `RepetitionIsAnswered` (`ContractApproval`) | `services/approval_transaction_manager.py:283` | `Approval_safety.cfg`, `Acts = {"submit"}` | The second of two simultaneous submissions sees the phase under its lock, but not the other's approval in its snapshot, and is refused instead of answered. |
| `DeletedIsNotReviewed` (`ContractApproval`) | `services/approval_adapter.py:9` | `Approval_safety.cfg`, `Acts = {"submit", "delete"}` | The engine finds contracts that are deleted; one can be submitted and signed. |
| `NodeDecidedByItsRole` with `Dated = FALSE` | `api/approvals.py:836` | `Approval_safety.cfg`, `Acts = {"submit", "approve"}`, `Dated = FALSE` | Two approvals of the first node at once: the second, let in for the first node's role, decides the second node. |
| `PlannedWithinContract` (`PaymentBooks`) | `api/payments.py:905` | `Payments_ledger.cfg`, `Alone = {}` | Two plans are created or changed at once; each adds up the plans of a snapshot older than the contract's lock. |
| `ReviewedAmountStays` (`PaymentLedger`) | `api/payments.py:2437-2449` | the same | A correction that saw a payment as a draft is written after its submission or approval. |
| `PaidIsExact` (`PaymentLedger`) | `contract.total_paid_amount` | the same | A plan's deletion adds up the payments of a snapshot without the approval that was committed meanwhile, which the plan takes along. |
| `PaymentsStay` (`PaymentLedger`) | `api/payments.py:1574`, `:2498` | the same | A plan's deletion saw no payments; one registered since goes with it. |
| `RecordsWithinPlan` with `updatePlan` overlapping | `api/payments.py:1548` | `Payments_ledger.cfg`, `Acts = {"createPlan", "register", "submit", "approve", "updatePlan"}`, `Alone = {}` | The endpoint saw a plan without payments; one was registered before the smaller amount is written, and `crud/payment.py:448` does not look at payments. |
| `NeverOverstated` with `updatePlan`, `deletePlan`, `correct` or `remove` overlapping | the derived columns | the same with `"cancel"` and one of the four among the `Acts` and `Alone = {"createPlan"}` | An approval is committed after the snapshot that saw nothing approved; what it approved is taken away, or the plan's amount is changed, and the status or sum it has left stays. |
| `OneOpenReissue` (`InvoiceIssuing`) | `crud/invoice.py:704` | `Invoices_issuing.cfg`, `Reissues = 2` | Two reissues are created, each with the other outside its snapshot. Without any overlap too (`Requests = {r1}`): a rejected reissue does not count as open and is submitted again after the next one was created. |
| `ManualOffsetStandsAlone` (`InvoiceIssuing`) | `crud/invoice.py:702` | `Invoices_issuing.cfg` | Two offsets by hand overlap; each saw an invoice without any. Without any overlap too (`Requests = {r1}`): a rejected reissue is submitted again, approved and completed after the offset by hand. |
| `ReissuedAsReviewed` (`InvoiceIssuing`) | the approval of a reissue | `Invoices_issuing.cfg` | A revision that saw the draft is written after its submission. |
| `ReviewedStays` (`InvoiceIssuing`) | `utils/approval_delete_guard.py:35` | `Invoices_issuing.cfg` | The deletion of a plan or payment takes its applications along without asking the guard; no overlap is needed. |
| `OffsetsAccounted` (`InvoiceIssuing`) | one red offset per reissue | `Invoices_issuing.cfg` | Two completions of one reissue overlap; each looks for its offset before the other has added it, and two are left. |
| `ContractsSurvive` (`CustomerOwnership`) | `crud/customer.py:703` | `Ownership_customers.cfg` | The check for contracts is older than the deletion (`:711`): a contract created in between goes with its customer. |
| `SourceLeadStays` (`CustomerOwnership`) | `crud/lead.py:411` | `Ownership_customers.cfg`, `Acts = {"convert", "invalidLead", "deleteLead"}` | A converted lead marked invalid has lost the status the deletion asks for. |
| `ClaimsAreExclusive` (`CustomerOwnership`) | `api/leads.py:628` | `Ownership_customers.cfg` | Two users claim a lead at once; leads are not locked and the later claim wins. |
| `OwnerIsInherited` (`CustomerOwnership`) | `api/customers.py:785` | `Ownership_customers.cfg`, `Acts = {"convert", "assignLead"}` | The lead changes hands between the conversion's read and its commit. |
| `ConvertedOnce` (`CustomerOwnership`) | `crud/customer.py:806` | `Ownership_customers.cfg`, `Names = {n1, n2}` | Two conversions of a lead under different customer names overlap and make two customers. |
| `VersionIsHonoured` (`CustomerOwnership`) | `expected_version` of a transfer (`api/customers.py:3432`) | `Ownership_customers.cfg` | A legacy transfer (no operation id, no idempotency key) calls `assign_customer` without the version it carries (`:3449-3458`): one sent from an old page is carried out. |
| `FenceSparesCurrent` (`TaskConfirmation`) | the revision fence | `Confirmation_cases.cfg` | The workflow of an old revision cancels all pending cases of its activity, those of the present revision too (`services/customer_activity_post_commit_workflow.py:814`). |
| `LiveLeaseSpared` (`TaskConfirmation`) | `crud/sales_commitment.py:1797` | the same | `claim` looks at the attempts before the lease, so a second worker exhausts a delivery that is being dispatched. |
| `SentStaysSent` (`TaskConfirmation`) | delivery statuses are terminal | the same | A run that ensures a delivery again, for a case answered meanwhile, saw it unsent in an older snapshot and marks it `SKIPPED` (`services/follow_up_confirmation_delivery_projection.py:171`). |
| `ClosedAsksNothing` (`TaskConfirmation`) | a closed task has no open case | the same | A case is raised under the task's lock without a look at its status (`services/follow_up_task_confirmation_service.py:213`). |
| `DeletedAsksNothing` (`TaskConfirmation`) | `SOURCE_ACTIVITY_DELETED` | the same | A deletion leaves the cases in which the activity asks about tasks of others (`services/customer_activity_write_service.py:535`). |
| `PromptedOncePerRevision` (`TaskConfirmation`) | one prompt per revision | the same with `SPECIFICATION Spec`, `Workers = {w1}`, `Requests = {r1}`, `MaxAttempts = 1`, `Outcomes = {"sent"}`, no symmetry | Deliveries are told apart by the scheduling workflow, which may find that the case has moved to another activity. |
| `AdjudicationIsFinal` (`AssistantTurn`) | `api/assistant.py:315-318` | `Assistant_proposals.cfg` | The endpoint reads the claim without a lock: a worker settles it in between and the operator's verdict replaces the worker's. |
| `RejectedHasNoEffect` (`AssistantTurn`) | `api/assistant.py:349-353` | the same | The receipt is looked for before the command commits; the operator's rejection follows the commit. |

Seen while modelling, without a property of its own:

- A `continue` turn that fails after its activity was written strands the task: the receipt is there, its card is not.
- A refused activity write leaves `frozen_activity_command` behind, so that later drafts end in `STATE_CONFLICT` until a text about the
  activity's dates clears it or its kind is reset.
- A claim that nobody can prove blocks its proposal for ever; only an operator's verdict releases it.
- `PUT` of a lead can set the status `CONVERTED` without a customer; the audit of
  a return names the owner read before the lock.
- The deletion guard locks case, then activity; an edit and the post-commit workflow lock the activity, then its cases. InnoDB may pick
  a victim (`Fail` in the models).

## 7 What is not modelled

- **Row locks as such.** Everything from the first lock to the commit is one step, which is sound for what
  ends up in the rows, but hides deadlocks. A claim of an AI job locks the job and then writes the activity,
  finalization and deletion lock the activity first: InnoDB may pick a victim. The models allow its effect, a
  transaction that fails and rolls back, in finalization, in the graph's nodes and in the delivery of confirmations.
- **Text.** Card contents, prompts, what a model says beyond the decision it leads to, validation of input.
- **Permissions**, except the role of the approver of a node.
- *Outbox*: nothing that changes a row is left out; the recipients' Feishu bindings are constant.
- *Enrichment*: the profile gate (`not_before_at`), which nothing in the program defers any more (`defer_until` has no caller).
- *Activities*: evidence rows, intelligence events and the opportunity suggestion registered in the same
  transactions; user edits of a final activity (they raise the revision, which gives a job of its own and
  is a case of the fence); migration of a lead's activities.
- *Post-commit*: postponing and cancelling a task (the same locking as completing it), rollback events (no caller), and the
  source check that skips Assistant 2.0 jobs before their claim. The delivery of the cases is in `TaskConfirmation`.
- *Approvals*: flows that are edited while approvals wait at their nodes, the choice of a flow, other documents,
  `create_with_approval`, reminders, and the notification that follows a decision in a second transaction.
- *Payments*: proofs and attachments, commission members, the deal journey refreshed with the plan, due dates beyond overdue or not.
- *Invoices*: titles, files, the notification after a commit, and the invoiced amount, which nothing in the code bounds.
- *Leads and customers*: contacts, members and columns nothing is decided on; activities that a conversion moves; deal journeys.
- *Confirmations*: commitments and the projection of an activity into tasks, the wording of a question, the agent's prompts in a
  conversation. `expire_pending_cases` and the rollback of a transition have no caller. The only production adapter is "web", whose
  delivery always succeeds; the models admit failures of any adapter. That deliveries are made in the end is not checked.
- *Assistant*: what a draft says, the batch of historical tasks (a proposal without a claim stands for one item), the choice of a
  task in a conversation, the events of the client's stream.
- *Customer intelligence* is not modelled because there is little left to run: `upsert_summary` always raises
  `CUSTOMER_MEMORY_SECTION_REMOVED` and `run_due_retries` has no caller. A superseded executor may still project its run as
  `RUNNING` again.
- The components not in bold in section 1.1, with the reasons `PROJECT.json` gives.

## 8 Plan

The order was: the leased queue, because most of the server depends on it (its pattern repeats in five tables); the activity pipeline,
which is the program's central workflow; the approval of contracts; then what follows a signed contract (payments, invoices), what precedes
it (leads, customers), and the two conversations with the user (confirmations, Assistant 2.0). Next:

1. **Composition** of `ContractApproval` with `OutboundNotification`: `subject` becomes what the approval does, and the
   crash between decision and enqueueing becomes visible.
2. **Other approvals**: `create_with_approval` with its idempotent command; flows edited while approvals wait.
3. **Agent**: asynchronous operations and turn executions with `NEEDS_RECONCILIATION`; the cutover of checkpoints.
4. **Opportunity suggestions** (instantiates `LeasedJob`), **reminder rules**, **opportunities and deal journeys**: small machines.
5. A **lock-order** model of the activity tables (deadlock of row locks).

Theorems next: that the abstract `DurableJob` is also what the rows of the activity's two queues implement. No module that is proved about declares a RECURSIVE operator.
