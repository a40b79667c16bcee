------------------------- MODULE CustomerEnrichment -------------------------
(***************************************************************************)
(* Initial enrichment of a customer's missing industry by a model:         *)
(* crud/customer_enrichment_job.py (the rows), services/                   *)
(* customer_enrichment_job_service.py (run), customer_enrichment_write_    *)
(* service.py (the compare-and-set on the customer), customer_enrichment_  *)
(* profile_coordinator.py (the refresh receipt) and the recovery, backfill *)
(* and reconciliation loops under tasks/.                                  *)
(*                                                                         *)
(* A row's status RETRY_PENDING is LeasedJob's "FAILED".  The profile gate *)
(* (not_before_at) is left out: nothing in the program defers a profile    *)
(* run any more, so releasing and cancelling deferred runs find none, and  *)
(* first_attempt_finished_at, which only times that gate, has no effect.   *)
(***************************************************************************)
EXTENDS LeasedJob

CONSTANTS
    Customers,
    NoCustomer,
    MaxEdits,    \* bound: user edits of one customer
    MaxCrashes   \* bound: runs that die

ASSUME EnrichmentAssumption ==
    /\ NoCustomer \notin Customers
    /\ MaxEdits \in Nat
    /\ MaxCrashes \in Nat

VARIABLES
    customer,     \* the industry field and the version of each customer
    registering,  \* created customers whose job is registered after the commit
    jobs,         \* crm_customer_enrichment_jobs by customer
    skipReason,   \* result_json.skip_reason of each job
    receipt,      \* profile_refresh_request_id is set
    run,          \* what each worker's run() holds in its local variables
    writes,       \* history: values the model wrote into each customer
    crashes

vars == <<customer, registering, jobs, skipReason, receipt, run, writes, crashes>>

\* "none": not created yet.  "user" and "model" say who wrote the value.
Field == {"none", "missing", "user", "model", "deleted"}

Reason == {"none", "CUSTOMER_NOT_FOUND", "FIELD_FILLED"}

Executing == {"load", "infer", "write", "conflict", "skip", "fail"}

\* version is the expected_version of the compare-and-set.
Run == [pc : {"idle", "refresh"} \cup Executing, key : Customers \cup {NoCustomer},
        tries : 0 .. MaxAttempts, version : Nat, reason : Reason]

Idle == [pc |-> "idle", key |-> NoCustomer, tries |-> 0, version |-> 0, reason |-> "none"]

TypeOK ==
    /\ customer \in [Customers -> [field : Field, version : Nat]]
    /\ registering \in SUBSET Customers
    /\ jobs \in [Customers -> Row]
    /\ skipReason \in [Customers -> Reason]
    /\ receipt \in [Customers -> BOOLEAN]
    /\ run \in [Workers -> Run]
    /\ \A w \in Workers : run[w].pc # "idle" => run[w].key \in Customers
    /\ writes \in [Customers -> Nat]
    /\ crashes \in 0 .. MaxCrashes

Init ==
    /\ customer = [c \in Customers |-> [field |-> "none", version |-> 0]]
    /\ registering = {}
    /\ jobs = [c \in Customers |-> AbsentRow]
    /\ skipReason = [c \in Customers |-> "none"]
    /\ receipt = [c \in Customers |-> FALSE]
    /\ run = [w \in Workers |-> Idle]
    /\ writes = [c \in Customers |-> 0]
    /\ crashes = 0

Exists(c) == customer[c].field \notin {"none", "deleted"}
Missing(c) == customer[c].field = "missing"

-----------------------------------------------------------------------------
(* Registration: one row per customer, whoever asks for it. *)

\* The row as inserted; due says whether available_at has passed.
Waiting(due) == [QueuedRow EXCEPT !.due = due]

\* ensure returns the existing row, or inserts one.
Ensure(c, due) ==
    jobs' = IF jobs[c].status = "ABSENT" THEN [jobs EXCEPT ![c] = Waiting(due)] ELSE jobs

\* The customer is inserted with its job in one transaction, or the job is to
\* follow in a second one, or registering it failed inside its savepoint.
CreateCustomer(c, field) ==
    /\ customer[c].field = "none"
    /\ customer' = [customer EXCEPT ![c].field = field]
    /\ \/ field = "missing" /\ Ensure(c, FALSE) /\ UNCHANGED registering
       \/ field = "missing" /\ registering' = registering \cup {c} /\ UNCHANGED jobs
       \/ UNCHANGED <<registering, jobs>>
    /\ UNCHANGED <<skipReason, receipt, run, writes, crashes>>

\* enqueue_after_commit looks at the customer object of the creating request.
RegisterAfterCommit(c) ==
    /\ c \in registering
    /\ registering' = registering \ {c}
    /\ Ensure(c, FALSE)
    /\ UNCHANGED <<customer, skipReason, receipt, run, writes, crashes>>

\* Mutant: customers nobody touched since are left to their creator.
NeedsBackfillIfEdited(c) ==
    Missing(c) /\ jobs[c].status = "ABSENT" /\ customer[c].version > 0

NeedsBackfill(c) == Missing(c) /\ jobs[c].status = "ABSENT"

\* scan_and_ensure, and the first half of reconcile_once.
Backfill(c) ==
    /\ NeedsBackfill(c)
    /\ Ensure(c, TRUE)
    /\ UNCHANGED <<customer, registering, skipReason, receipt, run, writes, crashes>>

\* requeue_enrichment_job locks the job, then the customer.
Requeue(c) ==
    /\ jobs[c].status = "EXHAUSTED"
    /\ Missing(c)
    /\ jobs' = [jobs EXCEPT ![c] = Waiting(TRUE)]
    /\ receipt' = [receipt EXCEPT ![c] = FALSE]
    /\ UNCHANGED <<customer, registering, skipReason, run, writes, crashes>>

-----------------------------------------------------------------------------
(* run(): claim under the row lock, compute, write, record, refresh. *)

\* Unlike the notification outbox, a new row has to wait for available_at.
ClaimableDue(row) == Claimable(row) /\ (row.status = "QUEUED" => row.due)

\* The row is locked from the first read to the commit of the claim.  A
\* terminal row, a live lease and a row that is not due end the run.
Execute(w, c) ==
    /\ run[w].pc = "idle"
    /\ \/ /\ SpentAndFree(jobs[c])
          /\ jobs' = [jobs EXCEPT ![c] = Closed(@, "EXHAUSTED")]
          /\ UNCHANGED run
       \/ /\ ClaimableDue(jobs[c])
          /\ jobs' = [jobs EXCEPT ![c] = Claimed(@, w)]
          /\ run' = [run EXCEPT ![w] = [Idle EXCEPT !.pc = "load", !.key = c,
                                                    !.tries = jobs[c].attempts + 1]]
    /\ UNCHANGED <<customer, registering, skipReason, receipt, writes, crashes>>

\* Mutant: the scan leaves running rows alone.
RecoveryCandidateNotRunning(row) == ClaimableDue(row) /\ row.status # "RUNNING"

\* list_system_recovery_candidates: rows without attempts left are not listed.
RecoveryCandidate(row) == ClaimableDue(row)

\* kick: an asyncio task for a request somebody holds, whatever its state now.
Kick(w, c) == Execute(w, c)

\* recover_once runs the rows the scan found.
Recover(w, c) == RecoveryCandidate(jobs[c]) /\ Execute(w, c)

Goto(w, pc) == run' = [run EXCEPT ![w].pc = pc]
Skip(w, reason) == run' = [run EXCEPT ![w].pc = "skip", ![w].reason = reason]

\* The graph reads the customer, remembers its version and routes.
LoadContext(w) ==
    /\ run[w].pc = "load"
    /\ LET c == run[w].key
       IN  \/ ~Exists(c) /\ Skip(w, "CUSTOMER_NOT_FOUND")
           \/ Exists(c) /\ ~Missing(c) /\ Skip(w, "FIELD_FILLED")
           \/ Missing(c) /\ run' = [run EXCEPT ![w].pc = "infer",
                                               ![w].version = customer[c].version]
    /\ UNCHANGED <<customer, registering, jobs, skipReason, receipt, writes, crashes>>

\* The model answers with valid decisions, or the call or its answer fails.
Infer(w, answered) ==
    /\ run[w].pc = "infer"
    /\ Goto(w, IF answered THEN "write" ELSE "fail")
    /\ UNCHANGED <<customer, registering, jobs, skipReason, receipt, writes, crashes>>

\* Mutant: the version that was read is not compared and a value is replaced.
CanApplyIfExists(c, version) == Exists(c)

\* The conditions of the compare-and-set UPDATE.
CanApply(c, version) == Missing(c) /\ customer[c].version = version

\* Before the write, the expiry counts too.
OwnsLiveLease(row, w) == OwnsLease(row, w) /\ row.live

\* Mutant: the value is written but the job is recorded by a later step.
WriteAndForget(w, c) ==
    /\ customer' = [customer EXCEPT ![c] = [field |-> "model", version |-> @.version + 1]]
    /\ writes' = [writes EXCEPT ![c] = @ + 1]
    /\ Goto(w, "fail")
    /\ UNCHANGED jobs

\* The value and the job's outcome are committed together.
WriteAndComplete(w, c) ==
    /\ customer' = [customer EXCEPT ![c] = [field |-> "model", version |-> @.version + 1]]
    /\ writes' = [writes EXCEPT ![c] = @ + 1]
    /\ jobs' = [jobs EXCEPT ![c] = Closed(@, "COMPLETED")]
    /\ Goto(w, "refresh")

\* A failed compare-and-set, and a write that raises, roll the transaction
\* back, which also releases the lock on the job row.
Apply(w) ==
    /\ run[w].pc = "write"
    /\ LET c == run[w].key
       IN  \/ /\ ~OwnsLiveLease(jobs[c], w)
              /\ run' = [run EXCEPT ![w] = Idle]
              /\ UNCHANGED <<customer, writes, jobs>>
           \/ /\ OwnsLiveLease(jobs[c], w)
              /\ CanApply(c, run[w].version)
              /\ WriteAndComplete(w, c)
           \/ /\ OwnsLiveLease(jobs[c], w)
              /\ ~CanApply(c, run[w].version)
              /\ Goto(w, "conflict")
              /\ UNCHANGED <<customer, writes, jobs>>
           \/ /\ OwnsLiveLease(jobs[c], w)
              /\ Goto(w, "fail")
              /\ UNCHANGED <<customer, writes, jobs>>
    /\ UNCHANGED <<registering, skipReason, receipt, crashes>>

\* _conflict_result reads the customer again, in a new transaction.
ClassifyConflict(w) ==
    /\ run[w].pc = "conflict"
    /\ LET c == run[w].key
       IN  \/ ~Exists(c) /\ Skip(w, "CUSTOMER_NOT_FOUND")
           \/ Exists(c) /\ ~Missing(c) /\ Skip(w, "FIELD_FILLED")
           \/ Missing(c) /\ Goto(w, "fail")
    /\ UNCHANGED <<customer, registering, jobs, skipReason, receipt, writes, crashes>>

\* terminal_success: a deleted customer gets no profile refresh.
Refreshes(reason) == reason # "CUSTOMER_NOT_FOUND"

\* mark_completed_if_lease_owner(skipped=True), BUSY otherwise.
RecordSkip(w) ==
    /\ run[w].pc = "skip"
    /\ LET c == run[w].key
           reason == run[w].reason
       IN  \/ /\ OwnsLease(jobs[c], w)
              /\ jobs' = [jobs EXCEPT ![c] = Closed(@, "SKIPPED")]
              /\ skipReason' = [skipReason EXCEPT ![c] = reason]
              /\ run' = [run EXCEPT ![w] = IF Refreshes(reason)
                                           THEN [@ EXCEPT !.pc = "refresh"] ELSE Idle]
           \/ /\ ~OwnsLease(jobs[c], w)
              /\ run' = [run EXCEPT ![w] = Idle]
              /\ UNCHANGED <<jobs, skipReason>>
    /\ UNCHANGED <<customer, registering, receipt, writes, crashes>>

Spent(tries) == tries >= MaxAttempts

\* _record_retry_in_session decides by the attempt number read at the claim.
RecordFailure(w) ==
    /\ run[w].pc = "fail"
    /\ LET c == run[w].key
       IN  jobs' = IF ~OwnsLease(jobs[c], w) THEN jobs
                   ELSE [jobs EXCEPT ![c] = IF Spent(run[w].tries)
                                            THEN Closed(@, "EXHAUSTED") ELSE RetryLater(@)]
    /\ run' = [run EXCEPT ![w] = Idle]
    /\ UNCHANGED <<customer, registering, skipReason, receipt, writes, crashes>>

\* on_terminal_success: the refresh run and the receipt are committed together,
\* after the job's own commit; a failure is logged and the run ends all the same.
RegisterRefresh(w, succeeds) ==
    /\ run[w].pc = "refresh"
    /\ receipt' = [receipt EXCEPT ![run[w].key] = @ \/ succeeds]
    /\ run' = [run EXCEPT ![w] = Idle]
    /\ UNCHANGED <<customer, registering, jobs, skipReason, writes, crashes>>

\* Mutant: only written values are refreshed.
ReceiptDueIfCompleted(c) == jobs[c].status = "COMPLETED"

\* _receipt_should_repair.
ReceiptDue(c) ==
    /\ jobs[c].status \in {"COMPLETED", "SKIPPED"}
    /\ skipReason[c] # "CUSTOMER_NOT_FOUND"
    /\ ~receipt[c]

\* reconcile_once pages over existing customers only.
RepairReceipt(c) ==
    /\ Exists(c)
    /\ ReceiptDue(c)
    /\ receipt' = [receipt EXCEPT ![c] = TRUE]
    /\ UNCHANGED <<customer, registering, jobs, skipReason, run, writes, crashes>>

-----------------------------------------------------------------------------
(* The environment: time, crashes and the users of the customer record. *)

LeaseExpires(c) ==
    /\ jobs[c].live
    /\ jobs' = [jobs EXCEPT ![c].live = FALSE]
    /\ UNCHANGED <<customer, registering, skipReason, receipt, run, writes, crashes>>

\* available_at or next_attempt_at is reached.
Due(c) ==
    /\ jobs[c].status \in {"QUEUED", "FAILED"}
    /\ ~jobs[c].due
    /\ jobs' = [jobs EXCEPT ![c].due = TRUE]
    /\ UNCHANGED <<customer, registering, skipReason, receipt, run, writes, crashes>>

\* The process dies, the task is cancelled or its database call raises.
Crash(w) ==
    /\ run[w].pc # "idle"
    /\ crashes < MaxCrashes
    /\ crashes' = crashes + 1
    /\ run' = [run EXCEPT ![w] = Idle]
    /\ UNCHANGED <<customer, registering, jobs, skipReason, receipt, writes>>

\* Every user edit takes the row lock and raises the version: it sets or
\* clears the industry, or changes something else.
EditCustomer(c, field) ==
    /\ Exists(c)
    /\ customer[c].version < MaxEdits
    /\ field \in {"user", "missing", customer[c].field}
    /\ customer' = [customer EXCEPT ![c] = [field |-> field, version |-> @.version + 1]]
    /\ UNCHANGED <<registering, jobs, skipReason, receipt, run, writes, crashes>>

DeleteCustomer(c) ==
    /\ Exists(c)
    /\ customer' = [customer EXCEPT ![c].field = "deleted"]
    /\ UNCHANGED <<registering, jobs, skipReason, receipt, run, writes, crashes>>

-----------------------------------------------------------------------------
Next ==
    \/ \E c \in Customers : \/ \E f \in {"missing", "user"} : CreateCustomer(c, f)
                            \/ RegisterAfterCommit(c)
                            \/ Backfill(c)
                            \/ Requeue(c)
                            \/ RepairReceipt(c)
                            \/ LeaseExpires(c)
                            \/ Due(c)
                            \/ \E f \in Field : EditCustomer(c, f)
                            \/ DeleteCustomer(c)
    \/ \E w \in Workers, c \in Customers : Kick(w, c) \/ Recover(w, c)
    \/ \E w \in Workers : \/ LoadContext(w)
                          \/ \E b \in BOOLEAN : Infer(w, b) \/ RegisterRefresh(w, b)
                          \/ Apply(w)
                          \/ ClassifyConflict(w)
                          \/ RecordSkip(w)
                          \/ RecordFailure(w)
                          \/ Crash(w)

Spec == Init /\ [][Next]_vars

\* A started run goes on: database calls return and the model call times out.
RunProgress(w) ==
    \/ LoadContext(w) \/ Apply(w) \/ ClassifyConflict(w) \/ RecordSkip(w) \/ RecordFailure(w)
    \/ \E b \in BOOLEAN : Infer(w, b) \/ RegisterRefresh(w, b)

\* Kicks are best effort.  The recovery, backfill and reconciliation loops run
\* for as long as the server does, and clocks advance.
Fairness ==
    /\ \A w \in Workers : WF_vars(RunProgress(w))
    /\ \A c \in Customers : /\ WF_vars(\E w \in Workers : Recover(w, c))
                            /\ WF_vars(Backfill(c))
                            /\ WF_vars(RepairReceipt(c))
                            /\ WF_vars(LeaseExpires(c))
                            /\ WF_vars(Due(c))

FairSpec == Spec /\ Fairness

-----------------------------------------------------------------------------
(* Properties *)

\* A value a user entered is never replaced by the model's, even if it was
\* entered while the model was computing or the write was being retried.
UserValueSurvives ==
    [][\A c \in Customers : customer[c].field = "user" => customer'[c].field # "model"]_vars

\* The job's outcome and the customer agree: the model's value was written
\* exactly once if the job is COMPLETED and never otherwise, however many
\* executions of the job overlapped or had to be repeated.
CompletedMeansWrittenOnce ==
    \A c \in Customers : writes[c] = (IF jobs[c].status = "COMPLETED" THEN 1 ELSE 0)

\* A refresh receipt stands for a finished job, and none is recorded for a
\* customer that was found deleted, although the receipt is registered in a
\* later transaction than the outcome (2026-09-20-customer-initial-enrichment-design.md:473).
ReceiptOnlyAfterSuccess ==
    \A c \in Customers : receipt[c] =>
        /\ jobs[c].status \in {"COMPLETED", "SKIPPED"}
        /\ skipReason[c] # "CUSTOMER_NOT_FOUND"

\* Every customer whose job ended well gets its profile refreshed, even if the
\* callback after the commit failed or the process died before it.
SuccessIsRefreshed ==
    \A c \in Customers :
        /\ jobs[c].status \in {"COMPLETED", "SKIPPED"}
        /\ skipReason[c] # "CUSTOMER_NOT_FOUND"
        ~> receipt[c] \/ customer[c].field = "deleted"

\* A customer whose registration was lost is found again by the backfill.
MissedJobIsRegistered ==
    \A c \in Customers : Missing(c) ~> jobs[c].status # "ABSENT" \/ ~Missing(c)

\* An execution that dies before the last attempt is taken over.
LostAttemptIsRetaken ==
    \A c \in Customers :
        \A n \in 1 .. MaxAttempts - 1 :
            Lapsed(jobs[c]) /\ jobs[c].attempts = n ~> jobs[c].attempts # n
                                                       \/ jobs[c].status # "RUNNING"

\* The design promises leases, retries, evidence of exhaustion and recovery
\* after a restart (2026-09-20-customer-initial-enrichment-design.md:62) and
\* that a lapsed lease is recovered: every job reaches an outcome.
EveryJobSettles ==
    \A c \in Customers : jobs[c].status # "ABSENT" ~> jobs[c].status \in Terminal

-----------------------------------------------------------------------------
(* The enrichment table implements the abstract durable job. *)

AbstractPhase(row) ==
    CASE row.status = "ABSENT"               -> "none"
      [] row.status \in {"QUEUED", "FAILED"} -> "open"
      [] row.status = "RUNNING"              -> "held"
      [] OTHER                               -> "closed"

AbstractJob ==
    [c \in Customers |-> [phase  |-> AbstractPhase(jobs[c]),
                          holder |-> jobs[c].owner,
                          tries  |-> jobs[c].attempts]]

AbstractTicket ==
    [w \in Workers |-> IF run[w].pc \in Executing THEN run[w].key ELSE NoCustomer]

Durable == INSTANCE DurableJob
             WITH Jobs <- Customers, NoJob <- NoCustomer,
                  job <- AbstractJob, ticket <- AbstractTicket

\* The enrichment table is a durable job table: only the execution holding a
\* job closes it or gives it back, and at most MaxAttempts start per opening.
ImplementsDurableJob == Durable!Spec
=============================================================================
