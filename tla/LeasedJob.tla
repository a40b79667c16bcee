----------------------------- MODULE LeasedJob -----------------------------
(***************************************************************************)
(* The row of a durable job table and the conditional updates every job    *)
(* table of the server shares.  A row is claimed for one execution under a *)
(* lease token with an expiry time, and every later update of the row is   *)
(* conditional on still holding that token.                                *)
(*                                                                         *)
(* Clock values are abstracted to the two comparisons the code makes:      *)
(*   live   lease_expires_at > now                                         *)
(*   due    next_attempt_at is NULL or <= now                              *)
(* Each flips by itself as time passes, at any moment.  lease_token is the *)
(* worker whose run() drew it: a worker executes one run() at a time.      *)
(***************************************************************************)
EXTENDS Naturals

CONSTANTS
    Workers,      \* asyncio tasks that execute run()
    NoWorker,     \* lease_token IS NULL
    MaxAttempts   \* *_MAX_ATTEMPTS

ASSUME LeasedJobAssumption ==
    /\ NoWorker \notin Workers
    /\ MaxAttempts \in Nat \ {0}      \* max(1, settings.*_MAX_ATTEMPTS)

Terminal == {"COMPLETED", "SKIPPED", "EXHAUSTED"}
Status == {"ABSENT", "QUEUED", "RUNNING", "FAILED"} \cup Terminal

Row == [status   : Status,
        attempts : 0 .. MaxAttempts,
        due      : BOOLEAN,
        owner    : Workers \cup {NoWorker},
        live     : BOOLEAN]

\* A row without lease and without a retry that is due.
FreeRow(status, attempts) ==
    [status |-> status, attempts |-> attempts, due |-> FALSE,
     owner |-> NoWorker, live |-> FALSE]

\* No row with this key has been inserted.
AbsentRow == FreeRow("ABSENT", 0)

\* The row as inserted, and as a manual requeue leaves it.
QueuedRow == FreeRow("QUEUED", 0)

Lapsed(row) == row.status = "RUNNING" /\ ~row.live

\* claim_for_execution takes the row exactly in these states.
Claimable(row) ==
    /\ row.attempts < MaxAttempts
    /\ \/ row.status = "QUEUED"
       \/ row.status = "FAILED" /\ row.due
       \/ Lapsed(row)

\* Mutant: taking over a lapsed lease is not counted as an attempt.
ClaimedUncounted(row, w) ==
    [status |-> "RUNNING", attempts |-> row.attempts + (IF Lapsed(row) THEN 0 ELSE 1),
     due |-> FALSE, owner |-> w, live |-> TRUE]

Claimed(row, w) ==
    [status |-> "RUNNING", attempts |-> row.attempts + 1, due |-> FALSE,
     owner |-> w, live |-> TRUE]

\* finalize_retries_exhausted: attempts spent and no live lease.
SpentAndFree(row) ==
    /\ row.status \in {"QUEUED", "FAILED", "RUNNING"}
    /\ row.attempts >= MaxAttempts
    /\ ~(row.status = "RUNNING" /\ row.live)

\* Mutant: the token is not compared.
OwnsAnyLease(row, w) == row.status = "RUNNING"

\* _owns_running_lease: the token decides, the expiry is not looked at.
OwnsLease(row, w) == row.status = "RUNNING" /\ row.owner = w

Closed(row, outcome) == FreeRow(outcome, row.attempts)

RetryLater(row) == FreeRow("FAILED", row.attempts)

\* Mutant: the scan forgets rows whose last attempt died.
RecoverableUnlessSpent(row) == Claimable(row)

\* list_system_recovery_candidates: what the recovery scan hands to run().
Recoverable(row) == Claimable(row) \/ SpentAndFree(row)
=============================================================================
