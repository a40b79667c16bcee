------------------------ MODULE OutboundNotification ------------------------
(***************************************************************************)
(* The outbox of Feishu notifications: crud/outbound_notification_job.py   *)
(* (the rows and their row-locked updates), services/                      *)
(* outbound_notification_job_service.py (enqueue, run, requeue) and        *)
(* tasks/outbound_notification_recovery.py (the recovery scan).            *)
(*                                                                         *)
(* Every CRUD update is one SELECT ... FOR UPDATE and one commit: one      *)
(* action.  run() reads the row without a lock, then claims it, then       *)
(* awaits Feishu once per recipient, then records the outcome: one action  *)
(* for each, so that other runs, requeues, lease expiry and crashes fall   *)
(* between any two of them.                                                *)
(***************************************************************************)
EXTENDS LeasedJob, FiniteSets

CONSTANTS
    Nodes,       \* (approval, node) pairs a pending notification is about
    Outcomes,    \* approvals decided, cancelled or issued: one key each
    Events,      \* business events that need no approval: one key each
    Uuids,       \* random key suffixes of reminders and resends
    First,       \* the suffix-free natural key
    Users,       \* recipients of each notification, all bound to Feishu
    NoKey,
    MaxResets,   \* bound: resends of one key
    MaxCrashes   \* bound: runs that die

ASSUME OutboundAssumption ==
    /\ IsFiniteSet(Users)
    /\ Nodes \cap Outcomes = {}
    /\ Events \cap (Nodes \cup Outcomes) = {}
    /\ First \notin Uuids
    /\ MaxResets \in Nat
    /\ MaxCrashes \in Nat

\* What the notification of an approval shows: the card is built from it.
Documents == Nodes \cup Outcomes

\* A business event carries its text with it (payload_json).
Subjects == Documents \cup Events

\* Idempotency keys: a unique constraint makes the table a function of them.
Keys == (Subjects \X {First}) \cup (Nodes \X Uuids)

Subject(k) == k[1]

ASSUME KeyAssumption == NoKey \notin Keys

VARIABLES
    jobs,       \* crm_outbound_notification_jobs by idempotency key
    run,        \* what each worker's run() holds in its local variables
    subject,    \* the business document: "open", "moved" on, or "deleted"
    resetting,  \* nodes whose requeue_pending saw FAILED or EXHAUSTED
    resets,     \* how often a key was reset
    sent,       \* messages Feishu accepted, by key and recipient
    handled,    \* recipients tried since the key was last queued: their send
                \* was accepted, or raised inside send_to_users
    crashes

vars == <<jobs, run, subject, resetting, resets, sent, handled, crashes>>

Delivering == {"deliver", "send", "record", "fail"}

\* The local variables of one run().
Run == [pc    : {"idle", "claim", "finalize"} \cup Delivering,
        key   : Keys \cup {NoKey},
        tries : 0 .. MaxAttempts,
        todo  : SUBSET Users,
        skip  : BOOLEAN]

Started(k, pc) == [pc |-> pc, key |-> k, tries |-> 0, todo |-> {}, skip |-> FALSE]

Idle == Started(NoKey, "idle")

TypeOK ==
    /\ jobs \in [Keys -> Row]
    /\ run \in [Workers -> Run]
    /\ \A w \in Workers : run[w].pc # "idle" => run[w].key \in Keys
    /\ subject \in [Documents -> {"open", "moved", "deleted"}]
    /\ resetting \in SUBSET Nodes
    /\ resets \in [Keys -> Nat]
    /\ sent \in [Keys -> [Users -> Nat]]
    /\ handled \in [Keys -> SUBSET Users]
    /\ crashes \in 0 .. MaxCrashes

Init ==
    /\ jobs = [k \in Keys |-> AbsentRow]
    /\ run = [w \in Workers |-> Idle]
    /\ subject = [s \in Documents |-> "open"]
    /\ resetting = {}
    /\ resets = [k \in Keys |-> 0]
    /\ sent = [k \in Keys |-> [u \in Users |-> 0]]
    /\ handled = [k \in Keys |-> {}]
    /\ crashes = 0

-----------------------------------------------------------------------------
(* Producers: the row is inserted in the transaction of the business write. *)

Insert(k) ==
    /\ jobs[k].status = "ABSENT"
    /\ jobs' = [jobs EXCEPT ![k] = QueuedRow]

\* enqueue_pending_for_approval while the approval stands at the node.
EnqueuePending(n) ==
    /\ subject[n] = "open"
    /\ Insert(<<n, First>>)
    /\ UNCHANGED <<run, subject, resetting, resets, sent, handled, crashes>>

\* enqueue_reminder: a fresh key each time.
EnqueueReminder(n, x) ==
    /\ subject[n] = "open"
    /\ Insert(<<n, x>>)
    /\ UNCHANGED <<run, subject, resetting, resets, sent, handled, crashes>>

\* enqueue_approved / _rejected / _cancelled / _issued.
EnqueueOutcome(s) ==
    /\ subject[s] = "open"
    /\ Insert(<<s, First>>)
    /\ UNCHANGED <<run, subject, resetting, resets, sent, handled, crashes>>

\* enqueue_business_event: in the caller's transaction, or in one of its own
\* after the commit (queue_committed), and then a failure loses it.
EnqueueBusinessEvent(e) ==
    /\ Insert(<<e, First>>)
    /\ UNCHANGED <<run, subject, resetting, resets, sent, handled, crashes>>

\* requeue_pending reads the row without a lock and chooses what to do.  A
\* QUEUED or RUNNING row is returned as it is, which changes nothing.
RequeuePending(n) ==
    /\ subject[n] = "open"
    /\ LET row == jobs[<<n, First>>]
       IN  \/ /\ row.status = "ABSENT"
              /\ Insert(<<n, First>>)
              /\ UNCHANGED resetting
           \/ /\ row.status \in {"FAILED", "EXHAUSTED"}
              /\ resets[<<n, First>>] < MaxResets
              /\ n \notin resetting
              /\ resetting' = resetting \cup {n}
              /\ UNCHANGED jobs
           \/ /\ row.status \in {"COMPLETED", "SKIPPED"}
              /\ \E x \in Uuids : Insert(<<n, x>>)
              /\ UNCHANGED resetting
    /\ UNCHANGED <<run, subject, resets, sent, handled, crashes>>

\* reset_for_retry locks the row but does not look at its status again.
ResetForRetry(n) ==
    /\ n \in resetting
    /\ jobs' = [jobs EXCEPT ![<<n, First>>] = QueuedRow]
    /\ resets' = [resets EXCEPT ![<<n, First>>] = @ + 1]
    /\ resetting' = resetting \ {n}
    /\ handled' = [handled EXCEPT ![<<n, First>>] = {}]
    /\ UNCHANGED <<run, subject, sent, crashes>>

-----------------------------------------------------------------------------
(* run(): unlocked read, claim or finalize, delivery, record. *)

\* The unlocked read.  A terminal row ends the run with its stored result.
Begin(w, k) ==
    /\ run[w].pc = "idle"
    /\ jobs[k].status \notin Terminal \cup {"ABSENT"}
    /\ run' = [run EXCEPT ![w] =
                 Started(k, IF jobs[k].attempts >= MaxAttempts THEN "finalize" ELSE "claim")]
    /\ UNCHANGED <<jobs, subject, resetting, resets, sent, handled, crashes>>

\* kick: an asyncio task for a request somebody holds, whatever its state now.
Kick(w, k) == Begin(w, k)

\* recover_once: the scan selects the row, then runs it.
Recover(w, k) == Recoverable(jobs[k]) /\ Begin(w, k)

\* claim_for_execution; anything not claimable ends the run as BUSY.
Claim(w) ==
    /\ run[w].pc = "claim"
    /\ LET k == run[w].key
       IN  \/ /\ Claimable(jobs[k])
              /\ jobs' = [jobs EXCEPT ![k] = Claimed(@, w)]
              /\ run' = [run EXCEPT ![w] = [@ EXCEPT !.pc = "deliver",
                                                     !.tries = jobs[k].attempts + 1]]
           \/ /\ ~Claimable(jobs[k])
              /\ run' = [run EXCEPT ![w] = Idle]
              /\ UNCHANGED jobs
    /\ UNCHANGED <<subject, resetting, resets, sent, handled, crashes>>

\* finalize_retries_exhausted; a live lease or a reset row ends it as BUSY.
FinalizeExhausted(w) ==
    /\ run[w].pc = "finalize"
    /\ LET k == run[w].key
       IN  jobs' = IF SpentAndFree(jobs[k])
                   THEN [jobs EXCEPT ![k] = Closed(@, "EXHAUSTED")]
                   ELSE jobs
    /\ run' = [run EXCEPT ![w] = Idle]
    /\ UNCHANGED <<subject, resetting, resets, sent, handled, crashes>>

\* _pending_skip_reason and _rebuild_card: the document is gone, or the
\* approval is no longer PENDING at the node the notification was about.  A
\* business event is branched off before either is asked.  The code's other two
\* reasons, no recipients and an unknown event, do not occur: no row without
\* recipients is stored, and every event the producers name has its sender.
SkipReason(k) ==
    /\ Subject(k) \in Documents
    /\ \/ subject[Subject(k)] = "deleted"
       \/ subject[Subject(k)] = "moved" /\ Subject(k) \in Nodes

CheckSubject(w) ==
    /\ run[w].pc = "deliver"
    /\ run' = [run EXCEPT ![w] =
                 IF SkipReason(run[w].key)
                 THEN [@ EXCEPT !.pc = "record", !.skip = TRUE]
                 ELSE [@ EXCEPT !.pc = "send", !.todo = Users]]
    /\ UNCHANGED <<jobs, subject, resetting, resets, sent, handled, crashes>>

\* send_to_users awaits one recipient; what send_to_user raises is counted
\* and logged, never propagated.
SendTo(w, u) ==
    /\ run[w].pc = "send"
    /\ u \in run[w].todo
    /\ LET k == run[w].key
       IN  /\ \/ sent' = [sent EXCEPT ![k][u] = @ + 1]
              \/ UNCHANGED sent
           /\ handled' = [handled EXCEPT ![k] = @ \cup {u}]
    /\ run' = [run EXCEPT ![w].todo = @ \ {u}]
    /\ UNCHANGED <<jobs, subject, resetting, resets, crashes>>

SendDone(w) ==
    /\ run[w].pc = "send"
    /\ run[w].todo = {}
    /\ run' = [run EXCEPT ![w].pc = "record"]
    /\ UNCHANGED <<jobs, subject, resetting, resets, sent, handled, crashes>>

\* _deliver raises: unknown adapter, a database error while the card is built.
DeliverRaises(w) ==
    /\ run[w].pc = "deliver"
    /\ run' = [run EXCEPT ![w].pc = "fail"]
    /\ UNCHANGED <<jobs, subject, resetting, resets, sent, handled, crashes>>

\* mark_completed_if_lease_owner, LEASE_LOST otherwise.
RecordOutcome(w) ==
    /\ run[w].pc = "record"
    /\ LET k == run[w].key
           outcome == IF run[w].skip THEN "SKIPPED" ELSE "COMPLETED"
       IN  jobs' = IF OwnsLease(jobs[k], w)
                   THEN [jobs EXCEPT ![k] = Closed(@, outcome)]
                   ELSE jobs
    /\ run' = [run EXCEPT ![w] = Idle]
    /\ UNCHANGED <<subject, resetting, resets, sent, handled, crashes>>

LastAttempt(tries) == tries >= MaxAttempts

\* _record_failure decides by the attempt number read at the claim.
RecordFailure(w) ==
    /\ run[w].pc = "fail"
    /\ LET k == run[w].key
       IN  jobs' = IF ~OwnsLease(jobs[k], w) THEN jobs
                   ELSE IF LastAttempt(run[w].tries)
                   THEN [jobs EXCEPT ![k] = Closed(@, "EXHAUSTED")]
                   ELSE [jobs EXCEPT ![k] = RetryLater(@)]
    /\ run' = [run EXCEPT ![w] = Idle]
    /\ UNCHANGED <<subject, resetting, resets, sent, handled, crashes>>

-----------------------------------------------------------------------------
(* The environment: time, crashes, and the life of the business document. *)

LeaseExpires(k) ==
    /\ jobs[k].live
    /\ jobs' = [jobs EXCEPT ![k].live = FALSE]
    /\ UNCHANGED <<run, subject, resetting, resets, sent, handled, crashes>>

RetryDue(k) ==
    /\ jobs[k].status = "FAILED"
    /\ ~jobs[k].due
    /\ jobs' = [jobs EXCEPT ![k].due = TRUE]
    /\ UNCHANGED <<run, subject, resetting, resets, sent, handled, crashes>>

\* The process dies or the task is cancelled; only the database survives.
Crash(w) ==
    /\ run[w].pc # "idle"
    /\ crashes < MaxCrashes
    /\ crashes' = crashes + 1
    /\ run' = [run EXCEPT ![w] = Idle]
    /\ UNCHANGED <<jobs, subject, resetting, resets, sent, handled>>

\* The approval is decided or advances, or the document is deleted.
SubjectChanges(s) ==
    /\ \/ subject[s] = "open" /\ subject' = [subject EXCEPT ![s] = "moved"]
       \/ subject[s] # "deleted" /\ subject' = [subject EXCEPT ![s] = "deleted"]
    /\ UNCHANGED <<jobs, run, resetting, resets, sent, handled, crashes>>

-----------------------------------------------------------------------------
Next ==
    \/ \E n \in Nodes : \/ EnqueuePending(n)
                        \/ RequeuePending(n)
                        \/ ResetForRetry(n)
                        \/ \E x \in Uuids : EnqueueReminder(n, x)
    \/ \E s \in Outcomes : EnqueueOutcome(s)
    \/ \E e \in Events : EnqueueBusinessEvent(e)
    \/ \E w \in Workers, k \in Keys : Kick(w, k) \/ Recover(w, k)
    \/ \E w \in Workers : \/ Claim(w)
                          \/ FinalizeExhausted(w)
                          \/ CheckSubject(w)
                          \/ \E u \in Users : SendTo(w, u)
                          \/ SendDone(w)
                          \/ DeliverRaises(w)
                          \/ RecordOutcome(w)
                          \/ RecordFailure(w)
                          \/ Crash(w)
    \/ \E k \in Keys : LeaseExpires(k) \/ RetryDue(k)
    \/ \E s \in Documents : SubjectChanges(s)

Spec == Init /\ [][Next]_vars

\* A started run goes on: database calls return and every HTTP call to Feishu
\* has a 20 s timeout.
RunProgress(w) ==
    \/ Claim(w) \/ FinalizeExhausted(w) \/ CheckSubject(w) \/ SendDone(w)
    \/ (\E u \in Users : SendTo(w, u)) \/ RecordOutcome(w) \/ RecordFailure(w)

\* Kicks are best effort, so nothing is assumed of them.  The recovery loop
\* scans every interval for as long as the server runs, and clocks advance.
Fairness ==
    /\ \A w \in Workers : WF_vars(RunProgress(w))
    /\ \A k \in Keys : /\ WF_vars(\E w \in Workers : Recover(w, k))
                       /\ WF_vars(LeaseExpires(k))
                       /\ WF_vars(RetryDue(k))

FairSpec == Spec /\ Fairness

-----------------------------------------------------------------------------
(* Properties *)

\* While a worker executes a job and still holds its lease, the attempt number
\* it read at the claim is the row's: _record_failure decides between retrying
\* and exhausting on that copy, long after the row could have been reset and
\* claimed again by somebody else.
AttemptSnapshotCurrent ==
    \A w \in Workers :
        run[w].pc \in Delivering =>
            \A k \in Keys : run[w].key = k /\ jobs[k].status = "RUNNING" /\ jobs[k].owner = w
                             => jobs[k].attempts = run[w].tries

\* A notification is given up only after all its attempts were made, whichever
\* of the two code paths gives it up.
ExhaustedOnlyWhenSpent ==
    \A k \in Keys : jobs[k].status = "EXHAUSTED" => jobs[k].attempts = MaxAttempts

\* A completed notification was tried for every recipient since it was last
\* queued (RecordOutcome): a run that finished its sends before a resend queued
\* the row afresh cannot close it in the name of the runs that come after.
CompletedWasHandedOver ==
    \A k \in Keys : jobs[k].status = "COMPLETED" => handled[k] = Users

\* The number of copies one recipient can get of one notification: delivery
\* precedes the record, so lapsed leases, crashes and stale runs repeat it, but
\* never more often than attempts were claimed since each reset.
CopiesBounded ==
    \A k \in Keys, u \in Users : sent[k][u] <= MaxAttempts * (1 + resets[k])

\* A row under a live lease changes only at the hand of its holder, by the
\* expiry of the lease, or by a requeue that read the row before the claim.
LiveLeaseRespected ==
    [][\A k \in Keys : jobs[k].live /\ jobs'[k] # jobs[k] =>
          \/ \E w \in Workers : /\ jobs[k].owner = w
                                /\ run[w].key = k
                                /\ run[w].pc \in {"record", "fail"}
                                /\ run'[w] = Idle
          \/ jobs'[k] = [jobs[k] EXCEPT !.live = FALSE]
          \/ k[1] \in resetting /\ k[1] \notin resetting' /\ k[2] = First]_vars

\* A finished notification is never run or recorded again, except that a
\* requeue makes it wait afresh with all attempts back.
SettledUntilRequeued ==
    [][\A k \in Keys : jobs[k].status \in Terminal /\ jobs'[k] # jobs[k] =>
          jobs'[k] = QueuedRow /\ resets'[k] = resets[k] + 1]_vars

\* Every accepted notification is eventually completed, skipped or exhausted,
\* whatever kicks are lost and wherever runs die (durable recovery remains
\* authoritative, outbound_notification_job_service.py:421).
EveryJobSettles ==
    \A k \in Keys : jobs[k].status # "ABSENT" ~> jobs[k].status \in Terminal

\* tests/unit/test_outbound_notification_job_service.py:353 expects a delivery
\* that fails because Feishu is unavailable to be retried and then exhausted:
\* a completed notification reached somebody.
OutageIsRetried ==
    \A k \in Keys : jobs[k].status = "COMPLETED" => \E u \in Users : sent[k][u] > 0

-----------------------------------------------------------------------------
(* The outbox implements the abstract durable job. *)

AbstractPhase(row) ==
    CASE row.status = "ABSENT"             -> "none"
      [] row.status \in {"QUEUED", "FAILED"} -> "open"
      [] row.status = "RUNNING"            -> "held"
      [] OTHER                             -> "closed"

AbstractJob ==
    [k \in Keys |-> [phase  |-> AbstractPhase(jobs[k]),
                     holder |-> jobs[k].owner,
                     tries  |-> jobs[k].attempts]]

AbstractTicket ==
    [w \in Workers |-> IF run[w].pc \in Delivering THEN run[w].key ELSE NoKey]

Durable == INSTANCE DurableJob
             WITH Jobs <- Keys, NoJob <- NoKey, job <- AbstractJob, ticket <- AbstractTicket

\* The outbox is a durable job table: only the execution holding a job closes
\* it or gives it back, and at most MaxAttempts executions start per opening.
ImplementsDurableJob == Durable!Spec
=============================================================================
