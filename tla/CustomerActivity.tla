-------------------------- MODULE CustomerActivity --------------------------
(***************************************************************************)
(* A customer activity and its background structuring and scoring:         *)
(* services/customer_activity_write_service.py (create, finalize, delete), *)
(* services/customer_activity_ai_job_service.py (run), crud/               *)
(* customer_activity.py and crud/customer_activity_ai_job.py.              *)
(*                                                                         *)
(* MySQL runs these transactions under REPEATABLE READ.  A plain SELECT    *)
(* reads the snapshot of the transaction's first read, a locking SELECT    *)
(* reads the current row; run().seen is the activity revision such a       *)
(* snapshot holds.  Everything from the first lock to the commit is one    *)
(* step.  processing_status and effectiveness_status always move together. *)
(* A row's status RETRY_PENDING is LeasedJob's "FAILED".                   *)
(***************************************************************************)
EXTENDS LeasedJob, FiniteSets

CONSTANTS
    Activities,
    NoActivity,
    MaxRevision,  \* bound: activity_revision
    MaxCrashes    \* bound: runs that die

ASSUME ActivityAssumption ==
    /\ NoActivity \notin Activities
    /\ MaxRevision \in Nat \ {0}
    /\ MaxCrashes \in Nat

VARIABLES
    activity,  \* the rows of crm_customer_activities
    ai,        \* the structuring job of each activity's first revision
    post,      \* the post-commit job of each revision of each activity
    answer,    \* to the last repeated submission of each form
    run,       \* what each worker's run() holds in its local variables
    crashes

vars == <<activity, ai, post, answer, run, crashes>>

Revisions == 1 .. MaxRevision

\* The activity_revision an AI job is enqueued for.
JobRevision == 1

Source == {"none", "FORM", "AGENT", "ASSISTANT_2"}

\* processing_status, and whether the row exists.
State == {"none", "PENDING", "PROCESSING", "COMPLETED", "FAILED", "deleted"}

Executing == {"compute", "finalize", "write", "skip", "fail", "record"}

Run == [pc : {"idle", "claim", "terminalize"} \cup Executing,
        key : Activities \cup {NoActivity},
        seen : 0 .. MaxRevision,      \* 0: the snapshot has no such activity
        tries : 0 .. MaxAttempts]

Idle == [pc |-> "idle", key |-> NoActivity, seen |-> 0, tries |-> 0]

TypeOK ==
    /\ activity \in [Activities -> [state : State, source : Source, revision : Revisions]]
    /\ ai \in [Activities -> Row]
    /\ post \in [Activities -> [Revisions -> Row]]
    /\ answer \in [Activities -> {"none", "replayed", "conflict"}]
    /\ run \in [Workers -> Run]
    /\ \A w \in Workers : run[w].pc # "idle" => run[w].key \in Activities
    /\ crashes \in 0 .. MaxCrashes

Init ==
    /\ activity = [a \in Activities |->
                      [state |-> "none", source |-> "none", revision |-> JobRevision]]
    /\ ai = [a \in Activities |-> AbsentRow]
    /\ post = [a \in Activities |-> [r \in Revisions |-> AbsentRow]]
    /\ answer = [a \in Activities |-> "none"]
    /\ run = [w \in Workers |-> Idle]
    /\ crashes = 0

Live(a) == activity[a].state \notin {"none", "deleted"}

\* What a transaction that starts now will see of the activity.
Snapshot(a) == IF Live(a) THEN activity[a].revision ELSE 0

Unfinished(row) == row.status \notin Terminal \cup {"ABSENT"}

-----------------------------------------------------------------------------
(* Saving and deleting. *)

Save(a, source, state) ==
    /\ activity[a].state = "none"
    /\ activity' = [activity EXCEPT ![a] = [state |-> state, source |-> source,
                                            revision |-> JobRevision]]

\* enqueue returns the job of this revision, or inserts one.
EnqueuePost(a, r) ==
    post' = IF post[a][r].status = "ABSENT" THEN [post EXCEPT ![a][r] = QueuedRow] ELSE post

\* The raw form content is committed with its AI job.
CreatePendingFromForm(a) ==
    /\ Save(a, "FORM", "PENDING")
    /\ ai' = [ai EXCEPT ![a] = QueuedRow]
    /\ UNCHANGED <<post, answer, run, crashes>>

\* The same form arrives again.  It is answered with the activity and the AI
\* job of its revision, which is kicked; without such a job it is refused.
Resubmit(a) ==
    /\ Live(a)
    /\ activity[a].source = "FORM"
    /\ answer' = [answer EXCEPT ![a] = IF activity[a].revision = JobRevision
                                       THEN "replayed" ELSE "conflict"]
    /\ UNCHANGED <<activity, ai, post, run, crashes>>

CreateFinalFromAgent(a) ==
    /\ Save(a, "AGENT", "COMPLETED")
    /\ EnqueuePost(a, JobRevision)
    /\ UNCHANGED <<ai, answer, run, crashes>>

\* Neither an AI job nor a post-commit job.
CreateFinalFromAssistant2(a) ==
    /\ Save(a, "ASSISTANT_2", "COMPLETED")
    /\ UNCHANGED <<ai, post, answer, run, crashes>>

\* Mutant: rows under a lease are left to their worker.
SkippedUnlessRunning(row) ==
    IF Unfinished(row) /\ row.status # "RUNNING" THEN Closed(row, "SKIPPED") ELSE row

\* mark_unfinished_skipped_for_activity
SkippedIfUnfinished(row) == IF Unfinished(row) THEN Closed(row, "SKIPPED") ELSE row

\* The activity row is locked first, then its jobs; all are committed together.
Delete(a) ==
    /\ Live(a)
    /\ activity' = [activity EXCEPT ![a].state = "deleted"]
    /\ ai' = [ai EXCEPT ![a] = SkippedIfUnfinished(@)]
    /\ post' = [post EXCEPT ![a] = [r \in Revisions |-> SkippedIfUnfinished(@[r])]]
    /\ UNCHANGED <<answer, run, crashes>>

-----------------------------------------------------------------------------
(* run(): peek without a lock, claim, compute, finalize or record. *)

\* The first read of run() is not locking and fixes the snapshot.  A job that
\* is not terminal in it goes on to be claimed, or to be given up.
Peek(w, a) ==
    /\ run[w].pc = "idle"
    /\ Unfinished(ai[a])
    /\ run' = [run EXCEPT ![w] = [pc    |-> IF ai[a].attempts >= MaxAttempts
                                            THEN "terminalize" ELSE "claim",
                                  key   |-> a,
                                  seen  |-> Snapshot(a),
                                  tries |-> 0]]
    /\ UNCHANGED <<activity, ai, post, answer, crashes>>

\* Mutant: the scan leaves running rows alone.
RecoveryCandidateNotRunning(row) ==
    row.status = "QUEUED" \/ (row.status = "FAILED" /\ row.due)

\* list_system_recovery_candidates: spent rows are listed too.
RecoveryCandidate(row) ==
    row.status = "QUEUED" \/ (row.status = "FAILED" /\ row.due) \/ Lapsed(row)

\* kick: an asyncio task for a request somebody holds, whatever its state now.
Kick(w, a) == Peek(w, a)

Recover(w, a) == RecoveryCandidate(ai[a]) /\ Peek(w, a)

Stop(w) == run' = [run EXCEPT ![w] = Idle]
Goto(w, pc) == run' = [run EXCEPT ![w].pc = pc]

\* An ORM write of the status of an activity that was read from a snapshot: it
\* is made if the snapshot shows the job's revision.  Other columns, and what
\* happened to this one since the snapshot, are not looked at.
MarkIfSeen(w, a, state) ==
    activity' = IF run[w].seen = JobRevision /\ Live(a)
                THEN [activity EXCEPT ![a].state = state] ELSE activity

\* The clock is read before the peek; the model lets time go on until the claim.
\* claim_for_execution under the row lock, then the activity as the snapshot
\* shows it: gone or of another revision skips the job in the same commit.
Claim(w) ==
    /\ run[w].pc = "claim"
    /\ LET a == run[w].key
           runs == run[w].seen = JobRevision
       IN  \/ /\ ~Claimable(ai[a])
              /\ Stop(w)
              /\ UNCHANGED <<activity, ai>>
           \/ /\ Claimable(ai[a])
              /\ ai' = [ai EXCEPT ![a] = IF runs THEN Claimed(@, w)
                                         ELSE Closed(Claimed(@, w), "SKIPPED")]
              /\ MarkIfSeen(w, a, "PROCESSING")
              /\ run' = [run EXCEPT ![w] = IF runs
                                           THEN [@ EXCEPT !.pc = "compute", !.tries = ai'[a].attempts]
                                           ELSE Idle]
    /\ UNCHANGED <<post, answer, crashes>>

\* The models structure and score the text, or one of the calls fails.
Compute(w, answered) ==
    /\ run[w].pc = "compute"
    /\ Goto(w, IF answered THEN "finalize" ELSE "fail")
    /\ UNCHANGED <<activity, ai, post, answer, crashes>>

\* finalize_pending_from_ai first reads the activity without a lock.
FinalizeRead(w) ==
    /\ run[w].pc = "finalize"
    /\ LET seen == Snapshot(run[w].key)
       IN  run' = [run EXCEPT ![w].seen = seen,
                              ![w].pc = IF seen = JobRevision THEN "write" ELSE "skip"]
    /\ UNCHANGED <<activity, ai, post, answer, crashes>>

\* Mutant: a late result is taken also after the job was given up.
MayCompleteLate(row, w) == row.status # "SKIPPED"

\* mark_completed_in_transaction raises unless the lease is still held.
MayComplete(row, w) == OwnsLease(row, w)

\* Mutant: the follow-up work is left to a later step.
WriteFinalOnly(a, r) ==
    /\ activity' = [activity EXCEPT ![a].state = "COMPLETED", ![a].revision = r]
    /\ ai' = [ai EXCEPT ![a] = Closed(@, "COMPLETED")]
    /\ UNCHANGED post

\* The final content, the post-commit job of its revision and the completion
\* of the AI job are committed together.
WriteFinal(a, r) ==
    /\ activity' = [activity EXCEPT ![a].state = "COMPLETED", ![a].revision = r]
    /\ ai' = [ai EXCEPT ![a] = Closed(@, "COMPLETED")]
    /\ EnqueuePost(a, r)

\* The row is locked and written whatever its revision is now; the revision
\* grows if a field the follow-up work reads has changed.  A row that is gone,
\* a lost lease and a database error roll everything back.
FinalizeWrite(w) ==
    /\ run[w].pc = "write"
    /\ LET a == run[w].key
       IN  \/ /\ Live(a)
              /\ MayComplete(ai[a], w)
              /\ \E r \in Revisions : /\ r - activity[a].revision \in {0, 1}
                                      /\ WriteFinal(a, r)
              /\ Stop(w)
           \/ /\ Goto(w, "fail")
              /\ UNCHANGED <<activity, ai, post>>
    /\ UNCHANGED <<answer, crashes>>

\* _skip_after_compute: gone or superseded while the models were computing.
RecordSkip(w) ==
    /\ run[w].pc = "skip"
    /\ LET a == run[w].key
       IN  ai' = IF OwnsLease(ai[a], w) THEN [ai EXCEPT ![a] = Closed(@, "SKIPPED")] ELSE ai
    /\ Stop(w)
    /\ UNCHANGED <<activity, post, answer, crashes>>

\* _record_failure reads the activity before it locks the job.
FailureRead(w) ==
    /\ run[w].pc = "fail"
    /\ run' = [run EXCEPT ![w].seen = Snapshot(run[w].key), ![w].pc = "record"]
    /\ UNCHANGED <<activity, ai, post, answer, crashes>>

Spent(tries) == tries >= MaxAttempts

\* The attempt number is the one read at the claim.
RecordFailure(w) ==
    /\ run[w].pc = "record"
    /\ LET a == run[w].key
       IN  \/ /\ OwnsLease(ai[a], w)
              /\ Spent(run[w].tries)
              /\ ai' = [ai EXCEPT ![a] = Closed(@, "EXHAUSTED")]
              /\ MarkIfSeen(w, a, "FAILED")
           \/ /\ OwnsLease(ai[a], w)
              /\ ~Spent(run[w].tries)
              /\ ai' = [ai EXCEPT ![a] = RetryLater(@)]
              /\ MarkIfSeen(w, a, "PENDING")
           \/ /\ ~OwnsLease(ai[a], w)
              /\ UNCHANGED <<activity, ai>>
    /\ Stop(w)
    /\ UNCHANGED <<post, answer, crashes>>

\* _terminalize_exhausted: finalize_retries_exhausted returns a row that has
\* become terminal since the peek as if it had been given up just now.
Terminalize(w) ==
    /\ run[w].pc = "terminalize"
    /\ LET a == run[w].key
       IN  \/ /\ SpentAndFree(ai[a])
              /\ ai' = [ai EXCEPT ![a] = Closed(@, "EXHAUSTED")]
              /\ MarkIfSeen(w, a, "FAILED")
           \/ /\ ai[a].status \in Terminal
              /\ MarkIfSeen(w, a, "FAILED")
              /\ UNCHANGED ai
           \/ /\ ai[a].live
              /\ UNCHANGED <<activity, ai>>
    /\ Stop(w)
    /\ UNCHANGED <<post, answer, crashes>>

-----------------------------------------------------------------------------
(* Time and crashes. *)

LeaseExpires(a) ==
    /\ ai[a].live
    /\ ai' = [ai EXCEPT ![a].live = FALSE]
    /\ UNCHANGED <<activity, post, answer, run, crashes>>

\* next_attempt_at is reached.
Due(a) ==
    /\ ai[a].status = "FAILED"
    /\ ~ai[a].due
    /\ ai' = [ai EXCEPT ![a].due = TRUE]
    /\ UNCHANGED <<activity, post, answer, run, crashes>>

\* The process dies, the task is cancelled or its database call raises.
Crash(w) ==
    /\ run[w].pc # "idle"
    /\ crashes < MaxCrashes
    /\ crashes' = crashes + 1
    /\ Stop(w)
    /\ UNCHANGED <<activity, ai, post, answer>>

-----------------------------------------------------------------------------
Next ==
    \/ \E a \in Activities : \/ CreatePendingFromForm(a)
                             \/ Resubmit(a)
                             \/ CreateFinalFromAgent(a)
                             \/ CreateFinalFromAssistant2(a)
                             \/ Delete(a)
                             \/ LeaseExpires(a)
                             \/ Due(a)
    \/ \E w \in Workers, a \in Activities : Kick(w, a) \/ Recover(w, a)
    \/ \E w \in Workers : \/ Claim(w)
                          \/ \E b \in BOOLEAN : Compute(w, b)
                          \/ FinalizeRead(w)
                          \/ FinalizeWrite(w)
                          \/ RecordSkip(w)
                          \/ FailureRead(w)
                          \/ RecordFailure(w)
                          \/ Terminalize(w)
                          \/ Crash(w)

Spec == Init /\ [][Next]_vars

\* A started run goes on: database calls return and the model calls time out.
RunProgress(w) ==
    \/ Claim(w) \/ FinalizeRead(w) \/ FinalizeWrite(w) \/ RecordSkip(w)
    \/ FailureRead(w) \/ RecordFailure(w) \/ Terminalize(w)
    \/ \E b \in BOOLEAN : Compute(w, b)

\* Kicks are best effort.  The recovery loop runs for as long as the server
\* does, and clocks advance.
Fairness ==
    /\ \A w \in Workers : WF_vars(RunProgress(w))
    /\ \A a \in Activities : /\ WF_vars(\E w \in Workers : Recover(w, a))
                             /\ WF_vars(LeaseExpires(a))
                             /\ WF_vars(Due(a))

FairSpec == Spec /\ Fairness

-----------------------------------------------------------------------------
(* Properties *)

PostRevisions(a) == {r \in Revisions : post[a][r].status # "ABSENT"}

\* Follow-up work is registered exactly once, for the final content and no
\* other revision of it: with the completion of the AI job of a form activity,
\* with an agent's activity, and never for an Assistant 2.0 activity, whatever
\* workers overlap (customer-activity-workflow-parity-spec.md:740-744).
FollowUpMatchesFinalization ==
    \A a \in Activities :
        PostRevisions(a) =
            IF activity[a].source = "AGENT" \/ ai[a].status = "COMPLETED"
            THEN {activity[a].revision} ELSE {}

\* While the AI job is not terminal the activity shows its progress, and an
\* exhausted job shows as failed: the table of parity-spec.md:404-410, across
\* lost leases, retries and failures that are reported late.
StateMirrorsJob ==
    \A a \in Activities : Live(a) =>
        CASE ai[a].status \in {"QUEUED", "FAILED"} -> activity[a].state = "PENDING"
          [] ai[a].status = "RUNNING"              -> activity[a].state = "PROCESSING"
          [] ai[a].status = "EXHAUSTED"            -> activity[a].state = "FAILED"
          [] OTHER                                 -> ai[a].status # "SKIPPED"

\* Deletion is the last thing that happens to an activity: no run that was
\* computing, about to write or about to record a failure touches its rows.
NoWriteAfterDeletion ==
    [][\A a \in Activities : activity[a].state = "deleted" =>
          activity'[a] = activity[a] /\ ai'[a] = ai[a] /\ post'[a] = post[a]]_vars

\* A form activity does not stay PENDING or PROCESSING for ever, even if its
\* runs die, lose their lease, or fail on the last attempt.
FormActivitySettles ==
    \A a \in Activities :
        activity[a].state \in {"PENDING", "PROCESSING"}
            ~> activity[a].state \in {"COMPLETED", "FAILED", "deleted"}

\* parity-spec.md:726 calls an AI job that is COMPLETED while its activity has
\* no final result a broken transaction invariant.
CompletedStaysCompleted ==
    [][\A a \in Activities : activity[a].state = "COMPLETED" =>
          activity'[a].state \in {"COMPLETED", "deleted"}]_vars

\* The same form sent again returns the same activity and the same AI job
\* (parity-spec.md:500), whatever has become of the activity in between.
ResubmissionIsReplayed == \A a \in Activities : answer[a] # "conflict"

-----------------------------------------------------------------------------
(* The pipeline implements the promise. *)

AbstractStage ==
    [a \in Activities |->
        IF activity[a].state = "none" THEN "none"
        ELSE IF activity[a].state = "deleted" THEN "gone"
        ELSE IF activity[a].source # "FORM" \/ ai[a].status = "COMPLETED" THEN "final"
        ELSE IF ai[a].status = "EXHAUSTED" THEN "given up"
        ELSE "draft"]

AbstractFollowUp ==
    [a \in Activities |->
        IF PostRevisions(a) = {} THEN "none"
        ELSE IF \E r \in Revisions : Unfinished(post[a][r]) THEN "due" ELSE "closed"]

Promise == INSTANCE ActivityPromise WITH stage <- AbstractStage, followUp <- AbstractFollowUp

\* By the jobs' own account every activity keeps the promise, although its
\* status column may say otherwise (CompletedStaysCompleted).
ImplementsPromise == Promise!Spec
=============================================================================
