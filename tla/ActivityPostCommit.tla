------------------------- MODULE ActivityPostCommit -------------------------
(***************************************************************************)
(* What follows the saving of a final customer activity: one durable job,  *)
(* services/customer_activity_post_commit_job_service.py, runs the graph   *)
(* of customer_activity_post_commit_workflow.py, which projects the        *)
(* activity's next step as a follow-up task, asks a model which older task *)
(* of the customer the activity settles, and closes that task or opens a   *)
(* confirmation case about it.  Meanwhile a user may close that task,      *)
(* answer the case or delete the activity.                                 *)
(*                                                                         *)
(* One activity, one older task, one job.  The activity has a next step    *)
(* with a date, and its revision does not change: a changed revision gets  *)
(* a job of its own and is fenced here exactly as a deletion is.           *)
(*                                                                         *)
(* Each node of the graph is a transaction under REPEATABLE READ: it reads *)
(* the tasks from the snapshot of its first read, but writes them when it  *)
(* holds the lock of the activity.  The graph engine saves the state after *)
(* each node under the job's thread id; it is external, and when a thread  *)
(* is invoked again it may go on where it stopped or start over, in either *)
(* case with the saved values of all fields the input does not set.        *)
(***************************************************************************)
EXTENDS LeasedJob

CONSTANTS
    MaxCrashes,   \* bound: runs that die
    UserActs      \* what the user may do: a subset of {"close", "reply", "delete"}

ASSUME PostCommitAssumption ==
    /\ MaxCrashes \in Nat
    /\ UserActs \subseteq {"close", "reply", "delete"}

VARIABLES
    activity,   \* "live" or "deleted"
    job,        \* the row of crm_customer_activity_post_commit_jobs
    nextTask,   \* the follow-up task projected from the activity
    task,       \* an older follow-up task of the customer
    closings,   \* COMPLETED events recorded for it
    case,       \* the confirmation case that asks about it
    thread,     \* the saved state of the job's graph
    run,        \* what each worker's run() holds in its local variables
    user,       \* what the user's request holds
    crashes

vars == <<activity, job, nextTask, task, closings, case, thread, run, user, crashes>>

rows == <<activity, nextTask, task, closings, case>>

Nodes == {"load", "project", "match", "execute", "cases", "deliver"}

\* match_result and transition_plan: not asked yet, nothing to do with the
\* task, close it, or ask its owner.
Plan == {"unasked", "none", "close", "ask"}

\* error stands for error_message, skip for skip_reason, fenced for
\* revision_fence_failures.
Graph == [at : Nodes \cup {"finish"}, plan : Plan, error : BOOLEAN,
          skip : BOOLEAN, fenced : BOOLEAN]

NewGraph == [at |-> "load", plan |-> "unasked", error |-> FALSE,
             skip |-> FALSE, fenced |-> FALSE]

NextStatus == {"none", "OPEN", "CANCELLED"}
TaskStatus == {"OPEN", "COMPLETED"}
Snapshot == [next : NextStatus, task : TaskStatus]

Run == [pc : {"idle", "claim", "terminalize", "start", "enter", "finish", "fail"} \cup Nodes,
        tries : 0 .. MaxAttempts,
        g : Graph,
        failed : BOOLEAN,           \* this run() has asked the model in vain
        sees : Snapshot]

Idle == [pc |-> "idle", tries |-> 0, g |-> NewGraph, failed |-> FALSE,
         sees |-> [next |-> "none", task |-> "OPEN"]]

TypeOK ==
    /\ activity \in {"live", "deleted"}
    /\ job \in Row
    /\ nextTask \in NextStatus
    /\ task \in TaskStatus
    /\ closings \in Nat
    /\ case \in {"none", "PENDING", "RESOLVED", "CANCELLED"}
    /\ thread \in Graph
    /\ run \in [Workers -> Run]
    /\ user \in [act : UserActs \cup {"none"}, sees : Snapshot]
    /\ crashes \in 0 .. MaxCrashes

Now == [next |-> nextTask, task |-> task]
NoRequest == [act |-> "none", sees |-> Idle.sees]

Init ==
    /\ activity = "live"
    /\ job = QueuedRow
    /\ nextTask = "none"
    /\ task = "OPEN"
    /\ closings = 0
    /\ case = "none"
    /\ thread = NewGraph
    /\ run = [w \in Workers |-> Idle]
    /\ user = NoRequest
    /\ crashes = 0

-----------------------------------------------------------------------------
(* run() up to the graph. *)

Stop(w) == run' = [run EXCEPT ![w] = Idle]
Goto(w, pc) == run' = [run EXCEPT ![w].pc = pc]

\* The first read of run(): a job that is not terminal goes on.
Peek(w) ==
    /\ run[w].pc = "idle"
    /\ job.status \notin Terminal
    /\ Goto(w, IF job.attempts >= MaxAttempts THEN "terminalize" ELSE "claim")
    /\ UNCHANGED <<rows, job, thread, user, crashes>>

\* kick: an asyncio task for the job, in whatever state it is.
Kick(w) == Peek(w)

\* The recovery scheduler runs what its scan lists.
Recover(w) == Recoverable(job) /\ Peek(w)

Claim(w) ==
    /\ run[w].pc = "claim"
    /\ \/ /\ Claimable(job)
          /\ job' = Claimed(job, w)
          /\ run' = [run EXCEPT ![w].pc = "start", ![w].tries = job'.attempts]
       \/ /\ ~Claimable(job)
          /\ Stop(w)
          /\ UNCHANGED job
    /\ UNCHANGED <<rows, thread, user, crashes>>

Terminalize(w) ==
    /\ run[w].pc = "terminalize"
    /\ job' = IF SpentAndFree(job) THEN Closed(job, "EXHAUSTED") ELSE job
    /\ Stop(w)
    /\ UNCHANGED <<rows, thread, user, crashes>>

\* The activity is read again after the claim; without it the job is skipped,
\* if the lease is still held.  Otherwise the graph is invoked.
Start(w) ==
    /\ run[w].pc = "start"
    /\ \/ /\ activity = "deleted"
          /\ job' = IF OwnsLease(job, w) THEN Closed(job, "SKIPPED") ELSE job
          /\ Stop(w)
       \/ /\ activity = "live"
          /\ \E at \in {"load", thread.at} :
                run' = [run EXCEPT ![w].pc = "enter", ![w].g = [thread EXCEPT !.at = at]]
          /\ UNCHANGED job
    /\ UNCHANGED <<rows, thread, user, crashes>>

-----------------------------------------------------------------------------
(* The nodes of the graph. *)

\* The engine saves the state and enters the next node, whose first read fixes
\* its snapshot.
Enter(w) ==
    /\ run[w].pc = "enter"
    /\ thread' = run[w].g
    /\ run' = [run EXCEPT ![w].pc = run[w].g.at, ![w].sees = Now]
    /\ UNCHANGED <<rows, job, user, crashes>>

\* The node returns its part of the state.
Leave(w, g) == run' = [run EXCEPT ![w].pc = "enter", ![w].g = g, ![w].sees = Idle.sees]

\* Mutant: the activity is not looked at under the lock.
FenceNeverCloses == TRUE

\* lock_for_mutation: the locked read finds the activity at its revision.
FenceAllows == activity = "live"

Fenced(g, next) == [g EXCEPT !.fenced = TRUE, !.at = next]

\* _load_activity and _route_after_load_activity: the route looks at the
\* field, whoever has set it.
Load(w) ==
    /\ run[w].pc = "load"
    /\ LET g == run[w].g
           skip == g.skip \/ activity = "deleted"
       IN  Leave(w, [g EXCEPT !.skip = skip, !.at = IF skip THEN "finish" ELSE "project"])
    /\ UNCHANGED <<rows, job, thread, user, crashes>>

\* _project_next_step: a task the snapshot does not show is inserted; a row
\* with its hash makes that fail, and so may anything else.  The failure is
\* recorded as a projection run and the graph goes on.
Project(w) ==
    /\ run[w].pc = "project"
    /\ LET g == run[w].g
       IN  \/ /\ FenceAllows
              /\ nextTask' \in {nextTask} \cup
                    (IF run[w].sees.next = "none" /\ nextTask = "none" THEN {"OPEN"} ELSE {})
              /\ Leave(w, [g EXCEPT !.at = "match"])
           \/ /\ ~FenceAllows
              /\ Leave(w, Fenced(g, "match"))
              /\ UNCHANGED nextTask
    /\ UNCHANGED <<activity, task, closings, case, job, thread, user, crashes>>

\* What the model can be led to plan for a task the snapshot shows as open;
\* without one it is not called.
Plans(sees) == IF sees.task = "OPEN" THEN {"none", "close", "ask"} ELSE {"none"}

\* _match_and_plan_historical_tasks: an unavailable model sets error_message
\* and skip_reason, and the edges lead on through the other nodes.
Match(w) ==
    /\ run[w].pc = "match"
    /\ LET g == [run[w].g EXCEPT !.at = "execute", !.plan = "none"]
       IN  \/ /\ ~g.fenced
              /\ run' = [run EXCEPT ![w] = [@ EXCEPT !.pc = "enter", !.sees = Idle.sees, !.failed = TRUE,
                                            !.g = [g EXCEPT !.skip = TRUE, !.error = TRUE]]]
           \/ /\ ~g.fenced /\ FenceAllows
              /\ \E plan \in Plans(run[w].sees) : Leave(w, [g EXCEPT !.plan = plan])
           \/ /\ g.fenced \/ ~FenceAllows
              /\ Leave(w, Fenced(g, "execute"))
    /\ UNCHANGED <<rows, job, thread, user, crashes>>

\* transition_plan is there, also when it has no action in it.
HasPlan(g) == ~g.fenced /\ ~g.error /\ g.plan # "unasked"

\* cancel_pending_cases_*: cases that are not pending are not touched.
CaseWithdrawn == IF case = "PENDING" THEN "CANCELLED" ELSE case

\* Mutant: pending cases about the task are left alone.
CloseTaskOnly ==
    /\ task' = "COMPLETED"
    /\ closings' = closings + 1
    /\ UNCHANGED case

\* execute_action on a task that was read as open: it is written without
\* being read again, an event is recorded, its pending case is cancelled.
CloseTask ==
    /\ task' = "COMPLETED"
    /\ closings' = closings + 1
    /\ case' = CaseWithdrawn

\* _execute_transition: only an automatic action on an open task is executed;
\* an exception in it is recorded and the graph goes on.
Execute(w) ==
    /\ run[w].pc = "execute"
    /\ LET g == [run[w].g EXCEPT !.at = "cases"]
           acts == HasPlan(g)
       IN  \/ /\ acts /\ FenceAllows /\ g.plan = "close" /\ run[w].sees.task = "OPEN"
              /\ CloseTask
              /\ Leave(w, g)
           \/ /\ ~acts \/ FenceAllows
              /\ Leave(w, g)
              /\ UNCHANGED <<task, closings, case>>
           \/ /\ acts /\ ~FenceAllows
              /\ Leave(w, [Fenced(g, "cases") EXCEPT !.skip = TRUE])
              /\ UNCHANGED <<task, closings, case>>
    /\ UNCHANGED <<activity, nextTask, job, thread, user, crashes>>

\* create_case_from_plan_action takes over a pending case or inserts one; a
\* closed case of the same content makes the insert fail, of another does not.
\* Then pending cases of the activity that the plan does not ask for are
\* superseded.
CasesAfter(plan) == IF plan = "ask" THEN {case, "PENDING"} ELSE {CaseWithdrawn}

\* _create_confirmation_cases
CreateCases(w) ==
    /\ run[w].pc = "cases"
    /\ LET g == [run[w].g EXCEPT !.at = "deliver"]
           acts == HasPlan(g)
       IN  \/ /\ acts /\ FenceAllows
              /\ case' \in CasesAfter(g.plan)
              /\ Leave(w, g)
           \/ /\ ~acts
              /\ Leave(w, g)
              /\ UNCHANGED case
           \/ /\ acts /\ ~FenceAllows
              /\ Leave(w, [Fenced(g, "deliver") EXCEPT !.skip = TRUE])
              /\ UNCHANGED case
    /\ UNCHANGED <<activity, nextTask, task, closings, job, thread, user, crashes>>

\* _schedule_confirmation_deliveries: the last look at the fence withdraws the
\* activity's cases.  The deliveries are durable rows of their own.
Deliver(w) ==
    /\ run[w].pc = "deliver"
    /\ LET g == [run[w].g EXCEPT !.at = "finish"]
       IN  \/ /\ g.fenced \/ FenceAllows
              /\ Leave(w, g)
              /\ UNCHANGED case
           \/ /\ ~g.fenced /\ ~FenceAllows
              /\ case' = CaseWithdrawn
              /\ Leave(w, [Fenced(g, "finish") EXCEPT !.skip = TRUE])
    /\ UNCHANGED <<activity, nextTask, task, closings, job, thread, user, crashes>>

-----------------------------------------------------------------------------
(* run() after the graph. *)

Spent(tries) == tries >= MaxAttempts

\* What becomes of a job whose attempt has failed.
AfterFailure(tries) == IF Spent(tries) THEN Closed(job, "EXHAUSTED") ELSE RetryLater(job)

\* Mutant: reaching the end of the graph counts as success.
OutcomeOfReaching(g, tries) == Closed(job, "COMPLETED")

\* _result_from_state and the update it leads to.
Outcome(g, tries) ==
    IF g.error THEN AfterFailure(tries)
    ELSE Closed(job, IF g.skip THEN "SKIPPED" ELSE "COMPLETED")

\* The attempt number is the one of the claim; without the lease the result is
\* dropped.
Finish(w) ==
    /\ run[w].pc = "finish"
    /\ job' = IF OwnsLease(job, w) THEN Outcome(run[w].g, run[w].tries) ELSE job
    /\ Stop(w)
    /\ UNCHANGED <<rows, thread, user, crashes>>

\* A node, the engine or its saver raises.
GraphRaises(w) ==
    /\ run[w].pc \in Nodes \cup {"enter"}
    /\ Goto(w, "fail")
    /\ UNCHANGED <<rows, job, thread, user, crashes>>

\* _record_failure
RecordFailure(w) ==
    /\ run[w].pc = "fail"
    /\ job' = IF OwnsLease(job, w) THEN AfterFailure(run[w].tries) ELSE job
    /\ Stop(w)
    /\ UNCHANGED <<rows, thread, user, crashes>>

-----------------------------------------------------------------------------
(* The user: each request reads first and writes under its locks. *)

\* The request's first read fixes its snapshot.
Request(act) ==
    /\ user.act = "none"
    /\ act = "delete" => activity = "live"
    /\ act = "reply" => case = "PENDING"
    /\ act = "close" => task = "OPEN"
    /\ user' = [act |-> act, sees |-> Now]
    /\ UNCHANGED <<rows, job, thread, run, crashes>>

\* create_and_complete_tracking: execute_action inside the user's transaction.
UserCloses ==
    /\ user.act = "close"
    /\ CloseTask
    /\ user' = NoRequest
    /\ UNCHANGED <<activity, nextTask, job, thread, run, crashes>>

\* resolve_reply_and_apply: the case is locked and must still be pending; the
\* task is closed if the snapshot shows it as open, or stays as it is.
UserReplies ==
    /\ user.act = "reply"
    /\ \/ /\ case = "PENDING"
          /\ case' = "RESOLVED"
          /\ \/ /\ user.sees.task = "OPEN"
                /\ task' = "COMPLETED"
                /\ closings' = closings + 1
             \/ UNCHANGED <<task, closings>>
       \/ /\ case # "PENDING"
          /\ UNCHANGED <<task, closings, case>>
    /\ user' = NoRequest
    /\ UNCHANGED <<activity, nextTask, job, thread, run, crashes>>

\* mark_unfinished_skipped_for_activity
JobAfterDeletion == IF job.status \notin Terminal THEN Closed(job, "SKIPPED") ELSE job

\* delete: under the lock of the activity, tasks that the request's snapshot
\* shows as open are cancelled and the job is closed.
UserDeletes ==
    /\ user.act = "delete"
    /\ activity' = "deleted"
    /\ nextTask' = IF user.sees.next = "OPEN" THEN "CANCELLED" ELSE nextTask
    /\ job' = JobAfterDeletion
    /\ user' = NoRequest
    /\ UNCHANGED <<task, closings, case, thread, run, crashes>>

-----------------------------------------------------------------------------
(* Time and crashes. *)

LeaseExpires ==
    /\ job.live
    /\ job' = [job EXCEPT !.live = FALSE]
    /\ UNCHANGED <<rows, thread, run, user, crashes>>

\* next_attempt_at is reached.
Due ==
    /\ job.status = "FAILED"
    /\ ~job.due
    /\ job' = [job EXCEPT !.due = TRUE]
    /\ UNCHANGED <<rows, thread, run, user, crashes>>

\* The process dies or the task is cancelled.
Crash(w) ==
    /\ run[w].pc # "idle"
    /\ crashes < MaxCrashes
    /\ crashes' = crashes + 1
    /\ Stop(w)
    /\ UNCHANGED <<rows, job, thread, user>>

-----------------------------------------------------------------------------
\* A started run goes on: database calls return and model calls time out.
RunProgress(w) ==
    \/ Claim(w) \/ Terminalize(w) \/ Start(w) \/ Enter(w)
    \/ Load(w) \/ Project(w) \/ Match(w) \/ Execute(w) \/ CreateCases(w) \/ Deliver(w)
    \/ Finish(w) \/ RecordFailure(w)

Next ==
    \/ \E w \in Workers : \/ Kick(w)
                          \/ Recover(w)
                          \/ RunProgress(w)
                          \/ GraphRaises(w)
                          \/ Crash(w)
    \/ \E act \in UserActs : Request(act)
    \/ UserCloses
    \/ UserReplies
    \/ UserDeletes
    \/ LeaseExpires
    \/ Due

Spec == Init /\ [][Next]_vars

\* Kicks are best effort.  The recovery loop runs for as long as the server
\* does, and clocks advance.
Fairness ==
    /\ \A w \in Workers : WF_vars(RunProgress(w))
    /\ WF_vars(\E w \in Workers : Recover(w))
    /\ WF_vars(LeaseExpires)
    /\ WF_vars(Due)

FairSpec == Spec /\ Fairness

-----------------------------------------------------------------------------
(* Properties *)

\* The step of a run, as opposed to one of the user.
RunSteps == \E w \in Workers : run'[w] # run[w]

\* From the moment the activity is deleted no run adds or closes a task or
\* opens a case, however far it had come and however long the model took to
\* answer (customer-activity-workflow-parity-spec.md:747).  Withdrawing a case
\* is all it may do.
NoEffectAfterDeletion ==
    [][activity = "deleted" /\ RunSteps =>
          /\ nextTask' = nextTask
          /\ task' = task
          /\ case' \in {case, "CANCELLED"}]_vars

\* A job that ends as completed had the model's answer about the older task,
\* in this attempt or an earlier one, and was not fenced on the way.
CompletedMeansReconciled ==
    [][job'.status = "COMPLETED" /\ job.status # "COMPLETED" =>
          \E w \in Workers : run[w].pc = "finish" /\ HasPlan(run[w].g)]_vars

\* A settled job is settled, also if a run of it comes back late.
SettledIsFinal == [][job.status \in Terminal => job' = job]_vars

\* Deleting the activity ends its background work.
DeletedMeansSettled == activity = "deleted" => job.status \in Terminal

\* Every job reaches an end, although runs die and lose their leases.
JobSettles == job.status \notin Terminal ~> job.status \in Terminal

\* A case is open only about an open task unless a run came too late: when the
\* task is closed, the case that was open about it is withdrawn or answered.
ClosingSettlesTheCase ==
    [][task = "OPEN" /\ task' = "COMPLETED" => case' # "PENDING"]_vars

\* workflow-parity-open-questions.md:940: the follow-up work is retried when it
\* fails.  An attempt that fails over the model has asked the model.
RetryAsksAgain ==
    \A w \in Workers :
        run[w].pc = "finish" /\ run[w].g.error /\ OwnsLease(job, w) => run[w].failed

\* 2026-08-06-sales-commitment-management.md:1104: no task stays open whose
\* activity has been deleted.
NoOrphanedNextStep == activity = "deleted" => nextTask # "OPEN"

\* customer-activity-workflow-parity-spec.md:748: a worker's retry does not
\* repeat what was done.
TaskIsClosedOnce == closings <= 1
=============================================================================
