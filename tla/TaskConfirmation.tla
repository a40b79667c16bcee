--------------------------- MODULE TaskConfirmation ---------------------------
(***************************************************************************)
(* Confirmations of a follow-up task.  When the post-commit workflow of an *)
(* activity finds that a task may be done but is not sure, it raises a     *)
(* case, a question to the task's owner, and sees to its delivery:         *)
(* follow_up_task_confirmation_service.py, ..._application_service.py and  *)
(* ..._cleanup_service.py for the case, follow_up_confirmation_delivery_*  *)
(* with its recovery loop and the prompt deliveries of                     *)
(* crud/sales_commitment.py for the delivery, and                          *)
(* follow_up_task_transition_execution_service.py for what an answer or a  *)
(* user at the task's page does to the task.                               *)
(*                                                                         *)
(* A case belongs to one task and to the activity revision that asks, and  *)
(* moves on to the next activity that asks about the task.  A delivery     *)
(* belongs to a case, to the activity whose workflow scheduled it and to   *)
(* the revision the case had then.                                         *)
(*                                                                         *)
(* Cases and activities are read under locks wherever they are decided on. *)
(* A run that ensures a delivery reads the delivery in a snapshot older    *)
(* than its lock on the case, a user's request reads the task in one.      *)
(***************************************************************************)
EXTENDS Naturals, FiniteSets

CONSTANTS
    Workers,     \* runs of the delivery workflow
    NoWorker,    \* no lease
    Requests,    \* requests of users that are handled at the same time
    Activities,  \* activities that raise cases about the task
    MaxRevision, \* bound: revisions of an activity
    MaxCases,    \* bound: cases, numbered as they are raised
    MaxAttempts, \* FOLLOW_UP_CONFIRMATION_DELIVERY_MAX_ATTEMPTS
    Outcomes     \* what the channel may say to a dispatch

ASSUME ConfirmationAssumption ==
    /\ MaxRevision \in Nat \ {0} /\ MaxCases \in Nat \ {0} /\ MaxAttempts \in Nat \ {0}
    /\ Activities # {}
    /\ NoWorker \notin Workers
    /\ Outcomes \subseteq {"sent", "unnamed", "failed", "skipped"}

VARIABLES
    task,        \* status of the task, COMPLETED and CANCELLED as one
    activity,    \* revision of each activity, 0 when it is deleted
    asked,       \* the cases the workflow of each revision of an activity asked in
    case,        \* the cases
    delivery,    \* the deliveries
    run,         \* what each run holds in local variables
    request      \* what each request asks and has seen

vars == <<task, activity, asked, case, delivery, run, request>>

Cases == 1 .. MaxCases
Revisions == 1 .. MaxRevision
Keys == [case : Cases, origin : Activities, source : Activities, revision : Revisions]

Terminal == {"SENT", "SKIPPED", "EXHAUSTED", "AMBIGUOUS"}
DeliveryStatus == {"NONE", "QUEUED", "FAILED"} \cup Terminal
Answer == {"CLOSE", "POSTPONE", "KEEP_OPEN"}

CaseRecords ==
    [status : {"NONE", "PENDING", "RESOLVED", "CANCELLED", "EXPIRED"}, source : Activities,
     revision : Revisions, lapsed : BOOLEAN, prompts : Nat, application : {"NONE", "APPLIED", "SKIPPED"},
     transitions : Nat]

DeliveryRecords ==
    [status : DeliveryStatus, attempts : 0 .. MaxAttempts, owner : Workers \cup {NoWorker},
     live : BOOLEAN, due : BOOLEAN]

RunRecords == [pc : {"off", "idle", "ensuring", "ensured", "claimed"}, key : Keys, seen : DeliveryStatus]

RequestRecords ==
    [act : {"off", "none", "reply", "transition"}, case : Cases, answer : Answer, open : BOOLEAN]

TypeOK ==
    /\ task \in {"OPEN", "CLOSED"}
    /\ activity \in [Activities -> 0 .. MaxRevision]
    /\ asked \in [Activities -> [Revisions -> SUBSET Cases]]
    /\ case \in [Cases -> CaseRecords]
    /\ delivery \in [Keys -> DeliveryRecords]
    /\ run \in [Workers -> RunRecords]
    /\ request \in [Requests -> RequestRecords]

SomeKey == CHOOSE k \in Keys : TRUE
NoCase == [status |-> "NONE", source |-> SomeKey.source, revision |-> 1, lapsed |-> FALSE,
           prompts |-> 0, application |-> "NONE", transitions |-> 0]
NoDelivery == [status |-> "NONE", attempts |-> 0, owner |-> NoWorker, live |-> FALSE, due |-> TRUE]
IdleRun == [pc |-> "idle", key |-> SomeKey, seen |-> "NONE"]
NoRequest == [act |-> "none", case |-> SomeKey.case, answer |-> "KEEP_OPEN", open |-> FALSE]

\* Activities may have been edited or deleted, cases withdrawn, and any run and
\* request may have no part in a behaviour.
Init ==
    /\ task = "OPEN"
    /\ activity \in [Activities -> 0 .. MaxRevision]
    /\ asked = [a \in Activities |-> [n \in Revisions |-> {}]]
    /\ case \in [Cases -> {NoCase, [NoCase EXCEPT !.status = "CANCELLED"]}]
    /\ delivery = [k \in Keys |-> NoDelivery]
    /\ run \in [Workers -> {IdleRun, [IdleRun EXCEPT !.pc = "off"]}]
    /\ request \in [Requests -> {NoRequest, [NoRequest EXCEPT !.act = "off"]}]

-----------------------------------------------------------------------------
(* Cases. *)

PendingCases == {c \in Cases : case[c].status = "PENDING"}
PendingOf(a) == {c \in PendingCases : case[c].source = a}

\* Mutant: cases are left to those that find them out of date.
Spared(cases) == case

\* cancel_pending_cases_for_*, supersede_pending_cases_for_source_activity
Cancelled(cases) ==
    [c \in Cases |-> IF c \in cases THEN [case[c] EXCEPT !.status = "CANCELLED"] ELSE case[c]]

\* _create_confirmation_cases for a decision that asks: the activity, the task
\* and its pending case are locked, and a unique index allows but one.  The
\* pending case moves on to this activity and its time starts anew, or a case is
\* created, whatever the task's status.
RaiseCase(a) ==
    /\ activity[a] # 0
    /\ \E c \in Cases :
          /\ \/ c \in PendingCases
             \/ /\ PendingCases = {}
                /\ case[c].status = "NONE" /\ (\A b \in Cases : b < c => case[b].status # "NONE")
          /\ case' = [case EXCEPT ![c] = [@ EXCEPT !.status = "PENDING", !.source = a,
                                                   !.revision = activity[a], !.lapsed = FALSE]]
          /\ asked' = [asked EXCEPT ![a][activity[a]] = {c}]
    /\ UNCHANGED <<task, activity, delivery, run, request>>

\* As RaiseCase for a workflow that runs again and no longer asks.
WithdrawCase(a) ==
    /\ activity[a] # 0
    /\ PendingOf(a) # {}
    /\ case' = Cancelled(PendingOf(a))
    /\ asked' = [asked EXCEPT ![a][activity[a]] = {}]
    /\ UNCHANGED <<task, activity, delivery, run, request>>

\* The activity is edited: its revision rises, and in the same transaction the
\* cases that are its own are cancelled.
EditActivity(a) ==
    /\ activity[a] \in 1 .. MaxRevision - 1
    /\ activity' = [activity EXCEPT ![a] = @ + 1]
    /\ case' = Cancelled(PendingOf(a))
    /\ UNCHANGED <<task, asked, delivery, run, request>>

\* A deletion cancels the tasks that come from the activity, not the cases in
\* which it asks about the tasks of others.
DeleteActivity(a) ==
    /\ activity[a] # 0
    /\ activity' = [activity EXCEPT ![a] = 0]
    /\ UNCHANGED <<task, asked, case, delivery, run, request>>

\* _schedule_confirmation_deliveries of a workflow whose revision is no longer
\* the activity's: the cases of the activity are cancelled, of all revisions.
ScheduleFenced(a, revision) ==
    /\ activity[a] # revision /\ asked[a][revision] # {}
    /\ case' = Cancelled(PendingOf(a))
    /\ asked' = [asked EXCEPT ![a][revision] = {}]
    /\ UNCHANGED <<task, activity, delivery, run, request>>

\* The time to answer a case is over; nothing is written.
Lapse(c) ==
    /\ case[c].status = "PENDING" /\ ~case[c].lapsed
    /\ case' = [case EXCEPT ![c].lapsed = TRUE]
    /\ UNCHANGED <<task, activity, asked, delivery, run, request>>

-----------------------------------------------------------------------------
(* What users do. *)

\* The request's first read: the endpoint's own check and the task as it will
\* be seen.  A reply is about a pending case, a transition about none.
Begin(r, act, c, answer) ==
    /\ request[r].act = "none"
    /\ \/ act = "reply" /\ case[c].status = "PENDING"
       \/ act = "transition" /\ c = SomeKey.case /\ answer # "KEEP_OPEN"
    /\ request' = [request EXCEPT ![r] = [act |-> act, case |-> c, answer |-> answer, open |-> task = "OPEN"]]
    /\ UNCHANGED <<task, activity, asked, case, delivery, run>>

Return(r) == request' = [request EXCEPT ![r] = NoRequest]

\* Mutant: the row is written as it was read.
WrittenWhole(answer) == IF answer = "CLOSE" THEN "CLOSED" ELSE "OPEN"

\* execute_action on a task that was seen open: columns that do not change are
\* not written.
Written(answer) == IF answer = "CLOSE" THEN "CLOSED" ELSE task

\* The other pending cases are cancelled with the task they ask about.
CasesAfter(answer) == IF answer = "CLOSE" THEN Cancelled(PendingCases) ELSE case

Transition(r) ==
    LET me == request[r]
    IN  /\ me.act = "transition"
        /\ IF me.open
           THEN task' = Written(me.answer) /\ case' = CasesAfter(me.answer)
           ELSE UNCHANGED <<task, case>>
        /\ Return(r)
        /\ UNCHANGED <<activity, asked, delivery, run>>

\* Mutant: the case is taken as the endpoint saw it.
AsSeen(c) == TRUE

StillPending(c) == case[c].status = "PENDING"

\* resolve_reply_and_apply: the case is locked and read again, an answer that is
\* understood resolves it, and is applied to the task in the same transaction.
Reply(r) ==
    LET me == request[r]
        c == me.case
        resolved == [case[c] EXCEPT !.status = "RESOLVED"]
    IN  /\ me.act = "reply"
        /\ StillPending(c) /\ ~case[c].lapsed
        /\ IF me.answer = "KEEP_OPEN" \/ ~me.open
           THEN /\ case' = [case EXCEPT ![c] = [resolved EXCEPT !.application = "SKIPPED"]]
                /\ UNCHANGED task
           ELSE /\ case' = [CasesAfter(me.answer) EXCEPT ![c] =
                               [resolved EXCEPT !.application = "APPLIED", !.transitions = @ + 1]]
                /\ task' = Written(me.answer)
        /\ Return(r)
        /\ UNCHANGED <<activity, asked, delivery, run>>

\* The answer comes too late, which is when a case expires, or is not understood.
ReplyUnresolved(r) ==
    LET c == request[r].case
    IN  /\ request[r].act = "reply"
        /\ case' = IF StillPending(c) /\ case[c].lapsed
                   THEN [case EXCEPT ![c].status = "EXPIRED"] ELSE case
        /\ Return(r)
        /\ UNCHANGED <<task, activity, asked, delivery, run>>

-----------------------------------------------------------------------------
(* The delivery of a case. *)

\* case_revision_guard: the case is the request's, and its activity, locked too,
\* has its revision.
Current(k) ==
    /\ case[k.case].source = k.source /\ case[k.case].revision = k.revision
    /\ activity[k.source] = k.revision

\* A pending case whose activity has moved on is cancelled by the guard.
Guarded(k) ==
    LET c == case[k.case]
    IN  IF c.source = k.source /\ c.revision = k.revision /\ activity[k.source] # k.revision
           /\ c.status = "PENDING"
        THEN Cancelled({k.case}) ELSE case

\* _validation_skip_reason finds none.
Visible(k) == Current(k) /\ case[k.case].status = "PENDING" /\ ~case[k.case].lapsed

Stop(w) == run' = [run EXCEPT ![w] = IdleRun]

\* A run begins: its first read, here that of the list it is on, fixes what
\* ensure_and_validate sees of the delivery.
Look(w, k) ==
    /\ run[w].pc = "idle"
    /\ run' = [run EXCEPT ![w] = [pc |-> "ensuring", key |-> k, seen |-> delivery[k].status]]
    /\ UNCHANGED <<task, activity, asked, case, delivery, request>>

\* _schedule_confirmation_deliveries, for a case its workflow asked in.
Schedule(w, a) ==
    /\ activity[a] # 0
    /\ \E c \in asked[a][activity[a]] :
          Look(w, [case |-> c, origin |-> a, source |-> case[c].source, revision |-> case[c].revision])

\* list_system_recovery_candidates
Recoverable(k) ==
    /\ delivery[k].status \in {"QUEUED", "FAILED"} /\ ~delivery[k].live
    /\ delivery[k].attempts >= MaxAttempts \/ (delivery[k].status = "FAILED" => delivery[k].due)

Recover(w, k) == Recoverable(k) /\ Look(w, k)

\* With the case locked: a delivery that was not seen is queued (and if another
\* run has queued it the insertion fails), one that may not be shown is skipped,
\* by what was seen of it.
Ensure(w) ==
    LET k == run[w].key
        new == run[w].seen = "NONE"
    IN  /\ run[w].pc = "ensuring"
        /\ IF new /\ delivery[k].status # "NONE"
           THEN UNCHANGED <<delivery, case>> /\ Stop(w)
           ELSE /\ case' = Guarded(k)
                /\ delivery' = IF ~Visible(k) /\ run[w].seen \notin Terminal
                               THEN [delivery EXCEPT ![k] = [@ EXCEPT !.status = "SKIPPED",
                                                                      !.owner = NoWorker, !.live = FALSE]]
                               ELSE IF new THEN [delivery EXCEPT ![k].status = "QUEUED"] ELSE delivery
                /\ IF delivery'[k].status \in Terminal
                   THEN Stop(w) ELSE run' = [run EXCEPT ![w] = [@ EXCEPT !.pc = "ensured", !.seen = "NONE"]]
        /\ UNCHANGED <<task, activity, asked, request>>

\* acknowledge_*: the delivery gets its final status or is due later.
Acknowledged(k, status) ==
    [delivery EXCEPT ![k] = [@ EXCEPT !.status = status, !.owner = NoWorker, !.live = FALSE,
                                      !.due = (status # "FAILED")]]

\* claim_for_dispatch
Claimable(k) ==
    /\ ~delivery[k].live
    /\ delivery[k].status = "FAILED" => delivery[k].due

Claim(w) ==
    LET k == run[w].key
    IN  /\ run[w].pc = "ensured"
        /\ delivery[k].status \notin Terminal /\ Visible(k)
        /\ delivery[k].attempts < MaxAttempts /\ Claimable(k)
        /\ delivery' = [delivery EXCEPT ![k] = [@ EXCEPT !.attempts = delivery[k].attempts + 1, !.owner = w, !.live = TRUE]]
        /\ run' = [run EXCEPT ![w].pc = "claimed"]
        /\ UNCHANGED <<task, activity, asked, case, request>>

\* The other ends of claim(): what may not be shown is skipped, what has no
\* attempts left is exhausted, and what is settled, leased or not due is left.
Decline(w) ==
    LET k == run[w].key
    IN  /\ run[w].pc = "ensured"
        /\ \/ /\ delivery[k].status \in Terminal /\ UNCHANGED delivery
              /\ case' = IF delivery[k].status = "SENT" THEN case ELSE Guarded(k)
           \/ /\ delivery[k].status \notin Terminal /\ ~Visible(k)
              /\ case' = Guarded(k) /\ delivery' = Acknowledged(k, "SKIPPED")
           \/ /\ delivery[k].status \notin Terminal /\ Visible(k)
              /\ IF delivery[k].attempts >= MaxAttempts
                 THEN delivery' = Acknowledged(k, "EXHAUSTED")
                 ELSE ~Claimable(k) /\ UNCHANGED delivery
              /\ UNCHANGED case
        /\ Stop(w)
        /\ UNCHANGED <<task, activity, asked, request>>

\* Mutant: whoever has dispatched may acknowledge.
AnyLease(w, k) == TRUE

\* The lease is the worker's, expired or not, and the delivery is not settled.
OwnsLease(w, k) == delivery[k].owner = w /\ delivery[k].status \notin Terminal

\* What the channel said, recorded behind the last look at what is visible.
StatusOf(k, outcome) ==
    CASE outcome = "sent"    -> "SENT"
      [] outcome = "unnamed" -> "AMBIGUOUS"
      [] outcome = "skipped" -> "SKIPPED"
      [] outcome = "failed"  -> IF ~Visible(k) THEN "SKIPPED"
                                ELSE IF delivery[k].attempts >= MaxAttempts THEN "EXHAUSTED" ELSE "FAILED"

\* dispatch and acknowledge
Acknowledge(w, outcome) ==
    LET k == run[w].key
    IN  /\ run[w].pc = "claimed"
        /\ OwnsLease(w, k)
        /\ delivery' = Acknowledged(k, StatusOf(k, outcome))
        /\ case' = IF outcome = "sent" THEN [Guarded(k) EXCEPT ![k.case].prompts = @ + 1] ELSE Guarded(k)
        /\ Stop(w)
        /\ UNCHANGED <<task, activity, asked, request>>

\* DISPATCH_LEASE_LOST, or the delivery is settled.
AcknowledgeLate(w) ==
    /\ run[w].pc = "claimed"
    /\ ~OwnsLease(w, run[w].key)
    /\ case' = Guarded(run[w].key)
    /\ Stop(w)
    /\ UNCHANGED <<task, activity, asked, delivery, request>>

\* The process dies, or the transaction fails (as the victim of a deadlock, for
\* one: the guard locks case and activity, an edit activity and cases).
Fail(w) ==
    /\ run[w].pc \notin {"off", "idle"}
    /\ Stop(w)
    /\ UNCHANGED <<task, activity, asked, case, delivery, request>>

LeaseExpires(k) ==
    /\ delivery[k].live
    /\ delivery' = [delivery EXCEPT ![k].live = FALSE]
    /\ UNCHANGED <<task, activity, asked, case, run, request>>

Due(k) ==
    /\ delivery[k].status = "FAILED" /\ ~delivery[k].due
    /\ delivery' = [delivery EXCEPT ![k].due = TRUE]
    /\ UNCHANGED <<task, activity, asked, case, run, request>>

RunProgress(w) ==
    \/ Ensure(w) \/ Claim(w) \/ Decline(w)
    \/ (\E outcome \in Outcomes : Acknowledge(w, outcome)) \/ AcknowledgeLate(w)

Next ==
    \/ \E a \in Activities : RaiseCase(a) \/ WithdrawCase(a) \/ EditActivity(a) \/ DeleteActivity(a)
    \/ \E a \in Activities, revision \in Revisions : ScheduleFenced(a, revision)
    \/ \E c \in Cases : Lapse(c)
    \/ \E r \in Requests :
          \/ \E act \in {"reply", "transition"}, c \in Cases, answer \in Answer : Begin(r, act, c, answer)
          \/ Transition(r) \/ Reply(r) \/ ReplyUnresolved(r)
    \/ \E w \in Workers :
          \/ \E a \in Activities : Schedule(w, a)
          \/ \E k \in Keys : Recover(w, k)
          \/ RunProgress(w) \/ Fail(w)
    \/ \E k \in Keys : LeaseExpires(k) \/ Due(k)

Spec == Init /\ [][Next]_vars

-----------------------------------------------------------------------------
(* Properties *)

\* A pending case does not ask on behalf of a text that has been corrected: an
\* edit withdraws the cases that are the activity's own by then, whichever other
\* activities and workflows come by.  An answer is applied without asking the
\* revision guard, so nothing else keeps it from closing a task for the sake of
\* the old text.
PendingIsCurrent ==
    \A c \in PendingCases :
        activity[case[c].source] # 0 => activity[case[c].source] = case[c].revision

\* An answer changes the task exactly if the case says that it was applied, and
\* once: of two replies by different channels the later one finds it settled.
AnsweredOnce ==
    \A c \in Cases :
        /\ case[c].transitions = IF case[c].application = "APPLIED" THEN 1 ELSE 0
        /\ case[c].application # "NONE" => case[c].status = "RESOLVED"

\* "Only the first transition to SENT increments the case prompt counters":
\* workers that dispatch the same delivery twice count it once, and what was
\* sent is counted.
PromptsCounted ==
    \A c \in Cases :
        /\ case[c].prompts >= Cardinality({k \in Keys : k.case = c /\ delivery[k].status = "SENT"})
        /\ case[c].prompts <= Cardinality({k \in Keys : k.case = c /\ delivery[k].status \in {"SENT", "SKIPPED"}})

\* A task that is closed stays closed: an answer "later" or "keep it", given by
\* somebody who still saw it open, does not open it again.
ClosedStaysClosed == [][task # "OPEN" => task' # "OPEN"]_vars

\* "Never consumes another worker's retry" (crud/sales_commitment.py): nobody
\* gives up a delivery that another worker is dispatching.  Violated: claim()
\* looks at the attempts before it looks at the lease.
LiveLeaseSpared ==
    [][\A k \in Keys : delivery[k].live /\ delivery[k].status \notin Terminal
                         => delivery'[k].status # "EXHAUSTED" \/ (\E w \in Workers :
                               run[w].pc = "claimed" /\ run[w].key = k /\ delivery[k].owner = w
                               /\ run'[w].pc = "idle")]_vars

\* What has been sent stays sent.  Violated: the run that ensures a delivery
\* again for a case that was answered meanwhile saw it in an older snapshot.
SentStaysSent ==
    [][\A k \in Keys : delivery[k].status = "SENT" => delivery'[k].status = "SENT"]_vars

\* A question goes with the activity that asks it (SOURCE_ACTIVITY_DELETED).
\* Violated: a deletion leaves the cases in which the activity asks about the
\* tasks of others, and only the next run of a delivery would find them.
DeletedAsksNothing == \A c \in PendingCases : activity[case[c].source] # 0

\* The workflow of an old revision leaves the question of the present one.
\* Violated: fenced, it cancels the pending cases of its activity without
\* looking at their revision.
FenceSparesCurrent ==
    [][\A a \in Activities, n \in Revisions :
           ScheduleFenced(a, n) => \A c \in PendingOf(a) : case[c].revision # activity[a]]_vars

\* Nobody is asked about a task that is closed.  Violated: the workflow locks
\* the task before it raises a case, and does not look at its status.
ClosedAsksNothing == task # "OPEN" => PendingCases = {}

\* A question is put once for each revision that asks it.  Violated: the
\* delivery is told apart by the workflow that schedules it, which may find that
\* the case has moved on to another activity.
PromptedOncePerRevision ==
    \A k, l \in Keys :
        k.case = l.case /\ k.source = l.source /\ k.revision = l.revision
        /\ delivery[k].status = "SENT" /\ delivery[l].status = "SENT" => k = l
=============================================================================
