----------------------------- MODULE AssistantTurn -----------------------------
(***************************************************************************)
(* One task of the assistant and the turns that work on it:                *)
(* services/assistant/turns.py and task_state.py, with coordinator.py,     *)
(* confirmation.py and proposals.py, which decide what a turn does, and    *)
(* the endpoints of api/assistant.py.                                      *)
(*                                                                         *)
(* Every input of the user is accepted as a durable turn.  A worker claims *)
(* the turn under a lease, works on it (models are called in between) and  *)
(* settles it in one transaction.  Two tokens keep workers apart: the      *)
(* turn's lease (owner, version, expiry), checked by whoever settles the   *)
(* turn, and the task's version, compared by every update of the task.     *)
(* A worker's lease and loaded version are kept as whether they still are  *)
(* the ones in the rows.                                                   *)
(*                                                                         *)
(* A task first gathers a draft, offers it as a card and writes the        *)
(* activity when the card is confirmed; then CRM proposals are offered one *)
(* by one.  Those in Claimed (a new opportunity, an opportunity's stage)   *)
(* commit in transactions of their own: a durable claim goes before them   *)
(* and the receipt they leave behind is read back.                         *)
(***************************************************************************)
EXTENDS Naturals

CONSTANTS
    Workers,     \* what works on turns
    Requests,    \* requests for a retry
    MaxTurns,    \* bound: turns, numbered as they are accepted
    MaxCards,    \* bound: cards put on the table, numbered likewise
    MaxFaults,   \* bound: workers that die or lose a lease while they work
    Proposals,   \* proposals the task's activity gives rise to
    Claimed,     \* those executed under a durable claim
    Acts         \* what users and operators do

ASSUME TurnAssumption ==
    /\ MaxTurns \in Nat /\ MaxCards \in Nat /\ MaxFaults \in Nat
    /\ Claimed \subseteq Proposals
    /\ Workers \cap Requests = {}
    /\ Proposals \cap {"none", "question", "activity"} = {}
    /\ Acts \subseteq {"text", "confirm", "reject", "revise", "cancel",
                       "retry", "reset", "adjudicate"}

VARIABLES
    task,        \* the task's row
    turn,        \* the turns
    claim,       \* status of the claim of each proposal
    crm,         \* what has been committed outside the task
    worker,      \* what each worker is doing
    faults       \* faults so far

vars == <<task, turn, claim, crm, worker, faults>>

Actors == Workers \cup Requests
Turns == 1 .. MaxTurns
Waiting == {"none", "question", "activity"} \cup Proposals
Input == {"text", "confirm", "reject", "revise", "cancel", "continue"}

TaskRecords ==
    [status : {"ACTIVE", "COMPLETED", "CANCELLED"}, waiting : Waiting, card : 0 .. MaxCards,
     active : 0 .. MaxTurns, frozen : BOOLEAN, receipt : BOOLEAN,
     settled : [Proposals -> {"open", "executed", "refused"}]]

TurnRecords ==
    [status : {"NONE", "PENDING", "RUNNING", "SUCCEEDED", "FAILED"}, input : Input,
     card : 0 .. MaxCards, live : BOOLEAN, retryable : BOOLEAN]

WorkerRecords ==
    [pc : {"idle", "superseded", "working", "claimed", "executed", "unknown", "retrying"},
     turn : 0 .. MaxTurns, sees : Waiting, owns : BOOLEAN, current : BOOLEAN]

TypeOK ==
    /\ task \in TaskRecords
    /\ turn \in [Turns -> TurnRecords]
    /\ claim \in [Proposals -> {"NONE", "CLAIMED", "UNKNOWN", "SUCCEEDED", "RECONCILED", "REJECTED"}]
    /\ crm \in [activities : Nat, effects : SUBSET Proposals]
    /\ worker \in [Actors -> WorkerRecords]
    /\ faults \in 0 .. MaxFaults

NoTurn == [status |-> "NONE", input |-> "text", card |-> 0, live |-> FALSE, retryable |-> FALSE]
Pending(input, card) ==
    [status |-> "PENDING", input |-> input, card |-> card, live |-> FALSE, retryable |-> FALSE]
Idle == [pc |-> "idle", turn |-> 0, sees |-> "none", owns |-> FALSE, current |-> FALSE]

Init ==
    /\ task = [status |-> "ACTIVE", waiting |-> "none", card |-> 0, active |-> 0,
               frozen |-> FALSE, receipt |-> FALSE, settled |-> [p \in Proposals |-> "open"]]
    /\ turn = [t \in Turns |-> NoTurn]
    /\ claim = [p \in Proposals |-> "NONE"]
    /\ crm = [activities |-> 0, effects |-> {}]
    /\ worker = [w \in Actors |-> Idle]
    /\ faults = 0

-----------------------------------------------------------------------------
(* Turns and tokens. *)

Accepted == {t \in Turns : turn[t].status # "NONE"}
IsNext(n) == turn[n].status = "NONE" /\ (\A t \in Turns : t < n => turn[t].status # "NONE")
Open(t) == turn[t].status \in {"PENDING", "RUNNING"}
Newer(t) == \E n \in Accepted : n > t

\* Whoever settles a turn must hold its lease, unexpired.
Holds(w) ==
    LET t == worker[w].turn
    IN  t \in Turns /\ worker[w].owns /\ turn[t].status = "RUNNING" /\ turn[t].live

\* apply_task_update: the version loaded is compared, and the task must be active.
Fresh(w) == worker[w].current /\ task.status = "ACTIVE"

\* The task's version moves on; only keep still has it.
Moved(ws, keep) == [v \in Actors |-> [ws[v] EXCEPT !.current = @ /\ v \in keep]]

\* The lease version of t moves on.
Taken(ws, t) == [v \in Actors |-> IF ws[v].turn = t THEN [ws[v] EXCEPT !.owns = FALSE] ELSE ws[v]]

\* live_worker: a worker of this process holds the turn's present lease version.
LiveWorker(t) ==
    \E w \in Workers : worker[w].turn = t /\ worker[w].owns /\ worker[w].pc \notin {"idle", "retrying"}

Working(w, input) ==
    worker[w].pc = "working" /\ turn[worker[w].turn].input \in input

-----------------------------------------------------------------------------
(* Accepting an input. *)

Allowed(input) ==
    input \in Acts /\
    CASE input = "text" -> task.waiting \in {"none", "question", "activity"}
      [] input \in {"confirm", "reject"} -> task.waiting \notin {"none", "question"}
      [] input = "revise" -> task.waiting = "activity"
      [] OTHER -> input = "cancel"

\* Mutant: action_id and expected_version are not compared.
AnyCard(card, input) == card \in 0 .. task.card

\* The answer names the card it answers; a cancellation need not.
CardMatches(card, input) ==
    input # "cancel" => card = IF task.waiting = "none" THEN 0 ELSE task.card

\* Mutant: the turn is accepted while another is open.
EvenIfBusy == TRUE

NoActiveTurn == task.active = 0

\* accept_submit: what it has read is confirmed by its last update, of the
\* version it read and no active turn.
Submit(input, card) ==
    /\ task.status = "ACTIVE"
    /\ Allowed(input)
    /\ CardMatches(card, input)
    /\ NoActiveTurn
    /\ \E n \in Turns :
          /\ IsNext(n)
          /\ turn' = [turn EXCEPT ![n] = Pending(input, card)]
          /\ task' = [task EXCEPT !.active = n]
    /\ UNCHANGED <<claim, crm, worker, faults>>

-----------------------------------------------------------------------------
(* Claims and leases. *)

\* Mutant: a turn is worked on although the user has gone on.
NotSuperseded(t) == FALSE

Superseded(t) == Newer(t)

\* Mutant: a turn whose worker died is left to it.
OnlyPending(t) == turn[t].status = "PENDING"

\* recover_turns offers it, claim takes it.
Claimable(t) == turn[t].status = "PENDING" \/ (turn[t].status = "RUNNING" /\ ~turn[t].live)

Claim(w, t) ==
    /\ worker[w].pc = "idle"
    /\ Claimable(t)
    /\ turn' = [turn EXCEPT ![t] = [@ EXCEPT !.status = "RUNNING", !.live = TRUE]]
    /\ worker' = [Taken(worker, t) EXCEPT ![w] =
                     [pc |-> IF Superseded(t) THEN "superseded" ELSE "working",
                      turn |-> t, sees |-> task.waiting, owns |-> TRUE, current |-> TRUE]]
    /\ UNCHANGED <<task, claim, crm, faults>>

\* The lease of a turn expires: at once when nobody renews it, as a fault
\* (a stalled process or database) under a worker that does.
Lapse(t) ==
    /\ turn[t].status = "RUNNING" /\ turn[t].live
    /\ turn' = [turn EXCEPT ![t].live = FALSE]
    /\ IF LiveWorker(t) THEN faults < MaxFaults /\ faults' = faults + 1 ELSE UNCHANGED faults
    /\ UNCHANGED <<task, claim, crm, worker>>

Die(w) ==
    /\ worker[w].pc # "idle"
    /\ faults < MaxFaults
    /\ faults' = faults + 1
    /\ worker' = [worker EXCEPT ![w] = Idle]
    /\ UNCHANGED <<task, turn, claim, crm>>

\* _keep_lease finds the lease gone and cancels the worker, or the worker finds
\* it gone when it settles: what it has not committed is rolled back.
Lost(w) ==
    /\ worker[w].pc \notin {"idle", "retrying"}
    /\ ~Holds(w)
    /\ worker' = [worker EXCEPT ![w] = Idle]
    /\ UNCHANGED <<task, turn, claim, crm, faults>>

-----------------------------------------------------------------------------
(* Settling a turn. *)

Ended(t, result, retryable) ==
    [status |-> result, input |-> turn[t].input, card |-> turn[t].card, live |-> FALSE,
     retryable |-> retryable]

\* The turn of w is settled together with what it did to the task.
Settle(w, result, retryable, updated) ==
    /\ turn' = [turn EXCEPT ![worker[w].turn] = Ended(worker[w].turn, result, retryable)]
    /\ task' = [updated EXCEPT !.active = 0]

\* As Settle, and the next turn is accepted in the same transaction.
SettleAndFollow(w, updated) ==
    \E n \in Turns :
        /\ IsNext(n)
        /\ turn' = [turn EXCEPT ![worker[w].turn] = Ended(worker[w].turn, "SUCCEEDED", FALSE),
                                ![n] = Pending("continue", 0)]
        /\ task' = [updated EXCEPT !.active = n]

Leave(w) == worker' = Moved([worker EXCEPT ![w] = Idle], {})

\* A card of this kind is put on the table, or none.  The activity frozen earlier stays so unless it is cleared.
Table(kind, cleared) ==
    [task EXCEPT !.waiting = kind, !.card = IF kind = "none" THEN @ ELSE @ + 1,
                 !.frozen = kind = "activity" \/ (@ /\ ~cleared)]

Cards(kind) == kind # "none" => task.card < MaxCards

\* intake and structuring: the draft asks for something, is ready to be written,
\* or nothing comes of it.  A frozen activity bars the next one until a text about
\* its dates clears it, the only text that moves the activity's card.
Structured(w) ==
    /\ Working(w, {"text"}) \/ (Working(w, {"confirm", "reject", "revise"}) /\ task.waiting = "none")
    /\ Holds(w) /\ Fresh(w) /\ ~task.receipt
    /\ \E kind \in {"none", "question", "activity"}, cleared \in BOOLEAN :
          /\ cleared => Working(w, {"text"})
          /\ task.waiting = "activity" => cleared
          /\ Cards(kind)
          /\ kind = "activity" => ~task.frozen \/ cleared
          /\ Settle(w, "SUCCEEDED", FALSE, Table(kind, cleared))
    /\ Leave(w)
    /\ UNCHANGED <<claim, crm, faults>>

\* revise_frozen_activity_kind
Revised(w) ==
    /\ Working(w, {"revise"}) /\ task.waiting = "activity"
    /\ Holds(w) /\ Fresh(w) /\ Cards("activity")
    /\ Settle(w, "SUCCEEDED", FALSE, Table("activity", FALSE))
    /\ Leave(w)
    /\ UNCHANGED <<claim, crm, faults>>

\* execute_confirmation: activity, receipt and the turn that offers proposals
\* are one transaction.
ActivityWritten(w) ==
    /\ Working(w, {"confirm"}) /\ task.waiting = "activity"
    /\ Holds(w) /\ Fresh(w)
    /\ crm' = [crm EXCEPT !.activities = @ + 1]
    /\ SettleAndFollow(w, [task EXCEPT !.waiting = "none", !.receipt = TRUE])
    /\ Leave(w)
    /\ UNCHANGED <<claim, faults>>

\* The customer may not be written to, or the user says no.
ActivityRefused(w) ==
    /\ Working(w, {"confirm", "reject"}) /\ task.waiting = "activity"
    /\ Holds(w) /\ Fresh(w)
    /\ Settle(w, "SUCCEEDED", FALSE,
              [task EXCEPT !.waiting = "none", !.frozen = Working(w, {"confirm"})])
    /\ Leave(w)
    /\ UNCHANGED <<claim, crm, faults>>

\* _close_unknown_activity: the write cannot be proved.
ActivityUnknown(w) ==
    /\ Working(w, {"confirm"}) /\ task.waiting = "activity"
    /\ worker[w].owns /\ turn[worker[w].turn].status = "RUNNING" /\ Fresh(w)
    /\ Settle(w, "FAILED", FALSE, [task EXCEPT !.waiting = "none"])
    /\ Leave(w)
    /\ UNCHANGED <<claim, crm, faults>>

\* The card stays, and the task as it is: the activity's type is still to be chosen or cannot be changed to the one
\* asked for, the text is not about the card's dates, or it is none of the choices.
Unanswered(w) ==
    /\ \/ Working(w, {"confirm", "revise", "text"}) /\ worker[w].sees = "activity"
       \/ Working(w, {"text"}) /\ worker[w].sees = "question"
    /\ Holds(w)
    /\ Settle(w, "SUCCEEDED", FALSE, task)
    /\ worker' = [worker EXCEPT ![w] = Idle]
    /\ UNCHANGED <<claim, crm, faults>>

Cancelled(w) ==
    /\ Working(w, {"cancel"})
    /\ Holds(w) /\ Fresh(w)
    /\ Settle(w, "SUCCEEDED", FALSE, [task EXCEPT !.status = "CANCELLED", !.waiting = "none"])
    /\ Leave(w)
    /\ UNCHANGED <<claim, crm, faults>>

\* offer_next_proposal
Offered(w) ==
    /\ Working(w, {"continue"}) /\ task.waiting = "none" /\ task.receipt
    /\ Holds(w) /\ Fresh(w)
    /\ \/ \E p \in Proposals :
             /\ task.settled[p] = "open" /\ Cards(p)
             /\ Settle(w, "SUCCEEDED", FALSE,
                       [task EXCEPT !.waiting = p, !.card = @ + 1])
       \/ Settle(w, "SUCCEEDED", FALSE, [task EXCEPT !.status = "COMPLETED"])
    /\ Leave(w)
    /\ UNCHANGED <<claim, crm, faults>>

-----------------------------------------------------------------------------
(* Settling a proposal. *)

Answers(w, input) == Working(w, input) /\ worker[w].sees \in Proposals

\* Mutant: earlier claims are not looked for.
NoPriorClaim(p) == FALSE

PriorClaim(p) == p \in Claimed /\ claim[p] # "NONE"

\* The card's proposal gets its final word and the next turn is accepted.
Conclude(w, word) ==
    /\ Holds(w) /\ Fresh(w)
    /\ SettleAndFollow(w, [task EXCEPT !.waiting = "none", !.settled[worker[w].sees] = word])
    /\ Leave(w)

\* An earlier attempt has claimed the command and its receipt proves it ran,
\* whatever is answered now.
Reconciled(w) ==
    LET p == worker[w].sees
    IN  /\ Answers(w, {"confirm", "reject"}) /\ PriorClaim(p) /\ p \in crm.effects
        /\ claim' = [claim EXCEPT ![p] = "RECONCILED"]
        /\ Conclude(w, "executed")
        /\ UNCHANGED <<crm, faults>>

\* Nothing proves it: the claim is marked in a transaction of its own.
MarkUnknown(w) ==
    LET p == worker[w].sees
    IN  /\ Answers(w, {"confirm", "reject"}) /\ PriorClaim(p) /\ p \notin crm.effects
        /\ claim' = [claim EXCEPT ![p] = "UNKNOWN"]
        /\ worker' = [worker EXCEPT ![w].pc = "unknown"]
        /\ UNCHANGED <<task, turn, crm, faults>>

ProposalRefused(w) ==
    /\ Answers(w, {"reject"}) /\ ~PriorClaim(worker[w].sees)
    /\ Conclude(w, "refused")
    /\ UNCHANGED <<claim, crm, faults>>

\* A proposal that needs no claim is carried out in the turn's transaction.
Performed(w) ==
    /\ Answers(w, {"confirm"}) /\ worker[w].sees \notin Claimed
    /\ crm' = [crm EXCEPT !.effects = @ \cup {worker[w].sees}]
    /\ Conclude(w, "executed")
    /\ UNCHANGED <<claim, faults>>

\* assert_owned_execution_lease, and the claim is committed.
ClaimCommand(w) ==
    LET p == worker[w].sees
    IN  /\ Answers(w, {"confirm"}) /\ p \in Claimed /\ ~PriorClaim(p)
        /\ Holds(w) /\ Fresh(w)
        /\ claim' = [claim EXCEPT ![p] = "CLAIMED"]
        /\ worker' = Moved([worker EXCEPT ![w].pc = "claimed"], {w})
        /\ UNCHANGED <<task, turn, crm, faults>>

\* The CRM's own transaction: no lease is asked for, the command's id is unique.
ExecuteCommand(w) ==
    /\ worker[w].pc = "claimed"
    /\ crm' = [crm EXCEPT !.effects = @ \cup {worker[w].sees}]
    /\ worker' = [worker EXCEPT ![w].pc = "executed"]
    /\ UNCHANGED <<task, turn, claim, faults>>

\* The receipt is read back and the claim closed with the turn.
CommandDone(w) ==
    /\ worker[w].pc = "executed"
    /\ claim' = [claim EXCEPT ![worker[w].sees] = "SUCCEEDED"]
    /\ Conclude(w, "executed")
    /\ UNCHANGED <<crm, faults>>

-----------------------------------------------------------------------------
(* Failing, retrying and what else touches the task. *)

\* Commits between two calls of a model: the answer is taken, with what was
\* frozen if it is about dates, or asked for anew.  Only the version is compared.
Progress(w) ==
    /\ Working(w, {"text"}) /\ Fresh(w) /\ ~task.receipt
    /\ task.waiting \in {"none", "question"}
    /\ \E kind \in {task.waiting, "none"}, frozen \in {task.frozen, FALSE} :
          /\ task' = [task EXCEPT !.waiting = kind, !.frozen = frozen]
          /\ worker' = Moved([worker EXCEPT ![w].sees = kind], {w})
    /\ UNCHANGED <<turn, claim, crm, faults>>

\* A stage of the model fails: the draft is kept and the task says so.
StageFailed(w) ==
    /\ Working(w, {"text"}) /\ ~task.receipt
    /\ Holds(w) /\ Fresh(w)
    /\ \E retryable \in BOOLEAN : Settle(w, "FAILED", retryable, task)
    /\ Leave(w)
    /\ UNCHANGED <<claim, crm, faults>>

\* Anything else is raised: conflicts, results that cannot be proved and what
\* only an operator mends end the turn for good, the rest may be retried.
Failed(w) ==
    /\ worker[w].pc \notin {"idle", "retrying"}
    /\ Holds(w)
    /\ \E retryable \in BOOLEAN :
          /\ worker[w].pc \in {"superseded", "unknown"} => ~retryable
          /\ Settle(w, "FAILED", retryable, task)
    /\ worker' = [worker EXCEPT ![w] = Idle]
    /\ UNCHANGED <<claim, crm, faults>>

\* close_overdue_turn, by whoever reads the turn.
CloseOverdue(t) ==
    /\ turn[t].status = "RUNNING" /\ ~LiveWorker(t)
    /\ task.status = "ACTIVE"
    /\ turn' = [turn EXCEPT ![t] = Ended(t, "FAILED", TRUE)]
    /\ task' = [task EXCEPT !.active = IF @ = t THEN 0 ELSE @]
    /\ worker' = Moved(worker, {})
    /\ UNCHANGED <<claim, crm, faults>>

\* reprocess_allowed: what a request for a retry reads.
AskRetry(w, t) ==
    /\ "retry" \in Acts
    /\ worker[w].pc = "idle"
    /\ task.status = "ACTIVE" /\ ~task.receipt /\ task.active \in {0, t}
    /\ ~Newer(t)
    /\ \/ turn[t].status = "FAILED" /\ turn[t].retryable
       \/ turn[t].status = "RUNNING" /\ ~turn[t].live /\ ~LiveWorker(t)
    /\ worker' = [worker EXCEPT ![w] = [pc |-> "retrying", turn |-> t, sees |-> "none",
                                        owns |-> TRUE, current |-> TRUE]]
    /\ UNCHANGED <<task, turn, claim, crm, faults>>

\* retry_owned_turn: lease version, task version and active turn are compared
\* by its updates.
Retry(w) ==
    LET t == worker[w].turn
    IN  /\ worker[w].pc = "retrying"
        /\ worker[w].owns /\ (turn[t].status = "FAILED" \/ (Claimable(t) /\ turn[t].status = "RUNNING"))
        /\ Fresh(w) /\ task.active \in {0, t}
        /\ turn' = [turn EXCEPT ![t] = Pending(@.input, @.card)]
        /\ task' = [task EXCEPT !.active = t]
        /\ worker' = [Taken(worker, t) EXCEPT ![w] = Idle]
        /\ UNCHANGED <<claim, crm, faults>>

RetryDenied(w) ==
    /\ worker[w].pc = "retrying"
    /\ worker' = [worker EXCEPT ![w] = Idle]
    /\ UNCHANGED <<task, turn, claim, crm, faults>>

\* change_kind, and a supplement from the conversation: the draft starts anew.
Reset ==
    /\ "reset" \in Acts
    /\ task.status = "ACTIVE" /\ NoActiveTurn /\ ~task.receipt
    /\ task' = [task EXCEPT !.waiting = "none", !.frozen = FALSE]
    /\ worker' = Moved(worker, {})
    /\ UNCHANGED <<turn, claim, crm, faults>>

\* adjudicate_unknown_command: a success needs the receipt, a rejection only a
\* claim that does not say "started", which none ever does.
Adjudicate(p, verdict) ==
    /\ "adjudicate" \in Acts
    /\ claim[p] \in {"CLAIMED", "UNKNOWN"}
    /\ verdict = "SUCCEEDED" => p \in crm.effects
    /\ claim' = [claim EXCEPT ![p] = verdict]
    /\ UNCHANGED <<task, turn, crm, worker, faults>>

-----------------------------------------------------------------------------
SettleActivity(w) ==
    Structured(w) \/ Revised(w) \/ ActivityWritten(w) \/ ActivityRefused(w) \/ ActivityUnknown(w)
    \/ Unanswered(w) \/ Cancelled(w)

SettleProposal(w) ==
    Offered(w) \/ Reconciled(w) \/ MarkUnknown(w) \/ ProposalRefused(w) \/ Performed(w)
    \/ ClaimCommand(w) \/ ExecuteCommand(w) \/ CommandDone(w)

\* Every step that brings the turn of w, or the request for a retry, to its end.
Advance(w) ==
    SettleActivity(w) \/ SettleProposal(w) \/ StageFailed(w) \/ Failed(w) \/ Lost(w)
    \/ Retry(w) \/ RetryDenied(w)

Next ==
    \/ \E input \in Input, card \in 0 .. MaxCards : Submit(input, card)
    \/ \E t \in Turns : \/ \E w \in Workers : Claim(w, t)
                       \/ \E w \in Requests : AskRetry(w, t)
    \/ \E w \in Actors : Advance(w) \/ Die(w)
    \/ \E w \in Workers : Progress(w)
    \/ \E t \in Turns : Lapse(t) \/ CloseOverdue(t)
    \/ Reset
    \/ \E p \in Proposals, verdict \in {"SUCCEEDED", "REJECTED"} : Adjudicate(p, verdict)

\* A worker goes on until its attempt's deadline ends it, dead leases expire, and
\* the recovery scan claims what is pending or expired.
Fairness ==
    /\ \A w \in Actors : WF_vars(Advance(w))
    /\ \A t \in Turns : WF_vars(Lapse(t) /\ ~LiveWorker(t)) /\ WF_vars(\E w \in Workers : Claim(w, t))

Spec == Init /\ [][Next]_vars
LiveSpec == Spec /\ Fairness

-----------------------------------------------------------------------------
(* Properties *)

\* A turn is open (accepted, not settled) exactly while it is the task's active
\* turn: no input is worked on behind another's back (turns.py:273-286, a retry
\* at 602-620) and none is left over when the task is released.
OneOpenTurn == \A t \in Turns : Open(t) <=> task.active = t

\* turns.py:792-796: an input is carried out only while it is the latest one,
\* also when it is retried while the user submits the next.
LatestInputWins ==
    [][\A t \in Turns : turn[t].status # "SUCCEEDED" /\ turn'[t].status = "SUCCEEDED" => ~Newer(t)]_vars

\* A confirmation does what its card said: the activity is written and a proposal
\* executed by a turn that was submitted for the card on the table, whatever
\* retries, lost leases and answers from old pages came between.
AnswersItsCard ==
    [][\A t \in Turns :
          /\ turn[t].status # "SUCCEEDED" /\ turn'[t].status = "SUCCEEDED"
          /\ task'.receipt # task.receipt \/ task'.settled # task.settled
          => turn[t].card = task.card]_vars

\* What the task says of a proposal is so: what it calls executed has been
\* committed to the CRM, and what was refused has not, although an earlier
\* attempt may have got as far as the CRM before it died.
SettledIsProven ==
    \A p \in Proposals :
        /\ task.settled[p] = "executed" => p \in crm.effects
        /\ task.settled[p] = "refused" => p \notin crm.effects

\* The activity is written once, and the task has its receipt.
WrittenOnce == crm.activities = IF task.receipt THEN 1 ELSE 0

\* Every accepted turn is settled in the end, through deaths and lost leases
\* (turns.py:1141, recover_turns).
EveryTurnSettles == \A t \in Turns : Open(t) ~> ~Open(t)

\* api/assistant.py:349-353: a command whose target may have committed is not
\* adjudicated as rejected.
RejectedHasNoEffect == \A p \in Proposals : claim[p] = "REJECTED" => p \notin crm.effects

\* api/assistant.py:315-318: a claim with a final status is not decided anew.
AdjudicationIsFinal ==
    [][\A p \in Proposals :
          claim[p] \in {"SUCCEEDED", "RECONCILED", "REJECTED"} => claim'[p] = claim[p]]_vars
=============================================================================
