--------------------------- MODULE AssistantTurnProofs ---------------------------
(***************************************************************************)
(* Theorems about AssistantTurn, for any number of workers, turns, cards,  *)
(* proposals and faults.                                                   *)
(*                                                                         *)
(* A worker's word counts as long as its lease and the version it loaded   *)
(* do.  The inductive invariant says what each of the two stands for: the  *)
(* lease that nobody has submitted anything newer (Busy), the version that *)
(* the card the worker sees is the one on the table (Seen).  What a worker *)
(* has claimed or executed leaves its mark in claim and crm (Marked), and  *)
(* those agree with what the task says (Proven).                           *)
(***************************************************************************)
EXTENDS AssistantTurn, TLAPS

\* What a worker at work has in hand.
Busy ==
    \A w \in Actors :
        worker[w].pc # "idle" =>
            /\ worker[w].turn \in Turns
            /\ turn[worker[w].turn].status # "NONE"
            /\ worker[w].pc \notin {"retrying", "superseded"} /\ worker[w].owns /\ Open(worker[w].turn)
                 => ~Newer(worker[w].turn)

Seen ==
    \A w \in Actors :
        worker[w].pc \notin {"idle", "retrying"} /\ worker[w].current => worker[w].sees = task.waiting

OnTable == task.waiting \in Proposals => task.settled[task.waiting] = "open"

Marked ==
    \A w \in Actors :
        /\ worker[w].pc \in {"claimed", "executed"} =>
              worker[w].sees \in Claimed /\ claim[worker[w].sees] # "NONE"
        /\ worker[w].pc = "executed" => worker[w].sees \in crm.effects

Proven ==
    \A p \in Proposals :
        /\ task.settled[p] = "executed" => p \in crm.effects
        /\ task.settled[p] = "refused" => p \notin crm.effects /\ (p \in Claimed => claim[p] = "NONE")
        /\ p \in crm.effects => IF p \in Claimed THEN claim[p] # "NONE" ELSE task.settled[p] = "executed"

Unwritten == task.waiting \in {"question", "activity"} => ~task.receipt

\* The answer that came last was given to the card that is still the latest.
CardKept ==
    \A t \in Turns :
        turn[t].status \in {"PENDING", "RUNNING", "FAILED"} /\ ~Newer(t)
            /\ turn[t].input \in {"confirm", "reject"} => turn[t].card = task.card

Answering ==
    \A w \in Actors :
        worker[w].pc \in {"claimed", "executed"} => turn[worker[w].turn].input = "confirm"

IInv == /\ TypeOK /\ OneOpenTurn /\ Busy /\ Seen /\ OnTable /\ Marked /\ Proven
        /\ Unwritten /\ WrittenOnce /\ CardKept /\ Answering

\* The rows of the turns and of the task after the turn of w is settled.
LEMMA SettleEffect ==
    ASSUME TypeOK, NEW w \in Actors, worker[w].turn \in Turns, NEW result \in {"SUCCEEDED", "FAILED"},
           NEW retryable \in BOOLEAN, NEW updated \in TaskRecords, Settle(w, result, retryable, updated)
    PROVE  /\ turn' \in [Turns -> TurnRecords]
           /\ task' \in TaskRecords
           /\ \A t \in Turns : /\ turn'[t].status = (IF t = worker[w].turn THEN result ELSE turn[t].status)
                               /\ turn'[t].input = turn[t].input /\ turn'[t].card = turn[t].card
           /\ task'.active = 0 /\ task'.waiting = updated.waiting /\ task'.card = updated.card
           /\ task'.receipt = updated.receipt /\ task'.settled = updated.settled
<1>1. turn' \in [Turns -> TurnRecords]
  <2>1. Ended(worker[w].turn, result, retryable) \in TurnRecords
    BY SMT DEF Ended, TypeOK, TurnRecords
  <2> QED BY <2>1 DEF Settle, TypeOK
<1>2. task' \in TaskRecords
  <2>1. 0 \in 0 .. MaxTurns
    BY TurnAssumption
  <2> QED BY <2>1, SMT DEF Settle, TaskRecords
<1>3. \A t \in Turns : /\ turn'[t].status = (IF t = worker[w].turn THEN result ELSE turn[t].status)
                       /\ turn'[t].input = turn[t].input /\ turn'[t].card = turn[t].card
  <2>1. turn' = [turn EXCEPT ![worker[w].turn] = Ended(worker[w].turn, result, retryable)]
    BY DEF Settle
  <2>2. turn'[worker[w].turn] = Ended(worker[w].turn, result, retryable)
    BY <2>1 DEF TypeOK
  <2>3. \A t \in Turns : t # worker[w].turn => turn'[t] = turn[t]
    BY <2>1 DEF TypeOK
  <2> TAKE t \in Turns
  <2>4. CASE t = worker[w].turn
    BY <2>2, <2>4, SMT DEF Ended
  <2>5. CASE t # worker[w].turn
    BY <2>3, <2>5, Zenon
  <2> QED BY <2>4, <2>5
<1>4. task'.active = 0 /\ task'.waiting = updated.waiting /\ task'.card = updated.card
      /\ task'.receipt = updated.receipt /\ task'.settled = updated.settled
  BY SMT DEF Settle, TaskRecords
<1> QED BY <1>1, <1>2, <1>3, <1>4

\* As above, and the turn that is accepted with it.
LEMMA FollowEffect ==
    ASSUME TypeOK, NEW w \in Actors, worker[w].turn \in Turns, turn[worker[w].turn].status # "NONE",
           NEW updated \in TaskRecords, SettleAndFollow(w, updated)
    PROVE  /\ turn' \in [Turns -> TurnRecords]
           /\ task' \in TaskRecords
           /\ \E n \in Turns :
                /\ IsNext(n) /\ n # worker[w].turn
                /\ \A t \in Turns :
                     /\ turn'[t].status = IF t = n THEN "PENDING"
                                          ELSE IF t = worker[w].turn THEN "SUCCEEDED" ELSE turn[t].status
                     /\ turn'[t].input = IF t = n THEN "continue" ELSE turn[t].input
                     /\ t # n => turn'[t].card = turn[t].card
                /\ task'.active = n
           /\ task'.waiting = updated.waiting /\ task'.card = updated.card
           /\ task'.receipt = updated.receipt /\ task'.settled = updated.settled
<1>1. PICK n \in Turns :
        /\ IsNext(n)
        /\ turn' = [turn EXCEPT ![worker[w].turn] = Ended(worker[w].turn, "SUCCEEDED", FALSE),
                                ![n] = Pending("continue", 0)]
        /\ task' = [updated EXCEPT !.active = n]
  BY DEF SettleAndFollow
<1>2. n # worker[w].turn
  BY <1>1 DEF IsNext
<1>3. /\ Pending("continue", 0) \in TurnRecords
      /\ Ended(worker[w].turn, "SUCCEEDED", FALSE) \in TurnRecords
  BY TurnAssumption, SMT DEF Pending, Ended, TurnRecords, Input, TypeOK
<1>4. turn' \in [Turns -> TurnRecords]
  BY <1>1, <1>3 DEF TypeOK
<1>5. task' \in TaskRecords
  BY <1>1, SMT DEF TaskRecords, Turns
<1>6. \A t \in Turns :
        /\ turn'[t].status = IF t = n THEN "PENDING"
                             ELSE IF t = worker[w].turn THEN "SUCCEEDED" ELSE turn[t].status
        /\ turn'[t].input = IF t = n THEN "continue" ELSE turn[t].input
        /\ t # n => turn'[t].card = turn[t].card
  BY <1>1, <1>2, SMT DEF TypeOK, Pending, Ended
<1>7. /\ task'.active = n
      /\ task'.waiting = updated.waiting /\ task'.card = updated.card
      /\ task'.receipt = updated.receipt /\ task'.settled = updated.settled
  BY <1>1, SMT DEF TaskRecords
<1> QED BY <1>1, <1>2, <1>4, <1>5, <1>6, <1>7

LEMMA CurrentField ==
    ASSUME NEW u \in WorkerRecords, NEW b \in BOOLEAN
    PROVE  /\ [u EXCEPT !.current = b] \in WorkerRecords
           /\ [u EXCEPT !.current = b].current = b
           /\ [u EXCEPT !.current = b].pc = u.pc /\ [u EXCEPT !.current = b].turn = u.turn
           /\ [u EXCEPT !.current = b].sees = u.sees /\ [u EXCEPT !.current = b].owns = u.owns
BY SMT DEF WorkerRecords

\* The workers after w has gone, its version spent or not.
LEMMA LeaveEffect ==
    ASSUME TypeOK, NEW w \in Actors, Leave(w) \/ worker' = [worker EXCEPT ![w] = Idle]
    PROVE  /\ worker' \in [Actors -> WorkerRecords]
           /\ worker'[w].pc = "idle"
           /\ \A v \in Actors : v # w =>
                /\ worker'[v].pc = worker[v].pc /\ worker'[v].turn = worker[v].turn
                /\ worker'[v].sees = worker[v].sees /\ worker'[v].owns = worker[v].owns
                /\ worker'[v].current => worker[v].current
           /\ Leave(w) => \A v \in Actors : ~worker'[v].current
<1>1. Idle \in WorkerRecords /\ Idle.pc = "idle" /\ ~Idle.current
  BY TurnAssumption, SMT DEF Idle, WorkerRecords, Waiting
<1>2. CASE worker' = [worker EXCEPT ![w] = Idle]
  <2>1. Leave(w) => \A v \in Actors : ~worker'[v].current
    BY <1>1, SMT DEF Leave, Moved, TypeOK, WorkerRecords
  <2> QED BY <1>1, <1>2, <2>1, SMT DEF TypeOK, WorkerRecords
<1>3. CASE Leave(w)
  <2> DEFINE ws == [worker EXCEPT ![w] = Idle]
  <2>1. ws \in [Actors -> WorkerRecords] /\ ws[w] = Idle /\ \A v \in Actors : v # w => ws[v] = worker[v]
    BY <1>1 DEF TypeOK
  <2>2. worker' = [v \in Actors |-> [ws[v] EXCEPT !.current = @ /\ v \in {}]]
    BY <1>3 DEF Leave, Moved
  <2> HIDE DEF ws
  <2>3. ASSUME NEW v \in Actors PROVE worker'[v] = [ws[v] EXCEPT !.current = FALSE]
    <3>1. (ws[v].current /\ v \in {}) = FALSE
      OBVIOUS
    <3> QED BY <2>2, <3>1
  <2>4. \A v \in Actors : worker'[v] \in WorkerRecords /\ ~worker'[v].current
            /\ worker'[v].pc = ws[v].pc /\ worker'[v].turn = ws[v].turn
            /\ worker'[v].sees = ws[v].sees /\ worker'[v].owns = ws[v].owns
    <3> TAKE v \in Actors
    <3>1. ws[v] \in WorkerRecords
      BY <2>1
    <3>2. worker'[v] = [ws[v] EXCEPT !.current = FALSE]
      BY <2>3
    <3>3. /\ [ws[v] EXCEPT !.current = FALSE] \in WorkerRecords
          /\ [ws[v] EXCEPT !.current = FALSE].current = FALSE
          /\ [ws[v] EXCEPT !.current = FALSE].pc = ws[v].pc
          /\ [ws[v] EXCEPT !.current = FALSE].turn = ws[v].turn
          /\ [ws[v] EXCEPT !.current = FALSE].sees = ws[v].sees
          /\ [ws[v] EXCEPT !.current = FALSE].owns = ws[v].owns
      BY <3>1, CurrentField, Zenon
    <3> QED BY <3>2, <3>3, Zenon
  <2>5. worker' \in [Actors -> WorkerRecords]
    BY <2>2, <2>4
  <2> QED BY <2>1, <2>4, <2>5, <1>1
<1> QED BY <1>2, <1>3

-----------------------------------------------------------------------------
(* What becomes of the task. *)

LEMMA NoneWaiting == "none" \in Waiting /\ \A p \in Proposals : p \in Waiting
BY DEF Waiting

LEMMA TableEffect ==
    ASSUME TypeOK, NEW kind \in {"none", "question", "activity"}, NEW cleared \in BOOLEAN,
           Cards(kind)
    PROVE  /\ Table(kind, cleared) \in TaskRecords
           /\ Table(kind, cleared).waiting = kind
           /\ Table(kind, cleared).receipt = task.receipt
           /\ Table(kind, cleared).settled = task.settled
<1> DEFINE card == IF kind = "none" THEN task.card ELSE task.card + 1
           frozen == kind = "activity" \/ (task.frozen /\ ~cleared)
<1>1. card \in 0 .. MaxCards /\ frozen \in BOOLEAN /\ kind \in Waiting
  BY TurnAssumption, SMT DEF Cards, TypeOK, TaskRecords, Waiting
<1>2. Table(kind, cleared) = [task EXCEPT !.waiting = kind, !.card = card, !.frozen = frozen]
  BY DEF Table
<1> HIDE DEF card, frozen
<1>3. /\ Table(kind, cleared).waiting = kind /\ Table(kind, cleared).receipt = task.receipt
      /\ Table(kind, cleared).settled = task.settled
  BY <1>2, SMT DEF TypeOK, TaskRecords
<1>4. Table(kind, cleared) \in TaskRecords
  BY <1>1, <1>2, Zenon DEF TypeOK, TaskRecords
<1> QED BY <1>3, <1>4

LEMMA ReceiptEffect ==
    ASSUME TypeOK
    PROVE  LET u == [task EXCEPT !.waiting = "none", !.receipt = TRUE]
           IN  /\ u \in TaskRecords
               /\ u.waiting = "none"
               /\ u.card = task.card
               /\ u.receipt
               /\ u.settled = task.settled
<1> DEFINE u == [task EXCEPT !.waiting = "none", !.receipt = TRUE]
<1>1. u \in TaskRecords
  BY NoneWaiting, Zenon DEF TypeOK, TaskRecords
<1>2. u.waiting = "none" /\ u.card = task.card /\ u.receipt /\ u.settled = task.settled
  BY SMT DEF TypeOK, TaskRecords
<1> QED BY <1>1, <1>2

LEMMA OffTableEffect ==
    ASSUME TypeOK, NEW frozen \in BOOLEAN
    PROVE  LET u == [task EXCEPT !.waiting = "none", !.frozen = frozen]
           IN  /\ u \in TaskRecords
               /\ u.waiting = "none"
               /\ u.card = task.card
               /\ u.receipt = task.receipt
               /\ u.settled = task.settled
<1> DEFINE u == [task EXCEPT !.waiting = "none", !.frozen = frozen]
<1>1. u \in TaskRecords
  BY NoneWaiting, Zenon DEF TypeOK, TaskRecords
<1>2. u.waiting = "none" /\ u.card = task.card /\ u.receipt = task.receipt /\ u.settled = task.settled
  BY SMT DEF TypeOK, TaskRecords
<1> QED BY <1>1, <1>2

LEMMA WaitingEffect ==
    ASSUME TypeOK, NEW kind \in Waiting
    PROVE  LET u == [task EXCEPT !.waiting = kind]
           IN  /\ u \in TaskRecords
               /\ u.waiting = kind
               /\ u.card = task.card
               /\ u.active = task.active
               /\ u.receipt = task.receipt
               /\ u.settled = task.settled
<1> DEFINE u == [task EXCEPT !.waiting = kind]
<1>1. u \in TaskRecords
  BY NoneWaiting, Zenon DEF TypeOK, TaskRecords
<1>2. u.waiting = kind /\ u.card = task.card /\ u.active = task.active /\ u.receipt = task.receipt /\ u.settled = task.settled
  BY SMT DEF TypeOK, TaskRecords
<1> QED BY <1>1, <1>2

LEMMA ProgressEffect ==
    ASSUME TypeOK, NEW kind \in Waiting, NEW frozen \in BOOLEAN
    PROVE  LET u == [task EXCEPT !.waiting = kind, !.frozen = frozen]
           IN  /\ u \in TaskRecords
               /\ u.waiting = kind
               /\ u.card = task.card
               /\ u.active = task.active
               /\ u.receipt = task.receipt
               /\ u.settled = task.settled
<1> DEFINE u == [task EXCEPT !.waiting = kind, !.frozen = frozen]
<1>1. u \in TaskRecords
  BY Zenon DEF TypeOK, TaskRecords
<1>2. u.waiting = kind /\ u.card = task.card /\ u.active = task.active /\ u.receipt = task.receipt /\ u.settled = task.settled
  BY SMT DEF TypeOK, TaskRecords
<1> QED BY <1>1, <1>2

LEMMA CancelEffect ==
    ASSUME TypeOK
    PROVE  LET u == [task EXCEPT !.status = "CANCELLED", !.waiting = "none"]
           IN  /\ u \in TaskRecords
               /\ u.waiting = "none"
               /\ u.card = task.card
               /\ u.receipt = task.receipt
               /\ u.settled = task.settled
<1> DEFINE u == [task EXCEPT !.status = "CANCELLED", !.waiting = "none"]
<1>1. u \in TaskRecords
  BY NoneWaiting, Zenon DEF TypeOK, TaskRecords
<1>2. u.waiting = "none" /\ u.card = task.card /\ u.receipt = task.receipt /\ u.settled = task.settled
  BY SMT DEF TypeOK, TaskRecords
<1> QED BY <1>1, <1>2

LEMMA OfferEffect ==
    ASSUME TypeOK, NEW p \in Proposals, Cards(p), p # "none"
    PROVE  LET u == [task EXCEPT !.waiting = p, !.card = @ + 1]
           IN  /\ u \in TaskRecords
               /\ u.waiting = p
               /\ u.receipt = task.receipt
               /\ u.settled = task.settled
<1> DEFINE u == [task EXCEPT !.waiting = p, !.card = @ + 1]
<1>0. task.card + 1 \in 0 .. MaxCards
  BY TurnAssumption, SMT DEF Cards, TypeOK, TaskRecords
<1>1. u \in TaskRecords
  BY <1>0, NoneWaiting, Zenon DEF TypeOK, TaskRecords
<1>2. u.waiting = p /\ u.receipt = task.receipt /\ u.settled = task.settled
  BY SMT DEF TypeOK, TaskRecords
<1> QED BY <1>1, <1>2

LEMMA CompleteEffect ==
    ASSUME TypeOK
    PROVE  LET u == [task EXCEPT !.status = "COMPLETED"]
           IN  /\ u \in TaskRecords
               /\ u.waiting = task.waiting
               /\ u.card = task.card
               /\ u.receipt = task.receipt
               /\ u.settled = task.settled
<1> DEFINE u == [task EXCEPT !.status = "COMPLETED"]
<1>1. u \in TaskRecords
  BY NoneWaiting, Zenon DEF TypeOK, TaskRecords
<1>2. u.waiting = task.waiting /\ u.card = task.card /\ u.receipt = task.receipt /\ u.settled = task.settled
  BY SMT DEF TypeOK, TaskRecords
<1> QED BY <1>1, <1>2

-----------------------------------------------------------------------------
(* The turns and the workers when a turn is settled. *)

\* Settling a turn needs the lease; what succeeds was not superseded.
LEMMA HoldsRunning ==
    ASSUME IInv, NEW w \in Actors, Holds(w), worker[w].pc \notin {"idle", "retrying", "superseded"}
    PROVE  /\ worker[w].turn \in Turns /\ turn[worker[w].turn].status = "RUNNING"
           /\ ~Newer(worker[w].turn)
BY DEF IInv, Busy, Holds, Open

LEMMA SettledTurn ==
    ASSUME IInv, NEW w \in Actors, worker[w].pc # "idle", turn[worker[w].turn].status = "RUNNING",
           NEW result \in {"SUCCEEDED", "FAILED"}, NEW retryable \in BOOLEAN,
           NEW updated \in TaskRecords, Settle(w, result, retryable, updated),
           Leave(w) \/ (worker' = [worker EXCEPT ![w] = Idle] /\ updated.waiting = task.waiting),
           updated.card = task.card \/ (result = "SUCCEEDED" /\ ~Newer(worker[w].turn))
    PROVE  /\ turn' \in [Turns -> TurnRecords] /\ task' \in TaskRecords
           /\ worker' \in [Actors -> WorkerRecords]
           /\ OneOpenTurn' /\ Busy' /\ Seen' /\ CardKept' /\ Answering'
<1> DEFINE u == worker[w].turn
<1>1. u \in Turns /\ \A v \in Actors : worker[v].pc # "idle" => worker[v].turn \in Turns
  BY DEF IInv, Busy
<1>2. /\ turn' \in [Turns -> TurnRecords] /\ task' \in TaskRecords
      /\ \A t \in Turns : /\ turn'[t].status = (IF t = u THEN result ELSE turn[t].status)
                          /\ turn'[t].input = turn[t].input /\ turn'[t].card = turn[t].card
      /\ task'.active = 0 /\ task'.waiting = updated.waiting /\ task'.card = updated.card
  BY <1>1, SettleEffect DEF IInv
<1>3. /\ worker' \in [Actors -> WorkerRecords] /\ worker'[w].pc = "idle"
      /\ \A v \in Actors : v # w =>
           /\ worker'[v].pc = worker[v].pc /\ worker'[v].turn = worker[v].turn
           /\ worker'[v].sees = worker[v].sees /\ worker'[v].owns = worker[v].owns
           /\ worker'[v].current => worker[v].current
      /\ Leave(w) => \A v \in Actors : ~worker'[v].current
  BY LeaveEffect DEF IInv
<1> HIDE DEF u
<1>4. \A t \in Turns : ~Open(t)'
  <2> TAKE t \in Turns
  <2>1. turn[u].status = "RUNNING" /\ Open(u)
    BY DEF u, Open
  <2>2. Open(t) => t = u
    BY <1>1, <2>1 DEF IInv, OneOpenTurn
  <2> QED BY <1>2, <2>2 DEF Open
<1>5. OneOpenTurn'
  <2>1. \A t \in Turns : t # 0
    BY DEF Turns
  <2> QED BY <1>2, <1>4, <2>1 DEF OneOpenTurn
<1>6. Busy'
  BY <1>1, <1>2, <1>3, <1>4 DEF IInv, Busy
<1>7. Seen'
  BY <1>2, <1>3 DEF IInv, Seen
<1>8. CardKept'
  <2> SUFFICES ASSUME NEW t \in Turns, turn'[t].status \in {"PENDING", "RUNNING", "FAILED"},
                      ~Newer(t)', turn'[t].input \in {"confirm", "reject"}
               PROVE  turn'[t].card = task'.card
    BY DEF CardKept
  <2>1. Accepted' = Accepted
    BY <1>1, <1>2 DEF Accepted, u
  <2>2. ~Newer(t)
    BY <2>1 DEF Newer
  <2>3. turn[t].status \in {"PENDING", "RUNNING", "FAILED"} /\ turn[t].input \in {"confirm", "reject"}
    BY <1>2 DEF u
  <2>4. turn[t].card = task.card
    BY <2>2, <2>3 DEF IInv, CardKept
  <2>5. CASE updated.card = task.card
    BY <1>2, <2>4, <2>5
  <2>6. CASE result = "SUCCEEDED" /\ ~Newer(u)
    <3>1. t # u
      BY <1>2, <2>6
    <3>2. t \in Accepted /\ u \in Accepted
      BY <1>1, <2>3 DEF Accepted, u
    <3>3. ~(u > t) /\ ~(t > u)
      BY <2>2, <2>6, <3>2 DEF Newer
    <3> QED BY <1>1, <3>1, <3>3, SMT DEF Turns
  <2> QED BY <2>5, <2>6 DEF u
<1>9. Answering'
  BY <1>1, <1>2, <1>3 DEF IInv, Answering
<1> QED BY <1>2, <1>3, <1>5, <1>6, <1>7, <1>8, <1>9

LEMMA FollowedTurn ==
    ASSUME IInv, NEW w \in Actors, worker[w].pc # "idle", turn[worker[w].turn].status = "RUNNING",
           NEW updated \in TaskRecords, SettleAndFollow(w, updated), Leave(w), updated.card = task.card
    PROVE  /\ turn' \in [Turns -> TurnRecords] /\ task' \in TaskRecords
           /\ worker' \in [Actors -> WorkerRecords]
           /\ OneOpenTurn' /\ Busy' /\ Seen' /\ CardKept' /\ Answering'
<1> DEFINE u == worker[w].turn
<1>1. u \in Turns /\ \A v \in Actors : worker[v].pc # "idle" => worker[v].turn \in Turns
  BY DEF IInv, Busy
<1>2. /\ turn' \in [Turns -> TurnRecords] /\ task' \in TaskRecords
      /\ task'.waiting = updated.waiting /\ task'.card = updated.card
      /\ \E n \in Turns :
           /\ IsNext(n) /\ n # u
           /\ \A t \in Turns :
                /\ turn'[t].status = IF t = n THEN "PENDING"
                                     ELSE IF t = u THEN "SUCCEEDED" ELSE turn[t].status
                /\ turn'[t].input = IF t = n THEN "continue" ELSE turn[t].input
                /\ t # n => turn'[t].card = turn[t].card
           /\ task'.active = n
  BY <1>1, FollowEffect DEF IInv
<1>3. PICK n \in Turns :
           /\ IsNext(n) /\ n # u
           /\ \A t \in Turns :
                /\ turn'[t].status = IF t = n THEN "PENDING"
                                     ELSE IF t = u THEN "SUCCEEDED" ELSE turn[t].status
                /\ turn'[t].input = IF t = n THEN "continue" ELSE turn[t].input
                /\ t # n => turn'[t].card = turn[t].card
           /\ task'.active = n
  BY <1>2
<1>4. /\ worker' \in [Actors -> WorkerRecords] /\ worker'[w].pc = "idle"
      /\ \A v \in Actors : v # w =>
           /\ worker'[v].pc = worker[v].pc /\ worker'[v].turn = worker[v].turn
           /\ worker'[v].sees = worker[v].sees /\ worker'[v].owns = worker[v].owns
           /\ worker'[v].current => worker[v].current
      /\ \A v \in Actors : ~worker'[v].current
  BY LeaveEffect DEF IInv
<1> HIDE DEF u
<1>5. \A t \in Turns : Open(t)' <=> t = n
  <2> TAKE t \in Turns
  <2>1. turn[u].status = "RUNNING" /\ Open(u)
    BY DEF u, Open
  <2>2. Open(t) => t = u
    BY <1>1, <2>1 DEF IInv, OneOpenTurn
  <2> QED BY <1>3, <2>2 DEF Open
<1>6. OneOpenTurn'
  BY <1>3, <1>5 DEF OneOpenTurn
<1>7. \A v \in Actors : worker[v].pc # "idle" => worker[v].turn # n
  BY <1>3 DEF IInv, Busy, IsNext
<1>8. Busy'
  BY <1>1, <1>3, <1>4, <1>5, <1>7 DEF IInv, Busy
<1>9. Seen'
  BY <1>4 DEF Seen
<1>10. CardKept'
  <2> SUFFICES ASSUME NEW t \in Turns, turn'[t].status \in {"PENDING", "RUNNING", "FAILED"},
                      ~Newer(t)', turn'[t].input \in {"confirm", "reject"}
               PROVE  turn'[t].card = task'.card
    BY DEF CardKept
  <2>1. Accepted \subseteq Accepted'
    BY <1>1, <1>3 DEF Accepted, u
  <2>2. ~Newer(t)
    BY <2>1 DEF Newer
  <2>3. t # n
    BY <1>3
  <2>4. turn[t].status \in {"PENDING", "RUNNING", "FAILED"} /\ turn[t].input \in {"confirm", "reject"}
    BY <1>3, <2>3
  <2> QED BY <1>2, <1>3, <2>2, <2>3, <2>4 DEF IInv, CardKept
<1>11. Answering'
  BY <1>1, <1>3, <1>4, <1>7 DEF IInv, Answering
<1> QED BY <1>2, <1>4, <1>6, <1>8, <1>9, <1>10, <1>11

\* The marks of the others stay.
LEMMA MarksStay ==
    ASSUME IInv, NEW w \in Actors, Leave(w) \/ worker' = [worker EXCEPT ![w] = Idle],
           \A p \in Proposals : claim[p] # "NONE" => claim'[p] # "NONE",
           crm.effects \subseteq crm'.effects
    PROVE  Marked'
<1>1. /\ worker'[w].pc = "idle"
      /\ \A v \in Actors : v # w =>
           worker'[v].pc = worker[v].pc /\ worker'[v].sees = worker[v].sees
  BY LeaveEffect DEF IInv
<1>2. Claimed \subseteq Proposals
  BY TurnAssumption
<1> QED BY <1>1, <1>2 DEF IInv, Marked

\* Nothing is said or done about a proposal.
LEMMA ProvenStays ==
    ASSUME Proven, task'.settled = task.settled, UNCHANGED <<claim, crm>>
    PROVE  Proven'
BY DEF Proven

-----------------------------------------------------------------------------
(* The steps that settle a turn. *)

\* A turn is settled and nothing happens outside the task.
LEMMA SettledQuietly ==
    ASSUME IInv, NEW w \in Actors, worker[w].pc # "idle", turn[worker[w].turn].status = "RUNNING",
           NEW result \in {"SUCCEEDED", "FAILED"}, NEW retryable \in BOOLEAN,
           NEW updated \in TaskRecords, Settle(w, result, retryable, updated),
           Leave(w) \/ (worker' = [worker EXCEPT ![w] = Idle] /\ updated.waiting = task.waiting),
           updated.card = task.card \/ (result = "SUCCEEDED" /\ ~Newer(worker[w].turn)),
           updated.settled = task.settled, updated.receipt = task.receipt,
           updated.waiting \in Proposals => task.settled[updated.waiting] = "open",
           updated.waiting \in {"question", "activity"} => ~task.receipt,
           UNCHANGED <<claim, crm, faults>>
    PROVE  IInv'
<1>1. /\ turn' \in [Turns -> TurnRecords] /\ task' \in TaskRecords
      /\ worker' \in [Actors -> WorkerRecords]
      /\ OneOpenTurn' /\ Busy' /\ Seen' /\ CardKept' /\ Answering'
  BY SettledTurn
<1>2. worker[w].turn \in Turns
  BY DEF IInv, Busy
<1>3. task'.waiting = updated.waiting /\ task'.receipt = task.receipt /\ task'.settled = task.settled
  BY <1>2, SettleEffect DEF IInv
<1>4. TypeOK'
  BY <1>1 DEF IInv, TypeOK
<1>5. Marked'
  BY MarksStay
<1>6. Proven'
  BY <1>3, ProvenStays DEF IInv
<1>7. OnTable' /\ Unwritten' /\ WrittenOnce'
  BY <1>3 DEF IInv, OnTable, Unwritten, WrittenOnce
<1> QED BY <1>1, <1>4, <1>5, <1>6, <1>7 DEF IInv

LEMMA StructuredStep == ASSUME IInv, NEW w \in Actors, Structured(w) PROVE IInv'
<1>1. worker[w].pc = "working" /\ Holds(w) /\ Leave(w) /\ ~task.receipt /\ UNCHANGED <<claim, crm, faults>>
  BY DEF Structured, Working
<1>2. turn[worker[w].turn].status = "RUNNING" /\ ~Newer(worker[w].turn)
  BY <1>1, HoldsRunning
<1>3. PICK kind \in {"none", "question", "activity"}, cleared \in BOOLEAN :
          Cards(kind) /\ Settle(w, "SUCCEEDED", FALSE, Table(kind, cleared))
  BY DEF Structured
<1>4. /\ Table(kind, cleared) \in TaskRecords
      /\ Table(kind, cleared).waiting = kind /\ Table(kind, cleared).receipt = task.receipt
      /\ Table(kind, cleared).settled = task.settled
  BY <1>3, TableEffect DEF IInv
<1>5. kind \notin Proposals
  BY TurnAssumption
<1> QED BY <1>1, <1>2, <1>3, <1>4, <1>5, SettledQuietly

LEMMA RevisedStep == ASSUME IInv, NEW w \in Actors, Revised(w) PROVE IInv'
<1>1. /\ worker[w].pc = "working" /\ Holds(w) /\ Leave(w) /\ task.waiting = "activity"
      /\ Cards("activity") /\ Settle(w, "SUCCEEDED", FALSE, Table("activity", FALSE))
      /\ UNCHANGED <<claim, crm, faults>>
  BY DEF Revised, Working
<1>2. turn[worker[w].turn].status = "RUNNING" /\ ~Newer(worker[w].turn)
  BY <1>1, HoldsRunning
<1>3. /\ Table("activity", FALSE) \in TaskRecords
      /\ Table("activity", FALSE).waiting = "activity" /\ Table("activity", FALSE).receipt = task.receipt
      /\ Table("activity", FALSE).settled = task.settled
  BY <1>1, TableEffect DEF IInv
<1>4. "activity" \notin Proposals /\ ~task.receipt
  BY <1>1, TurnAssumption DEF IInv, Unwritten
<1> QED BY <1>1, <1>2, <1>3, <1>4, SettledQuietly

LEMMA ActivityRefusedStep == ASSUME IInv, NEW w \in Actors, ActivityRefused(w) PROVE IInv'
<1> DEFINE updated == [task EXCEPT !.waiting = "none", !.frozen = Working(w, {"confirm"})]
<1>1. /\ worker[w].pc = "working" /\ Holds(w) /\ Leave(w)
      /\ Settle(w, "SUCCEEDED", FALSE, updated) /\ UNCHANGED <<claim, crm, faults>>
  BY DEF ActivityRefused, Working
<1>2. turn[worker[w].turn].status = "RUNNING"
  BY <1>1, HoldsRunning
<1>3. Working(w, {"confirm"}) \in BOOLEAN
  BY DEF Working
<1>4. /\ updated \in TaskRecords /\ updated.waiting = "none" /\ updated.card = task.card
      /\ updated.receipt = task.receipt /\ updated.settled = task.settled
  BY <1>3, OffTableEffect DEF IInv
<1>5. "none" \notin Proposals
  BY TurnAssumption
<1> HIDE DEF updated
<1> QED BY <1>1, <1>2, <1>4, <1>5, SettledQuietly

LEMMA ActivityUnknownStep == ASSUME IInv, NEW w \in Actors, ActivityUnknown(w) PROVE IInv'
<1> DEFINE updated == [task EXCEPT !.waiting = "none"]
<1>1. /\ worker[w].pc = "working" /\ turn[worker[w].turn].status = "RUNNING" /\ Leave(w)
      /\ Settle(w, "FAILED", FALSE, updated) /\ UNCHANGED <<claim, crm, faults>>
  BY DEF ActivityUnknown, Working
<1>2. /\ updated \in TaskRecords /\ updated.waiting = "none" /\ updated.card = task.card
      /\ updated.receipt = task.receipt /\ updated.settled = task.settled
  BY NoneWaiting, WaitingEffect DEF IInv
<1>3. "none" \notin Proposals
  BY TurnAssumption
<1> HIDE DEF updated
<1> QED BY <1>1, <1>2, <1>3, SettledQuietly

\* A turn that leaves the task as it is.
LEMMA TaskAsItWas ==
    ASSUME IInv, NEW w \in Actors, worker[w].pc # "idle", turn[worker[w].turn].status = "RUNNING",
           NEW result \in {"SUCCEEDED", "FAILED"}, NEW retryable \in BOOLEAN,
           Settle(w, result, retryable, task), Leave(w) \/ worker' = [worker EXCEPT ![w] = Idle],
           UNCHANGED <<claim, crm, faults>>
    PROVE  IInv'
<1>1. task \in TaskRecords
  BY DEF IInv, TypeOK
<1>2. /\ task.waiting \in Proposals => task.settled[task.waiting] = "open"
      /\ task.waiting \in {"question", "activity"} => ~task.receipt
  BY DEF IInv, OnTable, Unwritten
<1> QED BY <1>1, <1>2, SettledQuietly

LEMMA UnansweredStep == ASSUME IInv, NEW w \in Actors, Unanswered(w) PROVE IInv'
<1>1. /\ worker[w].pc = "working" /\ Holds(w) /\ worker' = [worker EXCEPT ![w] = Idle]
      /\ Settle(w, "SUCCEEDED", FALSE, task) /\ UNCHANGED <<claim, crm, faults>>
  BY DEF Unanswered, Working
<1>2. turn[worker[w].turn].status = "RUNNING"
  BY <1>1, HoldsRunning
<1> QED BY <1>1, <1>2, TaskAsItWas

LEMMA StageFailedStep == ASSUME IInv, NEW w \in Actors, StageFailed(w) PROVE IInv'
<1>1. /\ worker[w].pc = "working" /\ Holds(w) /\ Leave(w) /\ UNCHANGED <<claim, crm, faults>>
      /\ \E retryable \in BOOLEAN : Settle(w, "FAILED", retryable, task)
  BY DEF StageFailed, Working
<1>2. turn[worker[w].turn].status = "RUNNING"
  BY <1>1, HoldsRunning
<1> QED BY <1>1, <1>2, TaskAsItWas

LEMMA FailedStep == ASSUME IInv, NEW w \in Actors, Failed(w) PROVE IInv'
<1>1. /\ worker[w].pc # "idle" /\ Holds(w) /\ worker' = [worker EXCEPT ![w] = Idle]
      /\ \E retryable \in BOOLEAN : Settle(w, "FAILED", retryable, task)
      /\ UNCHANGED <<claim, crm, faults>>
  BY DEF Failed
<1>2. turn[worker[w].turn].status = "RUNNING"
  BY <1>1 DEF Holds
<1> QED BY <1>1, <1>2, TaskAsItWas

LEMMA CancelledStep == ASSUME IInv, NEW w \in Actors, Cancelled(w) PROVE IInv'
<1> DEFINE updated == [task EXCEPT !.status = "CANCELLED", !.waiting = "none"]
<1>1. /\ worker[w].pc = "working" /\ Holds(w) /\ Leave(w)
      /\ Settle(w, "SUCCEEDED", FALSE, updated) /\ UNCHANGED <<claim, crm, faults>>
  BY DEF Cancelled, Working
<1>2. turn[worker[w].turn].status = "RUNNING"
  BY <1>1, HoldsRunning
<1>3. /\ updated \in TaskRecords /\ updated.waiting = "none" /\ updated.card = task.card
      /\ updated.receipt = task.receipt /\ updated.settled = task.settled
  BY CancelEffect DEF IInv
<1>4. "none" \notin Proposals
  BY TurnAssumption
<1> HIDE DEF updated
<1> QED BY <1>1, <1>2, <1>3, <1>4, SettledQuietly

LEMMA OfferedStep == ASSUME IInv, NEW w \in Actors, Offered(w) PROVE IInv'
<1>1. /\ worker[w].pc = "working" /\ Holds(w) /\ Leave(w) /\ task.waiting = "none"
      /\ UNCHANGED <<claim, crm, faults>>
  BY DEF Offered, Working
<1>2. turn[worker[w].turn].status = "RUNNING" /\ ~Newer(worker[w].turn)
  BY <1>1, HoldsRunning
<1>3. "none" \notin Proposals /\ "question" \notin Proposals /\ "activity" \notin Proposals
  BY TurnAssumption
<1>4. ASSUME NEW p \in Proposals, task.settled[p] = "open", Cards(p),
             Settle(w, "SUCCEEDED", FALSE, [task EXCEPT !.waiting = p, !.card = @ + 1])
      PROVE  IInv'
  <2> DEFINE updated == [task EXCEPT !.waiting = p, !.card = @ + 1]
  <2>1. /\ updated \in TaskRecords /\ updated.waiting = p
        /\ updated.receipt = task.receipt /\ updated.settled = task.settled
    BY <1>3, <1>4, OfferEffect DEF IInv
  <2>2. Settle(w, "SUCCEEDED", FALSE, updated)
    BY <1>4
  <2> HIDE DEF updated
  <2> QED BY <1>1, <1>2, <1>3, <1>4, <2>1, <2>2, SettledQuietly
<1>5. ASSUME Settle(w, "SUCCEEDED", FALSE, [task EXCEPT !.status = "COMPLETED"])
      PROVE  IInv'
  <2> DEFINE updated == [task EXCEPT !.status = "COMPLETED"]
  <2>1. /\ updated \in TaskRecords /\ updated.waiting = "none" /\ updated.card = task.card
        /\ updated.receipt = task.receipt /\ updated.settled = task.settled
    BY <1>1, CompleteEffect DEF IInv
  <2>2. Settle(w, "SUCCEEDED", FALSE, updated)
    BY <1>5
  <2> HIDE DEF updated
  <2> QED BY <1>1, <1>2, <1>3, <2>1, <2>2, SettledQuietly
<1> QED BY <1>4, <1>5 DEF Offered

\* The activity is written: its task had no receipt.
LEMMA ActivityWrittenStep == ASSUME IInv, NEW w \in Actors, ActivityWritten(w) PROVE IInv'
<1> DEFINE updated == [task EXCEPT !.waiting = "none", !.receipt = TRUE]
<1>1. /\ worker[w].pc = "working" /\ Holds(w) /\ Leave(w) /\ task.waiting = "activity"
      /\ SettleAndFollow(w, updated) /\ UNCHANGED <<claim, faults>>
      /\ crm' = [crm EXCEPT !.activities = @ + 1]
  BY DEF ActivityWritten, Working
<1>2. turn[worker[w].turn].status = "RUNNING" /\ worker[w].turn \in Turns
  BY <1>1, HoldsRunning
<1>3. /\ updated \in TaskRecords /\ updated.waiting = "none" /\ updated.card = task.card
      /\ updated.receipt /\ updated.settled = task.settled
  BY ReceiptEffect DEF IInv
<1>4. "none" \notin Proposals
  BY TurnAssumption
<1> HIDE DEF updated
<1>5. /\ turn' \in [Turns -> TurnRecords] /\ task' \in TaskRecords
      /\ worker' \in [Actors -> WorkerRecords]
      /\ OneOpenTurn' /\ Busy' /\ Seen' /\ CardKept' /\ Answering'
  BY <1>1, <1>2, <1>3, FollowedTurn
<1>6. task'.waiting = "none" /\ task'.receipt /\ task'.settled = task.settled
  BY <1>1, <1>2, <1>3, FollowEffect DEF IInv
<1>7. /\ crm' \in [activities : Nat, effects : SUBSET Proposals]
      /\ crm'.activities = crm.activities + 1 /\ crm'.effects = crm.effects
  BY <1>1, SMT DEF IInv, TypeOK
<1>8. TypeOK'
  BY <1>1, <1>5, <1>7 DEF IInv, TypeOK
<1>9. Marked'
  BY <1>1, <1>7, MarksStay
<1>10. Proven'
  BY <1>1, <1>6, <1>7 DEF IInv, Proven
<1>11. OnTable' /\ Unwritten'
  BY <1>4, <1>6 DEF OnTable, Unwritten
<1>12. WrittenOnce'
  BY <1>1, <1>6, <1>7 DEF IInv, Unwritten, WrittenOnce
<1> QED BY <1>5, <1>8, <1>9, <1>10, <1>11, <1>12 DEF IInv

-----------------------------------------------------------------------------
(* The steps that settle a proposal. *)

\* The card's proposal gets its final word, which is as the CRM has it.
LEMMA Concluded ==
    ASSUME IInv, NEW w \in Actors, worker[w].pc \in {"working", "executed"}, NEW p \in Proposals,
           worker[w].sees = p, NEW word \in {"executed", "refused"}, Conclude(w, word),
           UNCHANGED faults,
           claim' \in [Proposals -> {"NONE", "CLAIMED", "UNKNOWN", "SUCCEEDED", "RECONCILED", "REJECTED"}],
           crm' \in [activities : Nat, effects : SUBSET Proposals],
           crm'.activities = crm.activities,
           \A q \in Proposals : claim[q] # "NONE" => claim'[q] # "NONE",
           crm.effects \subseteq crm'.effects,
           \A q \in Proposals : q # p => claim'[q] = claim[q] /\ (q \in crm'.effects => q \in crm.effects),
           IF word = "executed" THEN p \in crm'.effects /\ (p \in Claimed => claim'[p] # "NONE")
           ELSE p \notin crm'.effects /\ (p \in Claimed => claim'[p] = "NONE")
    PROVE  IInv'
<1> DEFINE updated == [task EXCEPT !.waiting = "none", !.settled[p] = word]
<1>0. updated = [task EXCEPT !.waiting = "none", !.settled[p] = word]
  OBVIOUS
<1>1. Holds(w) /\ Leave(w) /\ SettleAndFollow(w, updated)
  BY DEF Conclude
<1> HIDE DEF updated
<1>2. turn[worker[w].turn].status = "RUNNING" /\ worker[w].turn \in Turns
  BY <1>1, HoldsRunning
<1>3. /\ updated \in TaskRecords /\ updated.waiting = "none" /\ updated.card = task.card
      /\ updated.receipt = task.receipt
      /\ updated.settled = [task.settled EXCEPT ![p] = word]
  <2>1. task \in TaskRecords
    BY DEF IInv, TypeOK
  <2>2. updated \in TaskRecords
    BY <1>0, <2>1, NoneWaiting, Zenon DEF TaskRecords
  <2>3. updated.waiting = "none" /\ updated.card = task.card /\ updated.receipt = task.receipt
        /\ updated.settled = [task.settled EXCEPT ![p] = word]
    BY <1>0, <2>1, SMT DEF TaskRecords
  <2> QED BY <2>2, <2>3
<1>4. /\ turn' \in [Turns -> TurnRecords] /\ task' \in TaskRecords
      /\ worker' \in [Actors -> WorkerRecords]
      /\ OneOpenTurn' /\ Busy' /\ Seen' /\ CardKept' /\ Answering'
  BY <1>1, <1>2, <1>3, FollowedTurn
<1>5. /\ task'.waiting = "none" /\ task'.receipt = task.receipt
      /\ task'.settled = [task.settled EXCEPT ![p] = word]
  BY <1>1, <1>2, <1>3, FollowEffect DEF IInv
<1>6. TypeOK'
  BY <1>4 DEF IInv, TypeOK
<1>7. Marked'
  BY <1>1, MarksStay
<1>8. task.settled \in [Proposals -> {"open", "executed", "refused"}]
  BY DEF IInv, TypeOK, TaskRecords
<1>9. Proven'
  <2>1. task'.settled[p] = word /\ \A q \in Proposals : q # p => task'.settled[q] = task.settled[q]
    BY <1>5, <1>8
  <2>2. ASSUME NEW q \in Proposals, q # p
        PROVE  /\ task'.settled[q] = "executed" => q \in crm'.effects
               /\ task'.settled[q] = "refused" =>
                    q \notin crm'.effects /\ (q \in Claimed => claim'[q] = "NONE")
               /\ q \in crm'.effects =>
                    IF q \in Claimed THEN claim'[q] # "NONE" ELSE task'.settled[q] = "executed"
    BY <2>1, <2>2 DEF IInv, Proven
  <2>3. /\ task'.settled[p] = "executed" => p \in crm'.effects
        /\ task'.settled[p] = "refused" =>
             p \notin crm'.effects /\ (p \in Claimed => claim'[p] = "NONE")
        /\ p \in crm'.effects =>
             IF p \in Claimed THEN claim'[p] # "NONE" ELSE task'.settled[p] = "executed"
    BY <2>1
  <2> QED BY <2>2, <2>3 DEF Proven
<1>10. OnTable' /\ Unwritten'
  <2>1. "none" \notin Proposals
    BY TurnAssumption
  <2> QED BY <1>5, <2>1 DEF OnTable, Unwritten
<1>11. WrittenOnce'
  BY <1>5 DEF IInv, WrittenOnce
<1> QED BY <1>4, <1>6, <1>7, <1>9, <1>10, <1>11 DEF IInv

LEMMA ReconciledStep == ASSUME IInv, NEW w \in Actors, Reconciled(w) PROVE IInv'
<1> DEFINE p == worker[w].sees
<1>1. /\ worker[w].pc = "working" /\ p \in Proposals /\ p \in Claimed /\ claim[p] # "NONE"
      /\ p \in crm.effects /\ claim' = [claim EXCEPT ![p] = "RECONCILED"]
      /\ Conclude(w, "executed") /\ UNCHANGED <<crm, faults>>
  BY DEF Reconciled, Answers, Working, PriorClaim
<1>2. claim' \in [Proposals -> {"NONE", "CLAIMED", "UNKNOWN", "SUCCEEDED", "RECONCILED", "REJECTED"}]
  BY <1>1 DEF IInv, TypeOK
<1>3. claim'[p] = "RECONCILED" /\ \A q \in Proposals : q # p => claim'[q] = claim[q]
  BY <1>1 DEF IInv, TypeOK
<1>4. crm \in [activities : Nat, effects : SUBSET Proposals]
  BY DEF IInv, TypeOK
<1> HIDE DEF p
<1>5. \A q \in Proposals : claim[q] # "NONE" => claim'[q] # "NONE"
  BY <1>3
<1> QED BY <1>1, <1>2, <1>3, <1>4, <1>5, Concluded DEF p

LEMMA ProposalRefusedStep == ASSUME IInv, NEW w \in Actors, ProposalRefused(w) PROVE IInv'
<1> DEFINE p == worker[w].sees
<1>1. /\ worker[w].pc = "working" /\ p \in Proposals /\ (p \in Claimed => claim[p] = "NONE")
      /\ Conclude(w, "refused") /\ UNCHANGED <<claim, crm, faults>>
  BY DEF ProposalRefused, Answers, Working, PriorClaim
<1>2. task.settled[p] = "open"
  BY <1>1 DEF IInv, Seen, OnTable, Conclude, Fresh
<1>3. p \notin crm.effects
  BY <1>1, <1>2 DEF IInv, Proven
<1>4. /\ crm \in [activities : Nat, effects : SUBSET Proposals]
      /\ claim \in [Proposals -> {"NONE", "CLAIMED", "UNKNOWN", "SUCCEEDED", "RECONCILED", "REJECTED"}]
  BY DEF IInv, TypeOK
<1> HIDE DEF p
<1> QED BY <1>1, <1>3, <1>4, Concluded DEF p

LEMMA PerformedStep == ASSUME IInv, NEW w \in Actors, Performed(w) PROVE IInv'
<1> DEFINE p == worker[w].sees
<1>1. /\ worker[w].pc = "working" /\ p \in Proposals /\ p \notin Claimed
      /\ crm' = [crm EXCEPT !.effects = @ \cup {p}]
      /\ Conclude(w, "executed") /\ UNCHANGED <<claim, faults>>
  BY DEF Performed, Answers, Working
<1> HIDE DEF p
<1>2. /\ crm' \in [activities : Nat, effects : SUBSET Proposals]
      /\ crm'.activities = crm.activities /\ crm'.effects = crm.effects \cup {p}
  BY <1>1, SMT DEF IInv, TypeOK
<1>3. claim \in [Proposals -> {"NONE", "CLAIMED", "UNKNOWN", "SUCCEEDED", "RECONCILED", "REJECTED"}]
  BY DEF IInv, TypeOK
<1> QED BY <1>1, <1>2, <1>3, Concluded DEF p

LEMMA CommandDoneStep == ASSUME IInv, NEW w \in Actors, CommandDone(w) PROVE IInv'
<1> DEFINE p == worker[w].sees
<1>1. /\ worker[w].pc = "executed" /\ claim' = [claim EXCEPT ![p] = "SUCCEEDED"]
      /\ Conclude(w, "executed") /\ UNCHANGED <<crm, faults>>
  BY DEF CommandDone
<1>2. p \in Claimed /\ p \in Proposals /\ claim[p] # "NONE" /\ p \in crm.effects
  BY <1>1, TurnAssumption DEF IInv, Marked
<1>3. claim' \in [Proposals -> {"NONE", "CLAIMED", "UNKNOWN", "SUCCEEDED", "RECONCILED", "REJECTED"}]
  BY <1>1, <1>2 DEF IInv, TypeOK
<1>4. claim'[p] = "SUCCEEDED" /\ \A q \in Proposals : q # p => claim'[q] = claim[q]
  BY <1>1, <1>2 DEF IInv, TypeOK
<1>5. crm \in [activities : Nat, effects : SUBSET Proposals]
  BY DEF IInv, TypeOK
<1> HIDE DEF p
<1>6. \A q \in Proposals : claim[q] # "NONE" => claim'[q] # "NONE"
  BY <1>4
<1> QED BY <1>1, <1>2, <1>3, <1>4, <1>5, <1>6, Concluded DEF p

-----------------------------------------------------------------------------
(* The steps of a command. *)

LEMMA PcEffect ==
    ASSUME NEW u \in WorkerRecords,
           NEW pc \in {"idle", "superseded", "working", "claimed", "executed", "unknown", "retrying"}
    PROVE  /\ [u EXCEPT !.pc = pc] \in WorkerRecords /\ [u EXCEPT !.pc = pc].pc = pc
           /\ [u EXCEPT !.pc = pc].turn = u.turn /\ [u EXCEPT !.pc = pc].sees = u.sees
           /\ [u EXCEPT !.pc = pc].owns = u.owns /\ [u EXCEPT !.pc = pc].current = u.current
BY SMT DEF WorkerRecords

LEMMA MovedEffect ==
    ASSUME NEW ws \in [Actors -> WorkerRecords], NEW keep, NEW v \in Actors
    PROVE  /\ Moved(ws, keep)[v] \in WorkerRecords
           /\ Moved(ws, keep)[v].pc = ws[v].pc /\ Moved(ws, keep)[v].turn = ws[v].turn
           /\ Moved(ws, keep)[v].sees = ws[v].sees /\ Moved(ws, keep)[v].owns = ws[v].owns
           /\ Moved(ws, keep)[v].current => ws[v].current
           /\ Moved(ws, keep)[v].current => v \in keep
<1> DEFINE b == ws[v].current /\ v \in keep
<1>1. ws[v] \in WorkerRecords
  OBVIOUS
<1>2. b \in BOOLEAN
  OBVIOUS
<1>3. Moved(ws, keep)[v] = [ws[v] EXCEPT !.current = b]
  BY DEF Moved
<1> HIDE DEF b
<1>4. [ws[v] EXCEPT !.current = b] \in WorkerRecords /\ [ws[v] EXCEPT !.current = b].current = b
      /\ [ws[v] EXCEPT !.current = b].pc = ws[v].pc /\ [ws[v] EXCEPT !.current = b].turn = ws[v].turn
      /\ [ws[v] EXCEPT !.current = b].sees = ws[v].sees /\ [ws[v] EXCEPT !.current = b].owns = ws[v].owns
  BY <1>1, <1>2, CurrentField, Zenon
<1> QED BY <1>3, <1>4, Zenon DEF b

LEMMA MovedType ==
    ASSUME NEW ws \in [Actors -> WorkerRecords], NEW keep
    PROVE  Moved(ws, keep) \in [Actors -> WorkerRecords]
<1>1. \A v \in Actors : Moved(ws, keep)[v] \in WorkerRecords
  BY MovedEffect
<1> QED BY <1>1 DEF Moved

\* A worker goes on with its turn; others may lose the version they loaded.
LEMMA WorkerGoesOn ==
    ASSUME IInv, NEW w \in Actors, worker[w].pc \notin {"idle", "retrying", "superseded"},
           worker' \in [Actors -> WorkerRecords],
           worker'[w].pc \in {"working", "claimed", "executed", "unknown"},
           \A v \in Actors : /\ v # w => worker'[v].pc = worker[v].pc
                             /\ worker'[v].turn = worker[v].turn /\ worker'[v].owns = worker[v].owns,
           UNCHANGED <<turn, faults>>, task'.active = task.active, task'.card = task.card
    PROVE  OneOpenTurn' /\ Busy' /\ CardKept'
<1>1. OneOpenTurn' /\ CardKept'
  BY DEF IInv, OneOpenTurn, Open, CardKept, Newer, Accepted
<1>2. Busy'
  BY DEF IInv, Busy, Open, Newer, Accepted
<1> QED BY <1>1, <1>2

LEMMA MarkUnknownStep == ASSUME IInv, NEW w \in Actors, MarkUnknown(w) PROVE IInv'
<1> DEFINE p == worker[w].sees
<1>1. /\ worker[w].pc = "working" /\ p \in Proposals /\ p \in Claimed /\ claim[p] # "NONE"
      /\ claim' = [claim EXCEPT ![p] = "UNKNOWN"]
      /\ worker' = [worker EXCEPT ![w] = [worker[w] EXCEPT !.pc = "unknown"]]
      /\ UNCHANGED <<task, turn, crm, faults>>
  BY DEF MarkUnknown, Answers, Working, PriorClaim
<1>2. worker \in [Actors -> WorkerRecords] /\ worker[w] \in WorkerRecords
  BY DEF IInv, TypeOK
<1>3. /\ [worker[w] EXCEPT !.pc = "unknown"] \in WorkerRecords
      /\ [worker[w] EXCEPT !.pc = "unknown"].pc = "unknown"
      /\ [worker[w] EXCEPT !.pc = "unknown"].turn = worker[w].turn
      /\ [worker[w] EXCEPT !.pc = "unknown"].sees = worker[w].sees
      /\ [worker[w] EXCEPT !.pc = "unknown"].owns = worker[w].owns
      /\ [worker[w] EXCEPT !.pc = "unknown"].current = worker[w].current
  BY <1>2, PcEffect
<1>4. /\ worker' \in [Actors -> WorkerRecords] /\ worker'[w].pc = "unknown"
      /\ \A v \in Actors : /\ v # w => worker'[v].pc = worker[v].pc
                           /\ worker'[v].turn = worker[v].turn /\ worker'[v].sees = worker[v].sees
                           /\ worker'[v].owns = worker[v].owns /\ worker'[v].current = worker[v].current
  BY <1>1, <1>2, <1>3
<1>5. /\ claim' \in [Proposals -> {"NONE", "CLAIMED", "UNKNOWN", "SUCCEEDED", "RECONCILED", "REJECTED"}]
      /\ claim'[p] = "UNKNOWN" /\ \A q \in Proposals : q # p => claim'[q] = claim[q]
  BY <1>1 DEF IInv, TypeOK
<1> HIDE DEF p
<1>6. TypeOK'
  BY <1>1, <1>4, <1>5 DEF IInv, TypeOK
<1>7. OneOpenTurn' /\ Busy' /\ CardKept'
  BY <1>1, <1>4, WorkerGoesOn
<1>8. Seen' /\ Answering'
  BY <1>1, <1>4 DEF IInv, Seen, Answering
<1>9. Marked'
  BY <1>1, <1>4, <1>5, TurnAssumption DEF IInv, Marked
<1>10. Proven'
  BY <1>1, <1>5 DEF IInv, Proven
<1>11. OnTable' /\ Unwritten' /\ WrittenOnce'
  BY <1>1 DEF IInv, OnTable, Unwritten, WrittenOnce
<1> QED BY <1>6, <1>7, <1>8, <1>9, <1>10, <1>11 DEF IInv

LEMMA ClaimCommandStep == ASSUME IInv, NEW w \in Actors, ClaimCommand(w) PROVE IInv'
<1> DEFINE p == worker[w].sees
           ws == [worker EXCEPT ![w] = [worker[w] EXCEPT !.pc = "claimed"]]
<1>1. /\ worker[w].pc = "working" /\ turn[worker[w].turn].input = "confirm"
      /\ p \in Proposals /\ p \in Claimed /\ claim[p] = "NONE" /\ Fresh(w)
      /\ claim' = [claim EXCEPT ![p] = "CLAIMED"] /\ worker' = Moved(ws, {w})
      /\ UNCHANGED <<task, turn, crm, faults>>
  BY DEF ClaimCommand, Answers, Working, PriorClaim
<1>2. worker \in [Actors -> WorkerRecords] /\ worker[w] \in WorkerRecords
  BY DEF IInv, TypeOK
<1>3. /\ [worker[w] EXCEPT !.pc = "claimed"] \in WorkerRecords
      /\ [worker[w] EXCEPT !.pc = "claimed"].pc = "claimed"
      /\ [worker[w] EXCEPT !.pc = "claimed"].turn = worker[w].turn
      /\ [worker[w] EXCEPT !.pc = "claimed"].sees = worker[w].sees
      /\ [worker[w] EXCEPT !.pc = "claimed"].owns = worker[w].owns
      /\ [worker[w] EXCEPT !.pc = "claimed"].current = worker[w].current
  BY <1>2, PcEffect
<1>4. /\ ws \in [Actors -> WorkerRecords] /\ ws[w].pc = "claimed"
      /\ \A v \in Actors : /\ v # w => ws[v].pc = worker[v].pc
                           /\ ws[v].turn = worker[v].turn /\ ws[v].sees = worker[v].sees
                           /\ ws[v].owns = worker[v].owns /\ ws[v].current = worker[v].current
  BY <1>2, <1>3
<1> HIDE DEF ws
<1>5. /\ worker' \in [Actors -> WorkerRecords] /\ worker'[w].pc = "claimed"
      /\ \A v \in Actors : /\ v # w => worker'[v].pc = worker[v].pc
                           /\ worker'[v].turn = worker[v].turn /\ worker'[v].sees = worker[v].sees
                           /\ worker'[v].owns = worker[v].owns
                           /\ worker'[v].current => worker[v].current
  <2>1. worker' \in [Actors -> WorkerRecords]
    BY <1>1, <1>4, MovedType
  <2>2. \A v \in Actors : /\ worker'[v].pc = ws[v].pc /\ worker'[v].turn = ws[v].turn
                          /\ worker'[v].sees = ws[v].sees /\ worker'[v].owns = ws[v].owns
                          /\ worker'[v].current => ws[v].current
    <3> TAKE v \in Actors
    <3>1. ws \in [Actors -> WorkerRecords]
      BY <1>4
    <3>2. /\ Moved(ws, {w})[v].pc = ws[v].pc /\ Moved(ws, {w})[v].turn = ws[v].turn
          /\ Moved(ws, {w})[v].sees = ws[v].sees /\ Moved(ws, {w})[v].owns = ws[v].owns
          /\ Moved(ws, {w})[v].current => ws[v].current
      BY <3>1, MovedEffect, SMT
    <3>3. worker' = Moved(ws, {w})
      BY <1>1
    <3> QED BY <3>2, <3>3, Zenon
  <2> QED BY <1>4, <2>1, <2>2
<1>6. /\ claim' \in [Proposals -> {"NONE", "CLAIMED", "UNKNOWN", "SUCCEEDED", "RECONCILED", "REJECTED"}]
      /\ claim'[p] = "CLAIMED" /\ \A q \in Proposals : q # p => claim'[q] = claim[q]
  BY <1>1 DEF IInv, TypeOK
<1>7. task.settled[p] = "open"
  BY <1>1 DEF IInv, Seen, OnTable, Fresh
<1>8. TypeOK'
  BY <1>1, <1>5, <1>6 DEF IInv, TypeOK
<1>9. OneOpenTurn' /\ Busy' /\ CardKept'
  BY <1>1, <1>5, WorkerGoesOn
<1>10. Seen' /\ Answering'
  BY <1>1, <1>5 DEF IInv, Seen, Answering
<1>11. Marked'
  <2>1. ASSUME NEW v \in Actors, v # w
        PROVE  /\ worker'[v].pc \in {"claimed", "executed"} =>
                     worker'[v].sees \in Claimed /\ claim'[worker'[v].sees] # "NONE"
               /\ worker'[v].pc = "executed" => worker'[v].sees \in crm'.effects
    <3>1. worker[v].sees \in Claimed /\ claim[worker[v].sees] # "NONE"
            => worker[v].sees \in Proposals /\ claim'[worker[v].sees] # "NONE"
      BY <1>6, TurnAssumption
    <3> QED BY <1>1, <1>5, <2>1, <3>1 DEF IInv, Marked
  <2>2. worker'[w].pc = "claimed" /\ worker'[w].sees \in Claimed /\ claim'[worker'[w].sees] # "NONE"
    BY <1>1, <1>5, <1>6
  <2> QED BY <2>1, <2>2 DEF Marked
<1> HIDE DEF p
<1>12. Proven'
  BY <1>1, <1>6, <1>7 DEF IInv, Proven
<1>13. OnTable' /\ Unwritten' /\ WrittenOnce'
  BY <1>1 DEF IInv, OnTable, Unwritten, WrittenOnce
<1> QED BY <1>8, <1>9, <1>10, <1>11, <1>12, <1>13 DEF IInv

LEMMA ExecuteCommandStep == ASSUME IInv, NEW w \in Actors, ExecuteCommand(w) PROVE IInv'
<1> DEFINE p == worker[w].sees
<1>1. /\ worker[w].pc = "claimed" /\ crm' = [crm EXCEPT !.effects = @ \cup {p}]
      /\ worker' = [worker EXCEPT ![w] = [worker[w] EXCEPT !.pc = "executed"]]
      /\ UNCHANGED <<task, turn, claim, faults>>
  BY DEF ExecuteCommand
<1>2. p \in Claimed /\ p \in Proposals /\ claim[p] # "NONE" /\ turn[worker[w].turn].input = "confirm"
  BY <1>1, TurnAssumption DEF IInv, Marked, Answering
<1>3. worker \in [Actors -> WorkerRecords] /\ worker[w] \in WorkerRecords
  BY DEF IInv, TypeOK
<1>4. /\ [worker[w] EXCEPT !.pc = "executed"] \in WorkerRecords
      /\ [worker[w] EXCEPT !.pc = "executed"].pc = "executed"
      /\ [worker[w] EXCEPT !.pc = "executed"].turn = worker[w].turn
      /\ [worker[w] EXCEPT !.pc = "executed"].sees = worker[w].sees
      /\ [worker[w] EXCEPT !.pc = "executed"].owns = worker[w].owns
      /\ [worker[w] EXCEPT !.pc = "executed"].current = worker[w].current
  BY <1>3, PcEffect
<1>5. /\ worker' \in [Actors -> WorkerRecords] /\ worker'[w].pc = "executed"
      /\ \A v \in Actors : /\ v # w => worker'[v].pc = worker[v].pc
                           /\ worker'[v].turn = worker[v].turn /\ worker'[v].sees = worker[v].sees
                           /\ worker'[v].owns = worker[v].owns /\ worker'[v].current = worker[v].current
  BY <1>1, <1>3, <1>4
<1>6. /\ crm' \in [activities : Nat, effects : SUBSET Proposals]
      /\ crm'.activities = crm.activities /\ crm'.effects = crm.effects \cup {p}
  BY <1>1, <1>2, SMT DEF IInv, TypeOK
<1>7. task.settled[p] # "refused"
  BY <1>2 DEF IInv, Proven
<1>8. TypeOK'
  BY <1>1, <1>5, <1>6 DEF IInv, TypeOK
<1>9. OneOpenTurn' /\ Busy' /\ CardKept'
  BY <1>1, <1>5, WorkerGoesOn
<1>10. Seen' /\ Answering'
  BY <1>1, <1>2, <1>5 DEF IInv, Seen, Answering
<1>11. Marked'
  <2>1. ASSUME NEW v \in Actors, v # w
        PROVE  /\ worker'[v].pc \in {"claimed", "executed"} =>
                     worker'[v].sees \in Claimed /\ claim'[worker'[v].sees] # "NONE"
               /\ worker'[v].pc = "executed" => worker'[v].sees \in crm'.effects
    BY <1>1, <1>5, <1>6, <2>1 DEF IInv, Marked
  <2>2. worker'[w].sees \in Claimed /\ claim'[worker'[w].sees] # "NONE" /\ worker'[w].sees \in crm'.effects
    BY <1>1, <1>2, <1>5, <1>6
  <2> QED BY <2>1, <2>2 DEF Marked
<1> HIDE DEF p
<1>12. Proven'
  BY <1>1, <1>2, <1>6, <1>7 DEF IInv, Proven
<1>13. OnTable' /\ Unwritten' /\ WrittenOnce'
  BY <1>1, <1>6 DEF IInv, OnTable, Unwritten, WrittenOnce
<1> QED BY <1>8, <1>9, <1>10, <1>11, <1>12, <1>13 DEF IInv

LEMMA AdjudicateStep ==
    ASSUME IInv, NEW p \in Proposals, NEW verdict \in {"SUCCEEDED", "REJECTED"}, Adjudicate(p, verdict)
    PROVE  IInv'
<1>1. claim[p] # "NONE" /\ claim' = [claim EXCEPT ![p] = verdict] /\ UNCHANGED <<task, turn, crm, worker, faults>>
  BY DEF Adjudicate
<1>2. /\ claim' \in [Proposals -> {"NONE", "CLAIMED", "UNKNOWN", "SUCCEEDED", "RECONCILED", "REJECTED"}]
      /\ claim'[p] = verdict /\ \A q \in Proposals : q # p => claim'[q] = claim[q]
  BY <1>1 DEF IInv, TypeOK
<1>3. TypeOK'
  BY <1>1, <1>2 DEF IInv, TypeOK
<1>4. Marked'
  BY <1>1, <1>2, TurnAssumption DEF IInv, Marked
<1>5. Proven'
  BY <1>1, <1>2 DEF IInv, Proven
<1>6. OneOpenTurn' /\ Busy' /\ Seen' /\ CardKept' /\ Answering'
  BY <1>1 DEF IInv, OneOpenTurn, Open, Busy, Newer, Accepted, Seen, CardKept, Answering
<1>7. OnTable' /\ Unwritten' /\ WrittenOnce'
  BY <1>1 DEF IInv, OnTable, Unwritten, WrittenOnce
<1> QED BY <1>3, <1>4, <1>5, <1>6, <1>7 DEF IInv

-----------------------------------------------------------------------------
(* Accepting, claiming, losing and retrying a turn. *)

LEMMA IdleFacts == Idle \in WorkerRecords /\ Idle.pc = "idle"
BY TurnAssumption, NoneWaiting, SMT DEF Idle, WorkerRecords

\* Only one worker changes, and what it did with its proposal stays behind.
LEMMA OneWorker ==
    ASSUME IInv, NEW w \in Actors, NEW e \in WorkerRecords, worker' = [worker EXCEPT ![w] = e],
           e.pc \in {"idle", "retrying"}, UNCHANGED <<task, turn, claim, crm>>,
           faults' \in 0 .. MaxFaults,
           e.pc = "retrying" => e.turn \in Turns /\ turn[e.turn].status # "NONE"
    PROVE  IInv'
<1>1. /\ worker' \in [Actors -> WorkerRecords] /\ worker'[w] = e
      /\ \A v \in Actors : v # w => worker'[v] = worker[v]
  BY DEF IInv, TypeOK
<1>2. TypeOK'
  BY <1>1 DEF IInv, TypeOK
<1>3. OneOpenTurn' /\ CardKept'
  BY DEF IInv, OneOpenTurn, Open, CardKept, Newer, Accepted
<1>4. Busy'
  <2>1. ASSUME NEW v \in Actors, worker'[v].pc # "idle"
        PROVE  /\ worker'[v].turn \in Turns /\ turn[worker'[v].turn].status # "NONE"
               /\ worker'[v].pc \notin {"retrying", "superseded"} /\ worker'[v].owns /\ Open(worker'[v].turn)
                    => ~Newer(worker'[v].turn)
    <3>1. CASE v = w
      BY <1>1, <2>1, <3>1
    <3>2. CASE v # w
      BY <1>1, <2>1, <3>2 DEF IInv, Busy
    <3> QED BY <3>1, <3>2
  <2>2. turn' = turn
    OBVIOUS
  <2> QED BY <2>1, <2>2 DEF Busy, Open, Newer, Accepted
<1>5. Seen' /\ Answering' /\ Marked'
  BY <1>1 DEF IInv, Seen, Answering, Marked
<1>6. OnTable' /\ Proven' /\ Unwritten' /\ WrittenOnce'
  BY DEF IInv, OnTable, Proven, Unwritten, WrittenOnce
<1> QED BY <1>2, <1>3, <1>4, <1>5, <1>6 DEF IInv

LEMMA GoneStep ==
    ASSUME IInv, NEW w \in Actors, Die(w) \/ Lost(w) \/ RetryDenied(w)
    PROVE  IInv'
<1>1. worker' = [worker EXCEPT ![w] = Idle] /\ UNCHANGED <<task, turn, claim, crm>>
  BY DEF Die, Lost, RetryDenied
<1>2. faults \in 0 .. MaxFaults
  BY DEF IInv, TypeOK
<1>3. faults' \in 0 .. MaxFaults
  BY <1>2, TurnAssumption, SMT DEF Die, Lost, RetryDenied
<1> QED BY <1>1, <1>3, IdleFacts, OneWorker

LEMMA AskRetryStep == ASSUME IInv, NEW w \in Actors, NEW t \in Turns, AskRetry(w, t) PROVE IInv'
<1> DEFINE e == [pc |-> "retrying", turn |-> t, sees |-> "none", owns |-> TRUE, current |-> TRUE]
<1>1. /\ worker' = [worker EXCEPT ![w] = e] /\ turn[t].status # "NONE"
      /\ UNCHANGED <<task, turn, claim, crm, faults>>
  BY DEF AskRetry
<1>2. e \in WorkerRecords /\ e.pc = "retrying" /\ e.turn = t
  BY NoneWaiting, SMT DEF WorkerRecords, Turns
<1>3. faults \in 0 .. MaxFaults
  BY DEF IInv, TypeOK
<1> HIDE DEF e
<1> QED BY <1>1, <1>2, <1>3, OneWorker

\* A step that only sets a lease, and faults.
LEMMA LapseStep == ASSUME IInv, NEW t \in Turns, Lapse(t) PROVE IInv'
<1>1. /\ turn' = [turn EXCEPT ![t] = [turn[t] EXCEPT !.live = FALSE]]
      /\ UNCHANGED <<task, claim, crm, worker>>
  BY DEF Lapse
<1>2. turn \in [Turns -> TurnRecords] /\ turn[t] \in TurnRecords
  BY DEF IInv, TypeOK
<1>3. /\ [turn[t] EXCEPT !.live = FALSE] \in TurnRecords
      /\ [turn[t] EXCEPT !.live = FALSE].status = turn[t].status
      /\ [turn[t] EXCEPT !.live = FALSE].input = turn[t].input
      /\ [turn[t] EXCEPT !.live = FALSE].card = turn[t].card
  <2> DEFINE u == turn[t]
  <2> HIDE DEF u
  <2>1. u \in TurnRecords
    BY <1>2 DEF u
  <2>2. /\ [u EXCEPT !.live = FALSE] \in TurnRecords /\ [u EXCEPT !.live = FALSE].status = u.status
        /\ [u EXCEPT !.live = FALSE].input = u.input /\ [u EXCEPT !.live = FALSE].card = u.card
    <3>1. [u EXCEPT !.live = FALSE] \in TurnRecords
      BY <2>1, Zenon DEF TurnRecords
    <3>2. /\ [u EXCEPT !.live = FALSE].status = u.status
          /\ [u EXCEPT !.live = FALSE].input = u.input /\ [u EXCEPT !.live = FALSE].card = u.card
      BY <2>1, SMT DEF TurnRecords
    <3> QED BY <3>1, <3>2
  <2> QED BY <2>2 DEF u
<1>4. /\ turn' \in [Turns -> TurnRecords]
      /\ \A n \in Turns : /\ turn'[n].status = turn[n].status /\ turn'[n].input = turn[n].input
                          /\ turn'[n].card = turn[n].card
  BY <1>1, <1>2, <1>3
<1>5. faults' \in 0 .. MaxFaults
  <2>1. faults \in 0 .. MaxFaults
    BY DEF IInv, TypeOK
  <2> QED BY <2>1, TurnAssumption, SMT DEF Lapse
<1>6. TypeOK'
  BY <1>1, <1>4, <1>5 DEF IInv, TypeOK
<1>7. Accepted' = Accepted /\ \A n \in Turns : Open(n)' <=> Open(n)
  BY <1>4 DEF Accepted, Open
<1>8. OneOpenTurn'
  BY <1>1, <1>7 DEF IInv, OneOpenTurn
<1>9. CardKept'
  BY <1>1, <1>4, <1>7 DEF IInv, CardKept, Newer
<1>10. Busy'
  BY <1>1, <1>4, <1>7 DEF IInv, Busy, Newer
<1>11. Answering'
  BY <1>1, <1>4 DEF IInv, Answering, Busy
<1>12. Seen' /\ Marked' /\ OnTable' /\ Proven' /\ Unwritten' /\ WrittenOnce'
  BY <1>1 DEF IInv, Seen, Marked, OnTable, Proven, Unwritten, WrittenOnce
<1> QED BY <1>6, <1>8, <1>9, <1>10, <1>11, <1>12 DEF IInv

LEMMA ActiveEffect ==
    ASSUME TypeOK, NEW n \in 0 .. MaxTurns
    PROVE  /\ [task EXCEPT !.active = n] \in TaskRecords /\ [task EXCEPT !.active = n].active = n
           /\ [task EXCEPT !.active = n].waiting = task.waiting
           /\ [task EXCEPT !.active = n].card = task.card
           /\ [task EXCEPT !.active = n].receipt = task.receipt
           /\ [task EXCEPT !.active = n].settled = task.settled
<1>1. [task EXCEPT !.active = n] \in TaskRecords
  BY Zenon DEF TypeOK, TaskRecords
<1>2. /\ [task EXCEPT !.active = n].active = n
      /\ [task EXCEPT !.active = n].waiting = task.waiting
      /\ [task EXCEPT !.active = n].card = task.card
      /\ [task EXCEPT !.active = n].receipt = task.receipt
      /\ [task EXCEPT !.active = n].settled = task.settled
  BY SMT DEF TypeOK, TaskRecords
<1> QED BY <1>1, <1>2

LEMMA SubmitStep ==
    ASSUME IInv, NEW input \in Input, NEW card \in 0 .. MaxCards, Submit(input, card)
    PROVE  IInv'
<1>1. PICK n \in Turns : /\ IsNext(n) /\ turn' = [turn EXCEPT ![n] = Pending(input, card)]
                         /\ task' = [task EXCEPT !.active = n]
  BY DEF Submit
<1>2. task.active = 0 /\ UNCHANGED <<claim, crm, worker, faults>>
  BY DEF Submit, NoActiveTurn
<1>3. \A t \in Turns : ~Open(t)
  <2>1. \A t \in Turns : t # 0
    BY DEF Turns
  <2> QED BY <1>2, <2>1 DEF IInv, OneOpenTurn
<1>4. /\ task' \in TaskRecords /\ task'.active = n /\ task'.waiting = task.waiting
      /\ task'.card = task.card /\ task'.receipt = task.receipt /\ task'.settled = task.settled
  <2>1. TypeOK /\ n \in 0 .. MaxTurns
    BY DEF IInv, Turns
  <2> QED BY <1>1, <2>1, ActiveEffect
<1>5. /\ Pending(input, card) \in TurnRecords /\ Pending(input, card).status = "PENDING"
      /\ Pending(input, card).input = input /\ Pending(input, card).card = card
  BY SMT DEF Pending, TurnRecords
<1>6. /\ turn' \in [Turns -> TurnRecords] /\ turn'[n] = Pending(input, card)
      /\ \A t \in Turns : t # n => turn'[t] = turn[t]
  BY <1>1, <1>5 DEF IInv, TypeOK
<1>7. TypeOK'
  BY <1>2, <1>4, <1>6 DEF IInv, TypeOK
<1>8. \A t \in Turns : Open(t)' <=> t = n
  BY <1>3, <1>5, <1>6 DEF Open
<1>9. OneOpenTurn'
  BY <1>4, <1>8 DEF OneOpenTurn
<1>10. \A v \in Actors : worker[v].pc # "idle" => worker[v].turn \in Turns /\ worker[v].turn # n
  BY <1>1 DEF IInv, Busy, IsNext
<1>11. Busy'
  BY <1>2, <1>6, <1>8, <1>10 DEF IInv, Busy
<1>12. CardKept'
  <2> SUFFICES ASSUME NEW t \in Turns, turn'[t].status \in {"PENDING", "RUNNING", "FAILED"},
                      ~Newer(t)', turn'[t].input \in {"confirm", "reject"}
               PROVE  turn'[t].card = task'.card
    BY DEF CardKept
  <2>1. CASE t = n
    <3>1. task.waiting \notin {"none", "question"}
      BY <1>5, <1>6, <2>1 DEF Submit, Allowed
    <3> QED BY <1>4, <1>5, <1>6, <2>1, <3>1 DEF Submit, CardMatches
  <2>2. CASE t # n
    <3>1. Accepted \subseteq Accepted'
      BY <1>5, <1>6 DEF Accepted
    <3>2. ~Newer(t)
      BY <3>1 DEF Newer
    <3> QED BY <1>4, <1>6, <2>2, <3>2 DEF IInv, CardKept
  <2> QED BY <2>1, <2>2
<1>13. Seen' /\ Answering'
  BY <1>2, <1>4, <1>6, <1>10 DEF IInv, Seen, Answering
<1>14. Marked' /\ OnTable' /\ Proven' /\ Unwritten' /\ WrittenOnce'
  BY <1>2, <1>4 DEF IInv, Marked, OnTable, Proven, Unwritten, WrittenOnce
<1> QED BY <1>7, <1>9, <1>11, <1>12, <1>13, <1>14 DEF IInv

\* A claim takes the lease from whoever had it.
LEMMA TakenEffect ==
    ASSUME TypeOK, NEW t \in Turns, NEW v \in Actors
    PROVE  /\ Taken(worker, t)[v] \in WorkerRecords
           /\ Taken(worker, t)[v].pc = worker[v].pc /\ Taken(worker, t)[v].turn = worker[v].turn
           /\ Taken(worker, t)[v].sees = worker[v].sees
           /\ Taken(worker, t)[v].current = worker[v].current
           /\ worker[v].turn = t => Taken(worker, t)[v].owns = FALSE
           /\ worker[v].turn # t => Taken(worker, t)[v].owns = worker[v].owns
<1> DEFINE u == worker[v]
<1>1. u \in WorkerRecords
  BY DEF TypeOK
<1>2. CASE u.turn = t
  <2>1. Taken(worker, t)[v] = [u EXCEPT !.owns = FALSE]
    BY <1>2 DEF Taken
  <2> HIDE DEF u
  <2>2. [u EXCEPT !.owns = FALSE] \in WorkerRecords
    BY <1>1, Zenon DEF WorkerRecords
  <2>3. /\ [u EXCEPT !.owns = FALSE].owns = FALSE
        /\ [u EXCEPT !.owns = FALSE].pc = u.pc /\ [u EXCEPT !.owns = FALSE].turn = u.turn
        /\ [u EXCEPT !.owns = FALSE].sees = u.sees
        /\ [u EXCEPT !.owns = FALSE].current = u.current
    BY <1>1, SMT DEF WorkerRecords
  <2> QED BY <1>2, <2>1, <2>2, <2>3 DEF u
<1>3. CASE u.turn # t
  <2>1. Taken(worker, t)[v] = u
    BY <1>3 DEF Taken
  <2> QED BY <1>1, <1>3, <2>1
<1> QED BY <1>2, <1>3

LEMMA ClaimStep ==
    ASSUME IInv, NEW w \in Workers, NEW t \in Turns, Claim(w, t)
    PROVE  IInv'
<1> w \in Actors
  BY DEF Actors
<1> DEFINE e == [pc |-> IF Superseded(t) THEN "superseded" ELSE "working",
                 turn |-> t, sees |-> task.waiting, owns |-> TRUE, current |-> TRUE]
           u == turn[t]
           r == [u EXCEPT !.status = "RUNNING", !.live = TRUE]
<1>1. /\ turn' = [turn EXCEPT ![t] = r] /\ worker' = [Taken(worker, t) EXCEPT ![w] = e]
      /\ UNCHANGED <<task, claim, crm, faults>>
  BY DEF Claim
<1>2. u \in TurnRecords /\ TypeOK /\ u.status \in {"PENDING", "RUNNING"}
  BY DEF IInv, TypeOK, Claim, Claimable
<1>3. /\ e \in WorkerRecords /\ e.pc = (IF Newer(t) THEN "superseded" ELSE "working")
      /\ e.turn = t /\ e.sees = task.waiting
  BY <1>2, SMT DEF TypeOK, TaskRecords, WorkerRecords, Superseded, Turns
<1> HIDE DEF e, u
<1>4. r \in TurnRecords
  BY <1>2, Zenon DEF TurnRecords
<1>5. r.status = "RUNNING" /\ r.input = u.input /\ r.card = u.card
  BY <1>2, SMT DEF TurnRecords
<1> HIDE DEF r
<1>6. /\ turn' \in [Turns -> TurnRecords] /\ turn'[t] = r
      /\ \A n \in Turns : n # t => turn'[n] = turn[n]
  BY <1>1, <1>4 DEF IInv, TypeOK
<1>7. \A n \in Turns : turn'[n].input = turn[n].input /\ turn'[n].card = turn[n].card
  BY <1>5, <1>6 DEF u
<1>8. Accepted' = Accepted /\ \A n \in Turns : Open(n)' <=> Open(n)
  BY <1>2, <1>5, <1>6 DEF Accepted, Open, u
<1>9. /\ worker' \in [Actors -> WorkerRecords] /\ worker'[w] = e
      /\ \A v \in Actors : v # w =>
           /\ worker'[v].pc = worker[v].pc /\ worker'[v].turn = worker[v].turn
           /\ worker'[v].sees = worker[v].sees /\ worker'[v].current = worker[v].current
           /\ worker'[v].turn = t => worker'[v].owns = FALSE
           /\ worker'[v].turn # t => worker'[v].owns = worker[v].owns
  <2>1. Taken(worker, t) \in [Actors -> WorkerRecords]
    BY <1>2, TakenEffect DEF Taken
  <2>2. /\ worker' \in [Actors -> WorkerRecords] /\ worker'[w] = e
        /\ \A v \in Actors : v # w => worker'[v] = Taken(worker, t)[v]
    BY <1>1, <1>3, <2>1
  <2>3. ASSUME NEW v \in Actors, v # w
        PROVE  /\ worker'[v].pc = worker[v].pc /\ worker'[v].turn = worker[v].turn
               /\ worker'[v].sees = worker[v].sees /\ worker'[v].current = worker[v].current
               /\ worker'[v].turn = t => worker'[v].owns = FALSE
               /\ worker'[v].turn # t => worker'[v].owns = worker[v].owns
    <3>1. worker'[v] = Taken(worker, t)[v]
      BY <2>2, <2>3
    <3>2. /\ Taken(worker, t)[v].pc = worker[v].pc /\ Taken(worker, t)[v].turn = worker[v].turn
          /\ Taken(worker, t)[v].sees = worker[v].sees
          /\ Taken(worker, t)[v].current = worker[v].current
          /\ worker[v].turn = t => Taken(worker, t)[v].owns = FALSE
          /\ worker[v].turn # t => Taken(worker, t)[v].owns = worker[v].owns
      BY <1>2, TakenEffect, Zenon
    <3> QED BY <3>1, <3>2
  <2> QED BY <2>2, <2>3
<1>10. TypeOK'
  BY <1>1, <1>6, <1>9 DEF IInv, TypeOK
<1>11. OneOpenTurn'
  BY <1>1, <1>8 DEF IInv, OneOpenTurn
<1>12. \A n \in Turns : Newer(n)' <=> Newer(n)
  BY <1>8 DEF Newer
<1>13. CardKept'
  <2> SUFFICES ASSUME NEW n \in Turns, turn'[n].status \in {"PENDING", "RUNNING", "FAILED"},
                      ~Newer(n)', turn'[n].input \in {"confirm", "reject"}
               PROVE  turn'[n].card = task'.card
    BY DEF CardKept
  <2>1. turn[n].status \in {"PENDING", "RUNNING", "FAILED"} /\ ~Newer(n)
    BY <1>2, <1>6, <1>12 DEF u
  <2> QED BY <1>1, <1>7, <2>1 DEF IInv, CardKept
<1>14. Busy'
  <2>1. \A n \in Turns : turn[n].status # "NONE" => turn'[n].status # "NONE"
    BY <1>5, <1>6
  <2>2. ASSUME NEW v \in Actors, v # w, worker'[v].pc # "idle"
        PROVE  /\ worker'[v].turn \in Turns /\ turn'[worker'[v].turn].status # "NONE"
               /\ worker'[v].pc \notin {"retrying", "superseded"} /\ worker'[v].owns /\ Open(worker[v].turn)'
                    => ~Newer(worker[v].turn)
    BY <1>8, <1>9, <2>1, <2>2 DEF IInv, Busy
  <2>3. /\ worker'[w].turn \in Turns /\ turn'[worker'[w].turn].status # "NONE"
        /\ worker'[w].pc \notin {"retrying", "superseded"} => ~Newer(t)
    BY <1>3, <1>5, <1>6, <1>9
  <2>4. \A v \in Actors : v # w => worker'[v].pc = worker[v].pc /\ worker'[v].turn = worker[v].turn
    BY <1>9
  <2>5. worker'[w].turn = t
    BY <1>3, <1>9
  <2> QED BY <1>12, <2>2, <2>3, <2>4, <2>5 DEF Busy
<1>15. Seen'
  BY <1>1, <1>3, <1>9 DEF IInv, Seen
<1>16. Answering'
  BY <1>3, <1>7, <1>9 DEF IInv, Answering, Busy
<1>17. Marked'
  BY <1>1, <1>3, <1>9 DEF IInv, Marked
<1>18. OnTable' /\ Proven' /\ Unwritten' /\ WrittenOnce'
  BY <1>1 DEF IInv, OnTable, Proven, Unwritten, WrittenOnce
<1> QED BY <1>10, <1>11, <1>13, <1>14, <1>15, <1>16, <1>17, <1>18 DEF IInv

\* The version of the task moves on under everybody.
LEMMA AllMoved ==
    ASSUME IInv, worker' = Moved(worker, {})
    PROVE  /\ worker' \in [Actors -> WorkerRecords]
           /\ \A v \in Actors :
                /\ worker'[v].pc = worker[v].pc /\ worker'[v].turn = worker[v].turn
                /\ worker'[v].sees = worker[v].sees /\ worker'[v].owns = worker[v].owns
                /\ ~worker'[v].current
<1>1. worker \in [Actors -> WorkerRecords]
  BY DEF IInv, TypeOK
<1>2. worker' \in [Actors -> WorkerRecords]
  BY <1>1, MovedType
<1>3. ASSUME NEW v \in Actors
      PROVE  /\ worker'[v].pc = worker[v].pc /\ worker'[v].turn = worker[v].turn
             /\ worker'[v].sees = worker[v].sees /\ worker'[v].owns = worker[v].owns
             /\ ~worker'[v].current
  <2>1. /\ Moved(worker, {})[v].pc = worker[v].pc /\ Moved(worker, {})[v].turn = worker[v].turn
        /\ Moved(worker, {})[v].sees = worker[v].sees /\ Moved(worker, {})[v].owns = worker[v].owns
        /\ Moved(worker, {})[v].current => v \in {}
    BY <1>1, MovedEffect, SMT
  <2> QED BY <2>1, Zenon
<1> QED BY <1>2, <1>3

LEMMA CloseOverdueStep == ASSUME IInv, NEW t \in Turns, CloseOverdue(t) PROVE IInv'
<1> DEFINE n == IF task.active = t THEN 0 ELSE task.active
<1>1. /\ turn[t].status = "RUNNING" /\ turn' = [turn EXCEPT ![t] = Ended(t, "FAILED", TRUE)]
      /\ task' = [task EXCEPT !.active = n] /\ worker' = Moved(worker, {})
      /\ UNCHANGED <<claim, crm, faults>>
  BY DEF CloseOverdue
<1>2. TypeOK /\ n \in 0 .. MaxTurns
  BY TurnAssumption, SMT DEF IInv, TypeOK, TaskRecords
<1>3. task.active = t /\ n = 0
  BY <1>1 DEF IInv, OneOpenTurn, Open
<1> HIDE DEF n
<1>4. /\ task' \in TaskRecords /\ task'.active = 0 /\ task'.waiting = task.waiting
      /\ task'.card = task.card /\ task'.receipt = task.receipt /\ task'.settled = task.settled
  BY <1>1, <1>2, <1>3, ActiveEffect
<1>5. /\ Ended(t, "FAILED", TRUE) \in TurnRecords /\ Ended(t, "FAILED", TRUE).status = "FAILED"
      /\ Ended(t, "FAILED", TRUE).input = turn[t].input /\ Ended(t, "FAILED", TRUE).card = turn[t].card
  BY <1>2, SMT DEF TypeOK, Ended, TurnRecords
<1>6. /\ turn' \in [Turns -> TurnRecords]
      /\ \A m \in Turns : /\ turn'[m].status = (IF m = t THEN "FAILED" ELSE turn[m].status)
                          /\ turn'[m].input = turn[m].input /\ turn'[m].card = turn[m].card
  <2>1. /\ turn' \in [Turns -> TurnRecords] /\ turn'[t] = Ended(t, "FAILED", TRUE)
        /\ \A m \in Turns : m # t => turn'[m] = turn[m]
    BY <1>1, <1>2, <1>5 DEF TypeOK
  <2> QED BY <1>5, <2>1
<1>7. /\ worker' \in [Actors -> WorkerRecords]
      /\ \A v \in Actors :
           /\ worker'[v].pc = worker[v].pc /\ worker'[v].turn = worker[v].turn
           /\ worker'[v].sees = worker[v].sees /\ worker'[v].owns = worker[v].owns
           /\ ~worker'[v].current
  BY <1>1, AllMoved
<1>8. Accepted' = Accepted /\ \A m \in Turns : ~Open(m)'
  BY <1>1, <1>3, <1>6 DEF IInv, OneOpenTurn, Accepted, Open
<1>9. OneOpenTurn'
  <2>1. \A m \in Turns : m # 0
    BY DEF Turns
  <2> QED BY <1>4, <1>8, <2>1 DEF OneOpenTurn
<1>10. Busy'
  BY <1>6, <1>7, <1>8 DEF IInv, Busy
<1>11. CardKept'
  <2>1. \A m \in Turns : turn'[m].status \in {"PENDING", "RUNNING", "FAILED"} =>
            turn[m].status \in {"PENDING", "RUNNING", "FAILED"}
    BY <1>1, <1>6
  <2> QED BY <1>4, <1>6, <1>8, <2>1 DEF IInv, CardKept, Newer
<1>12. Seen' /\ Answering' /\ Marked'
  <2>1. Seen'
    BY <1>7 DEF Seen
  <2>2. Answering'
    BY <1>6, <1>7 DEF IInv, Busy, Answering
  <2>3. Marked'
    BY <1>1, <1>7 DEF IInv, Marked
  <2> QED BY <2>1, <2>2, <2>3
<1>13. TypeOK'
  BY <1>1, <1>4, <1>6, <1>7 DEF IInv, TypeOK
<1>14. OnTable' /\ Proven' /\ Unwritten' /\ WrittenOnce'
  BY <1>1, <1>4 DEF IInv, OnTable, Proven, Unwritten, WrittenOnce
<1> QED BY <1>9, <1>10, <1>11, <1>12, <1>13, <1>14 DEF IInv

\* The draft changes and no turn does.
LEMMA DraftMoves ==
    ASSUME IInv, UNCHANGED <<turn, claim, crm, faults>>, task' \in TaskRecords,
           task'.active = task.active, task'.card = task.card, task'.receipt = task.receipt,
           task'.settled = task.settled, task'.waiting \in {"none", "question"}, ~task.receipt,
           worker' \in [Actors -> WorkerRecords],
           \A v \in Actors :
                /\ worker'[v].pc = worker[v].pc /\ worker'[v].turn = worker[v].turn
                /\ worker'[v].owns = worker[v].owns
                /\ worker'[v].pc \in {"claimed", "executed"} => worker'[v].sees = worker[v].sees
                /\ worker'[v].current => worker'[v].sees = task'.waiting
    PROVE  IInv'
<1>1. TypeOK'
  BY DEF IInv, TypeOK
<1>2. OneOpenTurn' /\ CardKept' /\ Busy'
  BY DEF IInv, OneOpenTurn, Open, CardKept, Busy, Newer, Accepted
<1>3. Seen' /\ Answering'
  BY DEF IInv, Seen, Answering
<1>4. Marked'
  BY DEF IInv, Marked
<1>5. "none" \notin Proposals /\ "question" \notin Proposals
  BY TurnAssumption
<1>6. OnTable' /\ Proven' /\ Unwritten' /\ WrittenOnce'
  BY <1>5 DEF IInv, OnTable, Proven, Unwritten, WrittenOnce
<1> QED BY <1>1, <1>2, <1>3, <1>4, <1>6 DEF IInv

LEMMA ResetStep == ASSUME IInv, Reset PROVE IInv'
<1> DEFINE u == [task EXCEPT !.waiting = "none", !.frozen = FALSE]
<1>1. /\ task' = u /\ ~task.receipt /\ worker' = Moved(worker, {})
      /\ UNCHANGED <<turn, claim, crm, faults>>
  BY DEF Reset
<1>2. u \in TaskRecords /\ u.active = task.active /\ u.card = task.card /\ u.receipt = task.receipt
      /\ u.settled = task.settled /\ u.waiting = "none"
  <2>1. u \in TaskRecords
    BY NoneWaiting, Zenon DEF IInv, TypeOK, TaskRecords
  <2>2. u.active = task.active /\ u.card = task.card /\ u.receipt = task.receipt
        /\ u.settled = task.settled /\ u.waiting = "none"
    BY SMT DEF IInv, TypeOK, TaskRecords
  <2> QED BY <2>1, <2>2
<1> HIDE DEF u
<1> QED BY <1>1, <1>2, AllMoved, DraftMoves

LEMMA ProgressStep == ASSUME IInv, NEW w \in Workers, Progress(w) PROVE IInv'
<1> w \in Actors
  BY DEF Actors
<1>1. PICK kind \in {task.waiting, "none"}, frozen \in {task.frozen, FALSE} :
        /\ task' = [task EXCEPT !.waiting = kind, !.frozen = frozen]
        /\ worker' = Moved([worker EXCEPT ![w] = [worker[w] EXCEPT !.sees = kind]], {w})
  BY DEF Progress
<1>2. /\ worker[w].pc = "working" /\ ~task.receipt /\ task.waiting \in {"none", "question"}
      /\ UNCHANGED <<turn, claim, crm, faults>>
  BY DEF Progress, Working
<1>3. TypeOK /\ kind \in Waiting /\ kind \in {"none", "question"} /\ frozen \in BOOLEAN
  BY <1>2, NoneWaiting DEF IInv, TypeOK, TaskRecords
<1>4. /\ task' \in TaskRecords /\ task'.waiting = kind /\ task'.card = task.card
      /\ task'.active = task.active /\ task'.receipt = task.receipt /\ task'.settled = task.settled
  BY <1>1, <1>3, ProgressEffect
<1> DEFINE u == worker[w]
           e == [u EXCEPT !.sees = kind]
           ws == [worker EXCEPT ![w] = e]
<1>5. u \in WorkerRecords /\ worker \in [Actors -> WorkerRecords]
  BY <1>3 DEF TypeOK
<1>6. e \in WorkerRecords /\ e.pc = u.pc /\ e.turn = u.turn /\ e.owns = u.owns /\ e.sees = kind
  <2> HIDE DEF u
  <2>1. e \in WorkerRecords
    BY <1>3, <1>5, Zenon DEF WorkerRecords
  <2>2. e.pc = u.pc /\ e.turn = u.turn /\ e.owns = u.owns /\ e.sees = kind
    BY <1>5, SMT DEF WorkerRecords
  <2> QED BY <2>1, <2>2
<1> HIDE DEF e
<1>7. /\ ws \in [Actors -> WorkerRecords] /\ ws[w] = e
      /\ \A v \in Actors : v # w => ws[v] = worker[v]
  BY <1>5, <1>6
<1>8. worker' = Moved(ws, {w})
  BY <1>1 DEF e
<1> HIDE DEF ws
<1>9. worker' \in [Actors -> WorkerRecords]
  BY <1>7, <1>8, MovedType
<1>10. ASSUME NEW v \in Actors
       PROVE  /\ worker'[v].pc = worker[v].pc /\ worker'[v].turn = worker[v].turn
              /\ worker'[v].owns = worker[v].owns
              /\ worker'[v].pc \in {"claimed", "executed"} => worker'[v].sees = worker[v].sees
              /\ worker'[v].current => worker'[v].sees = task'.waiting
  <2>1. /\ Moved(ws, {w})[v].pc = ws[v].pc /\ Moved(ws, {w})[v].turn = ws[v].turn
        /\ Moved(ws, {w})[v].sees = ws[v].sees /\ Moved(ws, {w})[v].owns = ws[v].owns
        /\ Moved(ws, {w})[v].current => v \in {w}
    BY <1>7, MovedEffect, SMT
  <2>2. CASE v = w
    BY <1>2, <1>4, <1>6, <1>7, <1>8, <2>1, <2>2
  <2>3. CASE v # w
    BY <1>7, <1>8, <2>1, <2>3
  <2> QED BY <2>2, <2>3
<1> QED BY <1>2, <1>3, <1>4, <1>9, <1>10, DraftMoves

LEMMA RetryStep == ASSUME IInv, NEW w \in Actors, Retry(w) PROVE IInv'
<1> DEFINE t == worker[w].turn
           r == Pending(turn[t].input, turn[t].card)
<1>1. /\ worker[w].pc = "retrying" /\ turn[t].status \in {"FAILED", "RUNNING"} /\ task.active \in {0, t}
      /\ turn' = [turn EXCEPT ![t] = r] /\ task' = [task EXCEPT !.active = t]
      /\ worker' = [Taken(worker, t) EXCEPT ![w] = Idle] /\ UNCHANGED <<claim, crm, faults>>
  BY DEF Retry
<1>2. TypeOK /\ t \in Turns /\ t \in 0 .. MaxTurns /\ turn[t] \in TurnRecords
  BY <1>1 DEF IInv, TypeOK, Busy, Turns
<1>3. r \in TurnRecords /\ r.status = "PENDING" /\ r.input = turn[t].input /\ r.card = turn[t].card
  BY <1>2, SMT DEF Pending, TurnRecords
<1> HIDE DEF t, r
<1>4. /\ task' \in TaskRecords /\ task'.active = t /\ task'.waiting = task.waiting
      /\ task'.card = task.card /\ task'.receipt = task.receipt /\ task'.settled = task.settled
  BY <1>1, <1>2, ActiveEffect
<1>5. /\ turn' \in [Turns -> TurnRecords] /\ turn'[t] = r
      /\ \A m \in Turns : m # t => turn'[m] = turn[m]
  BY <1>1, <1>2, <1>3 DEF TypeOK
<1>6. \A m \in Turns : turn'[m].input = turn[m].input /\ turn'[m].card = turn[m].card
  BY <1>3, <1>5
<1>7. \A m \in Turns : Open(m)' <=> m = t
  <2>1. \A m \in Turns : m # 0 /\ (Open(m) => m = t)
    BY <1>1 DEF IInv, OneOpenTurn, Turns
  <2> QED BY <1>3, <1>5, <2>1 DEF Open
<1>8. Accepted' = Accepted
  BY <1>1, <1>3, <1>5 DEF Accepted
<1>9. /\ worker' \in [Actors -> WorkerRecords] /\ worker'[w] = Idle
      /\ \A v \in Actors : v # w => worker'[v] = Taken(worker, t)[v]
  <2>1. Taken(worker, t) \in [Actors -> WorkerRecords]
    BY <1>2, TakenEffect DEF Taken
  <2> QED BY <1>1, <2>1, IdleFacts
<1>10. ASSUME NEW v \in Actors, v # w
       PROVE  /\ worker'[v].pc = worker[v].pc /\ worker'[v].turn = worker[v].turn
              /\ worker'[v].sees = worker[v].sees /\ worker'[v].current = worker[v].current
              /\ worker'[v].turn = t => worker'[v].owns = FALSE
  <2>1. worker'[v] = Taken(worker, t)[v]
    BY <1>9, <1>10
  <2>2. /\ Taken(worker, t)[v].pc = worker[v].pc /\ Taken(worker, t)[v].turn = worker[v].turn
        /\ Taken(worker, t)[v].sees = worker[v].sees
        /\ Taken(worker, t)[v].current = worker[v].current
        /\ worker[v].turn = t => Taken(worker, t)[v].owns = FALSE
    BY <1>2, TakenEffect, Zenon
  <2> QED BY <2>1, <2>2
<1>11. TypeOK'
  BY <1>1, <1>4, <1>5, <1>9 DEF IInv, TypeOK
<1>12. OneOpenTurn'
  BY <1>4, <1>7 DEF OneOpenTurn
<1>13. Busy'
  <2>1. \A m \in Turns : turn[m].status # "NONE" => turn'[m].status # "NONE"
    BY <1>3, <1>5
  <2>2. \A v \in Actors : v = w => worker'[v].pc = "idle"
    BY <1>9, IdleFacts
  <2> QED BY <1>7, <1>10, <2>1, <2>2 DEF IInv, Busy
<1>14. CardKept'
  <2>1. \A m \in Turns : turn'[m].status \in {"PENDING", "RUNNING", "FAILED"} =>
            turn[m].status \in {"PENDING", "RUNNING", "FAILED"}
    BY <1>1, <1>5
  <2> QED BY <1>4, <1>6, <1>8, <2>1 DEF IInv, CardKept, Newer
<1>15. Seen' /\ Marked'
  <2>1. worker'[w].pc = "idle"
    BY <1>9, IdleFacts
  <2>2. ASSUME NEW v \in Actors, v # w
        PROVE  /\ worker'[v].pc \notin {"idle", "retrying"} /\ worker'[v].current => worker'[v].sees = task'.waiting
               /\ worker'[v].pc \in {"claimed", "executed"} =>
                     worker'[v].sees \in Claimed /\ claim'[worker'[v].sees] # "NONE"
               /\ worker'[v].pc = "executed" => worker'[v].sees \in crm'.effects
    BY <1>1, <1>4, <1>10, <2>2 DEF IInv, Seen, Marked
  <2> QED BY <2>1, <2>2 DEF Seen, Marked
<1>16. Answering'
  <2>1. ASSUME NEW v \in Actors, worker'[v].pc \in {"claimed", "executed"}
        PROVE  turn'[worker'[v].turn].input = "confirm"
    <3>1. v # w
      BY <1>9, <2>1, IdleFacts
    <3>2. worker[v].turn \in Turns /\ turn[worker[v].turn].input = "confirm"
      BY <1>10, <2>1, <3>1 DEF IInv, Busy, Answering
    <3> QED BY <1>6, <1>10, <3>1, <3>2
  <2> QED BY <2>1 DEF Answering
<1>17. OnTable' /\ Proven' /\ Unwritten' /\ WrittenOnce'
  BY <1>1, <1>4 DEF IInv, OnTable, Proven, Unwritten, WrittenOnce
<1> QED BY <1>11, <1>12, <1>13, <1>14, <1>15, <1>16, <1>17 DEF IInv

-----------------------------------------------------------------------------
(* The inductive invariant. *)

LEMMA InitIInv == Init => IInv
<1> SUFFICES ASSUME Init PROVE IInv
  OBVIOUS
<1>1. task \in TaskRecords
  BY TurnAssumption, NoneWaiting, SMT DEF Init, TaskRecords
<1>2. NoTurn \in TurnRecords
  BY TurnAssumption, SMT DEF NoTurn, TurnRecords, Input
<1>3. crm \in [activities : Nat, effects : SUBSET Proposals]
  BY SMT DEF Init
<1>4. TypeOK
  BY <1>1, <1>2, <1>3, IdleFacts, TurnAssumption DEF Init, TypeOK
<1>5. \A t \in Turns : turn[t].status = "NONE" /\ t # 0
  BY SMT DEF Init, NoTurn, Turns
<1>6. OneOpenTurn /\ CardKept
  BY <1>5, SMT DEF Init, OneOpenTurn, Open, CardKept
<1>7. \A w \in Actors : worker[w].pc = "idle"
  BY IdleFacts DEF Init
<1>8. Busy /\ Seen /\ Marked /\ Answering
  BY <1>7 DEF Busy, Seen, Marked, Answering
<1>9. "none" \notin Proposals
  BY TurnAssumption
<1>10. OnTable /\ Unwritten /\ WrittenOnce
  BY <1>9, SMT DEF Init, OnTable, Unwritten, WrittenOnce
<1>11. Proven
  BY SMT DEF Init, Proven
<1> QED BY <1>4, <1>6, <1>8, <1>10, <1>11 DEF IInv

LEMMA NextIInv == IInv /\ [Next]_vars => IInv'
<1> SUFFICES ASSUME IInv, [Next]_vars PROVE IInv'
  OBVIOUS
<1>1. ASSUME NEW input \in Input, NEW card \in 0 .. MaxCards, Submit(input, card) PROVE IInv'
  BY <1>1, SubmitStep
<1>2. ASSUME NEW t \in Turns, NEW w \in Workers, Claim(w, t) PROVE IInv'
  BY <1>2, ClaimStep
<1>3. ASSUME NEW t \in Turns, NEW w \in Requests, AskRetry(w, t) PROVE IInv'
  BY <1>3, AskRetryStep DEF Actors
<1>4. ASSUME NEW w \in Actors, SettleActivity(w) PROVE IInv'
  BY <1>4, StructuredStep, RevisedStep, ActivityWrittenStep, ActivityRefusedStep,
     ActivityUnknownStep, UnansweredStep, CancelledStep DEF SettleActivity
<1>5. ASSUME NEW w \in Actors, SettleProposal(w) PROVE IInv'
  BY <1>5, OfferedStep, ReconciledStep, MarkUnknownStep, ProposalRefusedStep, PerformedStep,
     ClaimCommandStep, ExecuteCommandStep, CommandDoneStep DEF SettleProposal
<1>6. ASSUME NEW w \in Actors, StageFailed(w) \/ Failed(w) \/ Lost(w) \/ Retry(w) \/ RetryDenied(w) \/ Die(w)
      PROVE  IInv'
  BY <1>6, StageFailedStep, FailedStep, GoneStep, RetryStep
<1>7. ASSUME NEW w \in Workers, Progress(w) PROVE IInv'
  BY <1>7, ProgressStep
<1>8. ASSUME NEW t \in Turns, Lapse(t) \/ CloseOverdue(t) PROVE IInv'
  BY <1>8, LapseStep, CloseOverdueStep
<1>9. ASSUME NEW p \in Proposals, NEW verdict \in {"SUCCEEDED", "REJECTED"}, Adjudicate(p, verdict)
      PROVE  IInv'
  BY <1>9, AdjudicateStep
<1>10. CASE UNCHANGED vars
  BY <1>10 DEF vars, IInv, TypeOK, OneOpenTurn, Open, Busy, Newer, Accepted, Seen, OnTable, Marked,
     Proven, Unwritten, WrittenOnce, CardKept, Answering
<1> QED BY <1>1, <1>2, <1>3, <1>4, <1>5, <1>6, <1>7, <1>8, <1>9, <1>10, ResetStep DEF Next, Advance

LEMMA Inductive == Spec => []IInv
<1> QED BY InitIInv, NextIInv, PTL DEF Spec

-----------------------------------------------------------------------------
(* The theorems. *)

\* Rows, leases and workers are what their tables and code say they are.
THEOREM TypeCorrect == Spec => []TypeOK
<1>1. IInv => TypeOK
  BY DEF IInv
<1> QED BY <1>1, Inductive, PTL

\* For any number of workers, faults and requests, a turn is open exactly while
\* it is the task's active turn (accept_submit, retry_owned_turn, execute_turn).
THEOREM OpenTurns == Spec => []OneOpenTurn
<1>1. IInv => OneOpenTurn
  BY DEF IInv
<1> QED BY <1>1, Inductive, PTL

\* What the task says of a proposal is so in the CRM, whenever workers die
\* between the claim, the command and the settlement (settle_proposal).
THEOREM Settlements == Spec => []SettledIsProven
<1>1. IInv => SettledIsProven
  BY DEF IInv, Proven, SettledIsProven
<1> QED BY <1>1, Inductive, PTL

\* The activity is written at most once, and always with its receipt
\* (execute_confirmation).
THEOREM ActivityOnce == Spec => []WrittenOnce
<1>1. IInv => WrittenOnce
  BY DEF IInv
<1> QED BY <1>1, Inductive, PTL

\* A turn that succeeds is settled by a worker that holds its lease and was not
\* superseded; where it settles the activity or a proposal, it is an answer.
LEMMA HowTurnsSucceed ==
    ASSUME IInv, [Next]_vars, NEW t \in Turns,
           turn[t].status # "SUCCEEDED", turn'[t].status = "SUCCEEDED"
    PROVE  /\ ~Newer(t) /\ turn[t].status = "RUNNING"
           /\ task'.receipt # task.receipt \/ task'.settled # task.settled
                => turn[t].input \in {"confirm", "reject"}
<1> DEFINE Goal == /\ ~Newer(t) /\ turn[t].status = "RUNNING"
                   /\ task'.receipt # task.receipt \/ task'.settled # task.settled
                        => turn[t].input \in {"confirm", "reject"}
<1>1. ASSUME NEW w \in Actors, Holds(w), worker[w].pc \notin {"idle", "retrying", "superseded"},
             NEW result \in {"SUCCEEDED", "FAILED"}, NEW retryable \in BOOLEAN, NEW updated \in TaskRecords,
             updated.receipt = task.receipt, updated.settled = task.settled,
             Settle(w, result, retryable, updated)
      PROVE  Goal
  <2>1. worker[w].turn \in Turns /\ turn[worker[w].turn].status = "RUNNING" /\ ~Newer(worker[w].turn)
    BY <1>1, HoldsRunning
  <2>2. /\ turn'[t].status = (IF t = worker[w].turn THEN result ELSE turn[t].status)
        /\ task'.receipt = task.receipt /\ task'.settled = task.settled
    BY <1>1, <2>1, SettleEffect DEF IInv
  <2> QED BY <2>1, <2>2
<1>2. ASSUME NEW w \in Actors, Holds(w), worker[w].pc \notin {"idle", "retrying", "superseded"},
             NEW updated \in TaskRecords, SettleAndFollow(w, updated),
             turn[worker[w].turn].input \in {"confirm", "reject"}
      PROVE  Goal
  <2>1. worker[w].turn \in Turns /\ turn[worker[w].turn].status = "RUNNING" /\ ~Newer(worker[w].turn)
    BY <1>2, HoldsRunning
  <2>2. t = worker[w].turn
    BY <1>2, <2>1, FollowEffect DEF IInv
  <2> QED BY <1>2, <2>1, <2>2
<1>3. ASSUME NEW w \in Actors, worker[w].sees \in Proposals, NEW word \in {"executed", "refused"},
             Conclude(w, word), worker[w].pc \in {"working", "executed"},
             turn[worker[w].turn].input \in {"confirm", "reject"}
      PROVE  Goal
  <2> DEFINE p == worker[w].sees
             updated == [task EXCEPT !.waiting = "none", !.settled[p] = word]
  <2>1. updated \in TaskRecords
    <3> HIDE DEF p
    <3>1. task \in TaskRecords /\ p \in Proposals
      BY <1>3 DEF IInv, TypeOK, p
    <3> QED BY <1>3, <3>1, NoneWaiting, Zenon DEF TaskRecords
  <2>2. Holds(w) /\ SettleAndFollow(w, updated)
    BY <1>3 DEF Conclude
  <2> HIDE DEF updated
  <2> QED BY <1>2, <1>3, <2>1, <2>2
<1>4. ASSUME \A u \in Turns : turn'[u].status = "SUCCEEDED" => turn[u].status = "SUCCEEDED"
      PROVE  FALSE
  BY <1>4
<1>5. task \in TaskRecords /\ turn \in [Turns -> TurnRecords] /\ TypeOK
  BY DEF IInv, TypeOK
<1>6. ASSUME NEW w \in Actors, SettleActivity(w) PROVE Goal
  <2>1. CASE Structured(w)
    <3>1. worker[w].pc = "working" /\ Holds(w)
      BY <2>1 DEF Structured, Working
    <3>2. PICK kind \in {"none", "question", "activity"}, cleared \in BOOLEAN :
              Cards(kind) /\ Settle(w, "SUCCEEDED", FALSE, Table(kind, cleared))
      BY <2>1 DEF Structured
    <3>3. /\ Table(kind, cleared) \in TaskRecords /\ Table(kind, cleared).receipt = task.receipt
          /\ Table(kind, cleared).settled = task.settled
      BY <1>5, <3>2, TableEffect
    <3> QED BY <1>1, <3>1, <3>2, <3>3
  <2>2. CASE Revised(w)
    <3>1. worker[w].pc = "working" /\ Holds(w)
          /\ Cards("activity") /\ Settle(w, "SUCCEEDED", FALSE, Table("activity", FALSE))
      BY <2>2 DEF Revised, Working
    <3>2. /\ Table("activity", FALSE) \in TaskRecords /\ Table("activity", FALSE).receipt = task.receipt
          /\ Table("activity", FALSE).settled = task.settled
      BY <1>5, <3>1, TableEffect
    <3> QED BY <1>1, <3>1, <3>2
  <2>3. CASE ActivityWritten(w)
    <3> DEFINE updated == [task EXCEPT !.waiting = "none", !.receipt = TRUE]
    <3>1. worker[w].pc = "working" /\ Holds(w) /\ SettleAndFollow(w, updated)
          /\ turn[worker[w].turn].input = "confirm"
      BY <2>3 DEF ActivityWritten, Working
    <3>2. updated \in TaskRecords
      BY <1>5, ReceiptEffect
    <3> HIDE DEF updated
    <3> QED BY <1>2, <3>1, <3>2
  <2>4. CASE ActivityRefused(w)
    <3> DEFINE updated == [task EXCEPT !.waiting = "none", !.frozen = Working(w, {"confirm"})]
    <3>1. worker[w].pc = "working" /\ Holds(w) /\ Settle(w, "SUCCEEDED", FALSE, updated)
      BY <2>4 DEF ActivityRefused, Working
    <3>2. Working(w, {"confirm"}) \in BOOLEAN
      BY DEF Working
    <3>3. updated \in TaskRecords /\ updated.receipt = task.receipt /\ updated.settled = task.settled
      BY <1>5, <3>2, OffTableEffect
    <3> HIDE DEF updated
    <3> QED BY <1>1, <3>1, <3>3
  <2>5. CASE ActivityUnknown(w)
    <3> DEFINE updated == [task EXCEPT !.waiting = "none"]
    <3>1. Settle(w, "FAILED", FALSE, updated) /\ worker[w].pc = "working"
      BY <2>5 DEF ActivityUnknown, Working
    <3>2. updated \in TaskRecords
      BY <1>5, NoneWaiting, WaitingEffect
    <3>3. worker[w].turn \in Turns
      BY <3>1 DEF IInv, Busy
    <3> HIDE DEF updated
    <3>4. turn'[t].status = (IF t = worker[w].turn THEN "FAILED" ELSE turn[t].status)
      BY <1>5, <3>1, <3>2, <3>3, SettleEffect
    <3> QED BY <3>4
  <2>6. CASE Unanswered(w)
    <3>1. worker[w].pc = "working" /\ Holds(w) /\ Settle(w, "SUCCEEDED", FALSE, task)
      BY <2>6 DEF Unanswered, Working
    <3> QED BY <1>1, <1>5, <3>1
  <2>7. CASE Cancelled(w)
    <3> DEFINE updated == [task EXCEPT !.status = "CANCELLED", !.waiting = "none"]
    <3>1. worker[w].pc = "working" /\ Holds(w) /\ Settle(w, "SUCCEEDED", FALSE, updated)
      BY <2>7 DEF Cancelled, Working
    <3>2. updated \in TaskRecords /\ updated.receipt = task.receipt /\ updated.settled = task.settled
      BY <1>5, CancelEffect
    <3> HIDE DEF updated
    <3> QED BY <1>1, <3>1, <3>2
  <2> QED BY <1>6, <2>1, <2>2, <2>3, <2>4, <2>5, <2>6, <2>7 DEF SettleActivity
<1>7. ASSUME NEW w \in Actors, SettleProposal(w) PROVE Goal
  <2>1. CASE Offered(w)
    <3>1. worker[w].pc = "working" /\ Holds(w)
      BY <2>1 DEF Offered, Working
    <3>2. "none" \notin Proposals
      BY TurnAssumption
    <3>3. ASSUME NEW p \in Proposals, Cards(p),
                 Settle(w, "SUCCEEDED", FALSE, [task EXCEPT !.waiting = p, !.card = @ + 1])
          PROVE  Goal
      <4> DEFINE updated == [task EXCEPT !.waiting = p, !.card = @ + 1]
      <4>1. updated \in TaskRecords /\ updated.receipt = task.receipt /\ updated.settled = task.settled
        BY <1>5, <3>2, <3>3, OfferEffect
      <4>2. Settle(w, "SUCCEEDED", FALSE, updated)
        BY <3>3
      <4> HIDE DEF updated
      <4> QED BY <1>1, <3>1, <4>1, <4>2
    <3>4. ASSUME Settle(w, "SUCCEEDED", FALSE, [task EXCEPT !.status = "COMPLETED"])
          PROVE  Goal
      <4> DEFINE updated == [task EXCEPT !.status = "COMPLETED"]
      <4>1. updated \in TaskRecords /\ updated.receipt = task.receipt /\ updated.settled = task.settled
        BY <1>5, CompleteEffect
      <4>2. Settle(w, "SUCCEEDED", FALSE, updated)
        BY <3>4
      <4> HIDE DEF updated
      <4> QED BY <1>1, <3>1, <4>1, <4>2
    <3> QED BY <2>1, <3>3, <3>4 DEF Offered
  <2>2. CASE Reconciled(w)
    BY <1>3, <2>2 DEF Reconciled, Answers, Working
  <2>3. CASE ProposalRefused(w)
    BY <1>3, <2>3 DEF ProposalRefused, Answers, Working
  <2>4. CASE Performed(w)
    BY <1>3, <2>4 DEF Performed, Answers, Working
  <2>5. CASE CommandDone(w)
    <3>1. worker[w].pc = "executed" /\ Conclude(w, "executed")
      BY <2>5 DEF CommandDone
    <3>2. worker[w].sees \in Proposals /\ turn[worker[w].turn].input = "confirm"
      BY <3>1, TurnAssumption DEF IInv, Marked, Answering
    <3> QED BY <1>3, <3>1, <3>2
  <2>6. CASE MarkUnknown(w) \/ ClaimCommand(w) \/ ExecuteCommand(w)
    BY <1>4, <2>6 DEF MarkUnknown, ClaimCommand, ExecuteCommand
  <2> QED BY <1>7, <2>1, <2>2, <2>3, <2>4, <2>5, <2>6 DEF SettleProposal
<1>8. ASSUME NEW w \in Actors, StageFailed(w) \/ Failed(w) PROVE Goal
  <2>1. Holds(w) /\ \E retryable \in BOOLEAN : Settle(w, "FAILED", retryable, task)
    BY <1>8 DEF StageFailed, Failed
  <2>2. worker[w].turn \in Turns
    BY <2>1 DEF Holds
  <2>3. turn'[t].status = (IF t = worker[w].turn THEN "FAILED" ELSE turn[t].status)
    BY <1>5, <2>1, <2>2, SettleEffect
  <2> QED BY <2>3
<1>9. ASSUME NEW w \in Actors, Retry(w) PROVE Goal
  BY <1>5, <1>9, SMT DEF Retry, Pending
<1>10. ASSUME NEW n \in Turns, CloseOverdue(n) PROVE Goal
  BY <1>5, <1>10, SMT DEF CloseOverdue, Ended
<1>11. ASSUME NEW n \in Turns, Lapse(n) PROVE Goal
  <2>1. turn' = [turn EXCEPT ![n] = [turn[n] EXCEPT !.live = FALSE]] /\ turn[n].status = "RUNNING"
    BY <1>11 DEF Lapse
  <2> DEFINE u == turn[n]
  <2>2. u \in TurnRecords
    BY <1>5
  <2> HIDE DEF u
  <2>3. [u EXCEPT !.live = FALSE].status = u.status
    BY <2>2, SMT DEF TurnRecords
  <2> QED BY <1>5, <2>1, <2>3 DEF u
<1>12. ASSUME NEW n \in Turns, NEW w \in Workers, Claim(w, n) PROVE Goal
  <2> DEFINE u == turn[n]
  <2>1. turn' = [turn EXCEPT ![n] = [u EXCEPT !.status = "RUNNING", !.live = TRUE]]
    BY <1>12 DEF Claim
  <2>2. u \in TurnRecords
    BY <1>5
  <2> HIDE DEF u
  <2>3. [u EXCEPT !.status = "RUNNING", !.live = TRUE].status = "RUNNING"
    BY <2>2, SMT DEF TurnRecords
  <2> QED BY <1>5, <2>1, <2>3
<1>13. ASSUME NEW input \in Input, NEW card \in 0 .. MaxCards, Submit(input, card) PROVE Goal
  BY <1>5, <1>13, SMT DEF Submit, Pending
<1>14. ASSUME turn' = turn PROVE Goal
  BY <1>4, <1>14
<1>15. ASSUME NEW w \in Actors, Lost(w) \/ RetryDenied(w) \/ Die(w) PROVE Goal
  BY <1>14, <1>15 DEF Lost, RetryDenied, Die
<1>16. ASSUME NEW n \in Turns, NEW w \in Requests, AskRetry(w, n) PROVE Goal
  BY <1>14, <1>16 DEF AskRetry
<1>17. ASSUME NEW w \in Workers, Progress(w) PROVE Goal
  BY <1>14, <1>17 DEF Progress
<1>18. CASE Reset \/ UNCHANGED vars
  BY <1>14, <1>18 DEF Reset, vars
<1>19. ASSUME NEW p \in Proposals, NEW verdict \in {"SUCCEEDED", "REJECTED"}, Adjudicate(p, verdict)
       PROVE  Goal
  BY <1>14, <1>19 DEF Adjudicate
<1> QED BY <1>6, <1>7, <1>8, <1>9, <1>10, <1>11, <1>12, <1>13, <1>15, <1>16, <1>17, <1>18, <1>19
        DEF Next, Advance

\* An input is carried out only while it is the latest one, also when it is
\* retried while the user submits the next (execute_turn).
THEOREM LatestInput == Spec => LatestInputWins
<1>1. IInv /\ [Next]_vars =>
        [\A t \in Turns : turn[t].status # "SUCCEEDED" /\ turn'[t].status = "SUCCEEDED" => ~Newer(t)]_vars
  BY HowTurnsSucceed
<1> QED BY <1>1, Inductive, PTL DEF Spec, LatestInputWins

\* The activity is written and a proposal settled by a turn that answered the
\* card on the table (accept_submit, settle_proposal).
THEOREM AnsweredCards == Spec => AnswersItsCard
<1>1. IInv /\ [Next]_vars =>
        [\A t \in Turns :
            /\ turn[t].status # "SUCCEEDED" /\ turn'[t].status = "SUCCEEDED"
            /\ task'.receipt # task.receipt \/ task'.settled # task.settled
            => turn[t].card = task.card]_vars
  BY HowTurnsSucceed DEF IInv, CardKept
<1> QED BY <1>1, Inductive, PTL DEF Spec, AnswersItsCard
=============================================================================
