--------------------- MODULE OutboundNotificationProofs ---------------------
(***************************************************************************)
(* Proofs about the notification outbox, for every set of workers, keys    *)
(* and recipients and every attempt limit.                                 *)
(***************************************************************************)
EXTENDS OutboundNotification, FiniteSetTheorems, TLAPS

\* The conditional updates of a row keep it a row.
LEMMA RowUpdates ==
    ASSUME NEW row \in Row, NEW w \in Workers
    PROVE  /\ QueuedRow \in Row
           /\ AbsentRow \in Row
           /\ row.attempts < MaxAttempts => Claimed(row, w) \in Row
           /\ \A o \in Terminal : Closed(row, o) \in Row
           /\ RetryLater(row) \in Row
           /\ [row EXCEPT !.live = FALSE] \in Row
           /\ [row EXCEPT !.due = TRUE] \in Row
  <1>1. row.attempts < MaxAttempts => row.attempts + 1 \in 0 .. MaxAttempts
    BY LeasedJobAssumption DEF Row
  <1>2. ASSUME NEW s \in Status, NEW a \in 0 .. MaxAttempts PROVE FreeRow(s, a) \in Row
    BY DEF Row, FreeRow
  <1>3. 0 \in 0 .. MaxAttempts /\ row.attempts \in 0 .. MaxAttempts
    BY LeasedJobAssumption DEF Row
  <1>4. QueuedRow \in Row /\ AbsentRow \in Row /\ RetryLater(row) \in Row
    BY <1>2, <1>3 DEF QueuedRow, AbsentRow, RetryLater, Status
  <1>5. \A o \in Terminal : Closed(row, o) \in Row
    BY <1>2, <1>3 DEF Closed, Status
  <1>6. row.attempts < MaxAttempts => Claimed(row, w) \in Row
    BY <1>1 DEF Row, Claimed, Status
  <1>7. QED
    BY <1>4, <1>5, <1>6 DEF Row

\* What every update of the table does to it, as far as its type goes.
LEMMA KeyFacts ==
    /\ \A n \in Nodes : <<n, First>> \in Keys /\ \A x \in Uuids : <<n, x>> \in Keys
    /\ \A s \in Outcomes : <<s, First>> \in Keys
    /\ \A e \in Events : <<e, First>> \in Keys
  BY DEF Keys, Subjects, Documents

\* A worker between two runs is well typed.
LEMMA IdleType == Idle \in Run /\ Idle.pc = "idle"
  BY LeasedJobAssumption DEF Idle, Started, Run

\* The initial state is well typed.
LEMMA InitTypeOK == Init => TypeOK
  <1> SUFFICES ASSUME Init PROVE TypeOK
    OBVIOUS
  <1>1. jobs \in [Keys -> Row]
    BY LeasedJobAssumption DEF Init, Row, AbsentRow, FreeRow, Status
  <1>2. QED
    BY <1>1, IdleType, OutboundAssumption DEF Init, TypeOK

\* A step that changes the row of one key and the run of one worker, both to
\* well-typed values, keeps the types of the table and of the runs.
LEMMA PointwiseTypes ==
    ASSUME TypeOK, NEW w \in Workers, NEW k \in Keys,
           NEW r \in Row, NEW e \in Run, e.pc # "idle" => e.key \in Keys
    PROVE  /\ [jobs EXCEPT ![k] = r] \in [Keys -> Row]
           /\ [run EXCEPT ![w] = e] \in [Workers -> Run]
           /\ \A v \in Workers : [run EXCEPT ![w] = e][v].pc # "idle"
                                   => [run EXCEPT ![w] = e][v].key \in Keys
  BY DEF TypeOK

\* Every action preserves the types.
LEMMA NextTypeOK == TypeOK /\ [Next]_vars => TypeOK'
  <1> SUFFICES ASSUME TypeOK, [Next]_vars PROVE TypeOK'
    OBVIOUS
  <1>i. ASSUME NEW k \in Keys, Insert(k) PROVE jobs' \in [Keys -> Row]
    BY <1>i, LeasedJobAssumption DEF TypeOK, Insert, QueuedRow, FreeRow, Row, Status
  <1>1. ASSUME NEW n \in Nodes, EnqueuePending(n) PROVE TypeOK'
    BY <1>1, <1>i, KeyFacts DEF EnqueuePending, TypeOK
  <1>2. ASSUME NEW n \in Nodes, NEW x \in Uuids, EnqueueReminder(n, x) PROVE TypeOK'
    BY <1>2, <1>i, KeyFacts DEF EnqueueReminder, TypeOK
  <1>3. ASSUME NEW s \in Outcomes, EnqueueOutcome(s) PROVE TypeOK'
    BY <1>3, <1>i, KeyFacts DEF EnqueueOutcome, TypeOK
  <1>b. ASSUME NEW e \in Events, EnqueueBusinessEvent(e) PROVE TypeOK'
    BY <1>b, <1>i, KeyFacts DEF EnqueueBusinessEvent, TypeOK
  <1>4. ASSUME NEW n \in Nodes, RequeuePending(n) PROVE TypeOK'
    <2>1. jobs' \in [Keys -> Row]
      BY <1>4, <1>i, KeyFacts DEF RequeuePending, TypeOK
    <2>2. resetting' \in SUBSET Nodes
      BY <1>4 DEF RequeuePending, TypeOK
    <2>3. QED
      BY <1>4, <2>1, <2>2 DEF RequeuePending, TypeOK
  <1>5. ASSUME NEW n \in Nodes, ResetForRetry(n) PROVE TypeOK'
    BY <1>5, KeyFacts, LeasedJobAssumption
       DEF ResetForRetry, TypeOK, QueuedRow, FreeRow, Row, Status
  <1>6. ASSUME NEW w \in Workers, NEW k \in Keys, Begin(w, k) PROVE TypeOK'
    <2>1. \A p \in {"claim", "finalize"} : Started(k, p) \in Run /\ Started(k, p).key \in Keys
      BY LeasedJobAssumption DEF Started, Run
    <2>2. \E p \in {"claim", "finalize"} : run' = [run EXCEPT ![w] = Started(k, p)]
      BY <1>6 DEF Begin
    <2>3. run' \in [Workers -> Run] /\ \A v \in Workers : run'[v].pc # "idle" => run'[v].key \in Keys
      BY <2>1, <2>2 DEF TypeOK
    <2>4. QED
      BY <1>6, <2>3 DEF Begin, TypeOK
  <1>7. ASSUME NEW w \in Workers, Claim(w) PROVE TypeOK'
    <2> DEFINE k == run[w].key
    <2>1. k \in Keys /\ jobs[k] \in Row /\ run[w] \in Run
      BY <1>7 DEF Claim, TypeOK
    <2>2. CASE Claimable(jobs[k])
      <3>0. jobs[k].attempts < MaxAttempts /\ jobs[k].attempts \in 0 .. MaxAttempts
        BY <2>1, <2>2 DEF Claimable, Row
      <3>1. jobs[k].attempts + 1 \in 0 .. MaxAttempts
        BY <3>0, LeasedJobAssumption
      <3>r. Claimed(jobs[k], w) \in Row
        BY <2>1, <3>0, RowUpdates
      <3>2. jobs' = [jobs EXCEPT ![k] = Claimed(jobs[k], w)]
        BY <1>7, <2>2, <2>1 DEF Claim, TypeOK
      <3> DEFINE e == [run[w] EXCEPT !.pc = "deliver", !.tries = jobs[k].attempts + 1]
      <3>3. run' = [run EXCEPT ![w] = e]
        BY <1>7, <2>2 DEF Claim, TypeOK
      <3>4. e \in Run /\ e.key = k
        BY <2>1, <3>1 DEF Run, Delivering
      <3>5. QED
        BY <1>7, <2>1, <3>r, <3>2, <3>3, <3>4 DEF Claim, TypeOK
    <2>3. CASE ~Claimable(jobs[k])
      BY <1>7, <2>3, IdleType DEF Claim, TypeOK
    <2>4. QED
      BY <2>2, <2>3
  <1>8. ASSUME NEW w \in Workers, FinalizeExhausted(w) \/ RecordOutcome(w) \/ RecordFailure(w)
        PROVE TypeOK'
    <2>1. run[w].key \in Keys /\ jobs[run[w].key] \in Row
      BY <1>8 DEF FinalizeExhausted, RecordOutcome, RecordFailure, TypeOK
    <2>2. jobs' \in [Keys -> Row]
      BY <1>8, <2>1, RowUpdates
         DEF FinalizeExhausted, RecordOutcome, RecordFailure, TypeOK, Terminal
    <2>3. QED
      BY <1>8, <2>2, IdleType DEF FinalizeExhausted, RecordOutcome, RecordFailure, TypeOK
  <1>9. ASSUME NEW w \in Workers, CheckSubject(w) PROVE TypeOK'
    <2>1. run[w] \in Run /\ run[w].key \in Keys
      BY <1>9 DEF CheckSubject, TypeOK
    <2> DEFINE e == IF SkipReason(run[w].key)
                    THEN [run[w] EXCEPT !.pc = "record", !.skip = TRUE]
                    ELSE [run[w] EXCEPT !.pc = "send", !.todo = Users]
    <2>2. run' = [run EXCEPT ![w] = e]
      BY <1>9 DEF CheckSubject, TypeOK
    <2>3. e \in Run /\ e.key \in Keys
      BY <2>1 DEF Run, Delivering
    <2> HIDE DEF e
    <2>4. QED
      BY <1>9, <2>2, <2>3 DEF CheckSubject, TypeOK
  <1>10. ASSUME NEW w \in Workers, NEW u \in Users, SendTo(w, u) PROVE TypeOK'
    <2>1. run[w] \in Run /\ run[w].key \in Keys
      BY <1>10 DEF SendTo, TypeOK
    <2>2. run' = [run EXCEPT ![w] = [run[w] EXCEPT !.todo = run[w].todo \ {u}]]
      BY <1>10 DEF SendTo, TypeOK
    <2>3. [run[w] EXCEPT !.todo = run[w].todo \ {u}] \in Run
      BY <2>1 DEF Run
    <2>4. sent' \in [Keys -> [Users -> Nat]]
      <3>1. sent[run[w].key] \in [Users -> Nat]
        BY <2>1 DEF TypeOK
      <3>2. [sent[run[w].key] EXCEPT ![u] = sent[run[w].key][u] + 1] \in [Users -> Nat]
        BY <3>1
      <3>3. QED
        BY <1>10, <2>1, <3>2 DEF SendTo, TypeOK
    <2>5. handled' \in [Keys -> SUBSET Users]
      BY <1>10, <2>1 DEF SendTo, TypeOK
    <2>6. QED
      BY <1>10, <2>1, <2>2, <2>3, <2>4, <2>5 DEF SendTo, TypeOK
  <1>11. ASSUME NEW w \in Workers, SendDone(w) \/ DeliverRaises(w) PROVE TypeOK'
    <2>1. run[w] \in Run /\ run[w].key \in Keys
      BY <1>11 DEF SendDone, DeliverRaises, TypeOK
    <2>2. \E p \in Delivering : run' = [run EXCEPT ![w] = [run[w] EXCEPT !.pc = p]]
      BY <1>11 DEF SendDone, DeliverRaises, TypeOK, Delivering
    <2>3. \A p \in Delivering : [run[w] EXCEPT !.pc = p] \in Run
      BY <2>1 DEF Run
    <2>4. QED
      BY <1>11, <2>1, <2>2, <2>3 DEF SendDone, DeliverRaises, TypeOK
  <1>12. ASSUME NEW w \in Workers, Crash(w) PROVE TypeOK'
    BY <1>12, IdleType, OutboundAssumption DEF Crash, TypeOK
  <1>13. ASSUME NEW k \in Keys, LeaseExpires(k) \/ RetryDue(k) PROVE TypeOK'
    <2>1. jobs[k] \in Row
      BY DEF TypeOK
    <2>2. [jobs[k] EXCEPT !.live = FALSE] \in Row /\ [jobs[k] EXCEPT !.due = TRUE] \in Row
      BY <2>1 DEF Row
    <2>3. jobs' = [jobs EXCEPT ![k] = [jobs[k] EXCEPT !.live = FALSE]]
          \/ jobs' = [jobs EXCEPT ![k] = [jobs[k] EXCEPT !.due = TRUE]]
      BY <1>13 DEF LeaseExpires, RetryDue, TypeOK
    <2>4. jobs' \in [Keys -> Row]
      BY <2>2, <2>3 DEF TypeOK
    <2>5. QED
      BY <1>13, <2>4 DEF LeaseExpires, RetryDue, TypeOK
  <1>14. ASSUME NEW s \in Documents, SubjectChanges(s) PROVE TypeOK'
    BY <1>14 DEF SubjectChanges, TypeOK
  <1>15. CASE UNCHANGED vars
    BY <1>15 DEF vars, TypeOK
  <1>16. QED
    BY <1>1, <1>2, <1>3, <1>4, <1>5, <1>6, <1>7, <1>8, <1>9, <1>10, <1>11, <1>12, <1>13,
       <1>14, <1>15, <1>b DEF Next, Kick, Recover

\* Type correctness of the notification outbox: rows and runs keep the shape
\* outbound_notification_job.py and run() give them.
THEOREM TypeCorrect == Spec => []TypeOK
  BY InitTypeOK, NextTypeOK, PTL DEF Spec

-----------------------------------------------------------------------------
(***************************************************************************)
(* The inductive invariant.  A row is RUNNING exactly when it has a        *)
(* holder; whom a run that still holds its lease is done with was tried    *)
(* since the row was queued; a requeue under way has a row to reset.       *)
(***************************************************************************)
RowShape ==
    \A k \in Keys : /\ jobs[k].status = "RUNNING" <=> jobs[k].owner # NoWorker
                    /\ jobs[k].live => jobs[k].status = "RUNNING"

\* A run that sends, or has sent and is about to say so.
HandsOver(r) == r.pc = "send" \/ (r.pc = "record" /\ ~r.skip)

\* What a run under its own lease need not send any more was tried since the
\* row was queued: no reset can come in between without taking the lease.
HandedSoFar ==
    \A w \in Workers : HandsOver(run[w]) =>
        /\ run[w].pc = "record" => run[w].todo = {}
        /\ OwnsLease(jobs[run[w].key], w) => Users \ run[w].todo \subseteq handled[run[w].key]

NothingSkippedYet ==
    \A w \in Workers : run[w].pc # "record" => run[w].skip = FALSE

ResettingExists ==
    \A n \in resetting : jobs[<<n, First>>].status # "ABSENT"

IInv ==
    /\ TypeOK
    /\ RowShape
    /\ HandedSoFar
    /\ NothingSkippedYet
    /\ ResettingExists
    /\ AttemptSnapshotCurrent
    /\ ExhaustedOnlyWhenSpent
    /\ CompletedWasHandedOver

\* The invariant holds initially.
LEMMA InitIInv == Init => IInv
  <1> SUFFICES ASSUME Init PROVE IInv
    OBVIOUS
  <1>1. TypeOK
    BY InitTypeOK
  <1>2. QED
    BY <1>1 DEF Init, IInv, RowShape, HandedSoFar, NothingSkippedYet, ResettingExists,
       AttemptSnapshotCurrent, ExhaustedOnlyWhenSpent, CompletedWasHandedOver, AbsentRow,
       FreeRow, Idle, Started, Delivering, HandsOver

\* A step that rewrites the row of one key keeps what the invariant says of the
\* table when the new row is well shaped and its outcome is earned.
LEMMA OneRow ==
    ASSUME IInv, NEW k \in Keys,
           \A j \in Keys : j # k => jobs'[j] = jobs[j],
           UNCHANGED <<handled, resetting>>,
           jobs'[k].status = "RUNNING" <=> jobs'[k].owner # NoWorker,
           jobs'[k].live => jobs'[k].status = "RUNNING",
           jobs'[k].status # "ABSENT",
           jobs'[k].status = "EXHAUSTED" => jobs'[k].attempts = MaxAttempts,
           jobs'[k].status = "COMPLETED" => handled[k] = Users
    PROVE  RowShape' /\ ResettingExists' /\ ExhaustedOnlyWhenSpent' /\ CompletedWasHandedOver'
  <1>1. RowShape'
    BY DEF RowShape, IInv
  <1>2. \A n \in resetting : <<n, First>> \in Keys
    BY KeyFacts DEF IInv, TypeOK
  <1>3. ResettingExists'
    BY <1>2 DEF ResettingExists, IInv
  <1>4. ExhaustedOnlyWhenSpent'
    BY DEF ExhaustedOnlyWhenSpent, IInv
  <1>5. CompletedWasHandedOver'
    BY DEF CompletedWasHandedOver, IInv
  <1>6. QED
    BY <1>1, <1>3, <1>4, <1>5

\* A step that leaves the runs that hand over alone, or takes their lease.
LEMMA StillHanded ==
    ASSUME IInv, TypeOK',
           \A v \in Workers : HandsOver(run'[v]) =>
               /\ run'[v] = run[v]
               /\ OwnsLease(jobs'[run[v].key], v) =>
                      /\ OwnsLease(jobs[run[v].key], v)
                      /\ handled[run[v].key] \subseteq handled'[run[v].key]
    PROVE  HandedSoFar'
  <1> SUFFICES ASSUME NEW v \in Workers, HandsOver(run'[v])
               PROVE  /\ run'[v].pc = "record" => run'[v].todo = {}
                      /\ OwnsLease(jobs'[run'[v].key], v) =>
                             Users \ run'[v].todo \subseteq handled'[run'[v].key]
    BY DEF HandedSoFar
  <1>1. run'[v] = run[v] /\ HandsOver(run[v])
    OBVIOUS
  <1>2. /\ run[v].pc = "record" => run[v].todo = {}
        /\ OwnsLease(jobs[run[v].key], v) => Users \ run[v].todo \subseteq handled[run[v].key]
    BY <1>1 DEF IInv, HandedSoFar
  <1>3. QED
    BY <1>1, <1>2

\* Sending to one recipient after the other, and a lease taken or a row reset
\* meanwhile, keep it.
LEMMA NextHanded == IInv /\ TypeOK' /\ [Next]_vars => HandedSoFar'
  <1> SUFFICES ASSUME IInv, TypeOK', [Next]_vars PROVE HandedSoFar'
    OBVIOUS
  <1>t. TypeOK
    BY DEF IInv
  <1>k. \A v \in Workers : HandsOver(run[v]) => run[v].key \in Keys
    BY <1>t DEF HandsOver, TypeOK
  <1>1. ASSUME NEW k \in Keys, Insert(k), run' = run, handled' = handled PROVE HandedSoFar'
    <2>1. ASSUME NEW v \in Workers, HandsOver(run[v]), OwnsLease(jobs'[run[v].key], v)
          PROVE  OwnsLease(jobs[run[v].key], v)
      BY <1>1, <1>t, <1>k, <2>1 DEF Insert, TypeOK, OwnsLease, QueuedRow, FreeRow
    <2>2. QED
      BY <1>1, <2>1, StillHanded
  <1>2. ASSUME UNCHANGED <<jobs, run, handled>> PROVE HandedSoFar'
    BY <1>2, StillHanded
  <1>3. ASSUME NEW n \in Nodes, ResetForRetry(n) PROVE HandedSoFar'
    <2> DEFINE k == <<n, First>>
    <2>1. k \in Keys /\ run' = run
      BY <1>3, KeyFacts DEF ResetForRetry
    <2>2. \A v \in Workers : ~OwnsLease(jobs'[k], v)
      BY <1>3, <1>t, <2>1 DEF ResetForRetry, TypeOK, OwnsLease, QueuedRow, FreeRow
    <2>3. \A j \in Keys : j # k => jobs'[j] = jobs[j] /\ handled'[j] = handled[j]
      BY <1>3, <1>t, <2>1 DEF ResetForRetry, TypeOK
    <2>4. QED
      BY <1>k, <2>1, <2>2, <2>3, StillHanded
  <1>4. ASSUME NEW w \in Workers, NEW e, run' = [run EXCEPT ![w] = e], ~HandsOver(e),
               handled' = handled,
               \A k \in Keys, v \in Workers :
                   v # w /\ OwnsLease(jobs'[k], v) => OwnsLease(jobs[k], v)
        PROVE  HandedSoFar'
    <2>1. run'[w] = e /\ \A v \in Workers : v # w => run'[v] = run[v]
      BY <1>4, <1>t DEF TypeOK
    <2>2. QED
      BY <1>k, <1>4, <2>1, StillHanded
  <1>i. ~HandsOver(Idle)
    BY DEF HandsOver, Idle, Started
  <1>5. ASSUME NEW w \in Workers, NEW k \in Keys, Begin(w, k) PROVE HandedSoFar'
    <2>1. \E p \in {"claim", "finalize"} : run' = [run EXCEPT ![w] = Started(k, p)]
      BY <1>5 DEF Begin
    <2>2. \A p \in {"claim", "finalize"} : ~HandsOver(Started(k, p))
      BY DEF Started, HandsOver
    <2>3. QED
      BY <1>4, <1>5, <2>1, <2>2 DEF Begin
  <1>6. ASSUME NEW w \in Workers, Claim(w) PROVE HandedSoFar'
    <2> DEFINE k == run[w].key
    <2>1. k \in Keys /\ run[w] \in Run
      BY <1>6, <1>t DEF Claim, TypeOK
    <2>2. CASE Claimable(jobs[k])
      <3> DEFINE e == [run[w] EXCEPT !.pc = "deliver", !.tries = jobs[k].attempts + 1]
      <3>1. run' = [run EXCEPT ![w] = e] /\ handled' = handled
        BY <1>6, <2>2 DEF Claim
      <3>2. ~HandsOver(e)
        BY <2>1 DEF Run, HandsOver
      <3>3. ASSUME NEW j \in Keys, NEW v \in Workers, v # w, OwnsLease(jobs'[j], v)
            PROVE  OwnsLease(jobs[j], v)
        BY <1>6, <1>t, <2>1, <2>2, <3>3 DEF Claim, TypeOK, OwnsLease, Claimed
      <3> HIDE DEF e
      <3>4. QED
        BY <1>4, <3>1, <3>2, <3>3
    <2>3. CASE ~Claimable(jobs[k])
      BY <1>4, <1>6, <1>i, <2>3 DEF Claim
    <2>4. QED
      BY <2>2, <2>3
  <1>7. ASSUME NEW w \in Workers, FinalizeExhausted(w) \/ RecordOutcome(w) \/ RecordFailure(w)
        PROVE  HandedSoFar'
    <2> DEFINE k == run[w].key
    <2>1. k \in Keys /\ run' = [run EXCEPT ![w] = Idle] /\ handled' = handled
      BY <1>7, <1>t DEF FinalizeExhausted, RecordOutcome, RecordFailure, TypeOK
    <2>2. \/ jobs' = jobs
          \/ \E o \in Terminal : jobs' = [jobs EXCEPT ![k] = Closed(jobs[k], o)]
          \/ jobs' = [jobs EXCEPT ![k] = RetryLater(jobs[k])]
      BY <1>7 DEF FinalizeExhausted, RecordOutcome, RecordFailure, Terminal
    <2>3. ASSUME NEW j \in Keys, NEW v \in Workers, OwnsLease(jobs'[j], v)
          PROVE  OwnsLease(jobs[j], v)
      <3>1. \A s \in Terminal \cup {"FAILED"} : \A a : ~OwnsLease(FreeRow(s, a), v)
        BY DEF OwnsLease, FreeRow, Terminal
      <3>2. \/ jobs' = jobs
            \/ \E s \in Terminal \cup {"FAILED"} : \E a : jobs' = [jobs EXCEPT ![k] = FreeRow(s, a)]
        BY <2>2 DEF Closed, RetryLater
      <3>3. jobs'[j] = jobs[j] \/ \E s \in Terminal \cup {"FAILED"} : \E a : jobs'[j] = FreeRow(s, a)
        BY <1>t, <2>1, <3>2 DEF TypeOK
      <3>4. QED
        BY <2>3, <3>1, <3>3
    <2>4. QED
      BY <1>4, <1>i, <2>1, <2>3
  <1>8. ASSUME NEW w \in Workers, NEW e, run' = [run EXCEPT ![w] = e], jobs' = jobs,
               \A k \in Keys : handled[k] \subseteq handled'[k],
               HandsOver(e) => /\ e.key = run[w].key /\ run[w].key \in Keys
                               /\ e.pc = "record" => e.todo = {}
                               /\ OwnsLease(jobs[e.key], w) => Users \ e.todo \subseteq handled'[e.key]
        PROVE  HandedSoFar'
    <2>1. run'[w] = e /\ \A v \in Workers : v # w => run'[v] = run[v]
      BY <1>8, <1>t DEF TypeOK
    <2>2. ASSUME NEW v \in Workers, HandsOver(run'[v])
          PROVE  /\ run'[v].pc = "record" => run'[v].todo = {}
                 /\ OwnsLease(jobs'[run'[v].key], v) =>
                        Users \ run'[v].todo \subseteq handled'[run'[v].key]
      <3>1. CASE v = w
        BY <1>8, <2>1, <2>2, <3>1
      <3>2. CASE v # w
        <4>1. run'[v] = run[v] /\ HandsOver(run[v]) /\ run[v].key \in Keys
          BY <1>k, <2>1, <2>2, <3>2
        <4>2. /\ run[v].pc = "record" => run[v].todo = {}
              /\ OwnsLease(jobs[run[v].key], v) => Users \ run[v].todo \subseteq handled[run[v].key]
          BY <4>1 DEF IInv, HandedSoFar
        <4>3. QED
          BY <1>8, <4>1, <4>2
      <3>3. QED
        BY <3>1, <3>2
    <2>3. QED
      BY <2>2 DEF HandedSoFar
  <1>9. ASSUME NEW w \in Workers, CheckSubject(w) PROVE HandedSoFar'
    <2> DEFINE e == run'[w]
    <2>1. run[w] \in Run /\ run[w].key \in Keys
      BY <1>9, <1>t DEF CheckSubject, TypeOK
    <2>2. run' = [run EXCEPT ![w] = e] /\ jobs' = jobs /\ handled' = handled
      BY <1>9, <1>t DEF CheckSubject, TypeOK
    <2>3. (e.pc = "record" /\ e.skip) \/ (e.pc = "send" /\ e.key = run[w].key /\ e.todo = Users)
      BY <1>9, <1>t, <2>1 DEF CheckSubject, TypeOK, Run
    <2> HIDE DEF e
    <2>4. QED
      BY <1>8, <2>1, <2>2, <2>3 DEF HandsOver
  <1>10. ASSUME NEW w \in Workers, NEW u \in Users, SendTo(w, u) PROVE HandedSoFar'
    <2> DEFINE k == run[w].key
               e == [run[w] EXCEPT !.todo = run[w].todo \ {u}]
    <2>1. run[w] \in Run /\ k \in Keys /\ run[w].pc = "send"
      BY <1>10, <1>t DEF SendTo, TypeOK
    <2>2. run' = [run EXCEPT ![w] = e] /\ jobs' = jobs
      BY <1>10, <1>t DEF SendTo, TypeOK
    <2>3. e.key = k /\ e.pc = "send" /\ e.todo = run[w].todo \ {u}
      BY <2>1 DEF Run
    <2>4. handled'[k] = handled[k] \cup {u} /\ \A j \in Keys : handled[j] \subseteq handled'[j]
      BY <1>10, <1>t, <2>1 DEF SendTo, TypeOK
    <2>5. OwnsLease(jobs[k], w) => Users \ run[w].todo \subseteq handled[k]
      BY <2>1 DEF IInv, HandedSoFar, HandsOver
    <2> HIDE DEF e, k
    <2>6. OwnsLease(jobs[e.key], w) => Users \ e.todo \subseteq handled'[e.key]
      BY <2>3, <2>4, <2>5
    <2>7. QED
      BY <1>8, <2>1, <2>2, <2>3, <2>4, <2>6 DEF k
  <1>11. ASSUME NEW w \in Workers, SendDone(w) PROVE HandedSoFar'
    <2> DEFINE e == [run[w] EXCEPT !.pc = "record"]
    <2>1. run[w] \in Run /\ run[w].key \in Keys /\ run[w].pc = "send" /\ run[w].todo = {}
      BY <1>11, <1>t DEF SendDone, TypeOK
    <2>2. run' = [run EXCEPT ![w] = e] /\ jobs' = jobs /\ handled' = handled
      BY <1>11, <1>t DEF SendDone, TypeOK
    <2>3. e.key = run[w].key /\ e.todo = {}
      BY <2>1 DEF Run
    <2>4. OwnsLease(jobs[run[w].key], w) => Users \ {} \subseteq handled[run[w].key]
      BY <2>1 DEF IInv, HandedSoFar, HandsOver
    <2> HIDE DEF e
    <2>5. QED
      BY <1>8, <2>1, <2>2, <2>3, <2>4
  <1>12. ASSUME NEW w \in Workers, DeliverRaises(w) \/ Crash(w) PROVE HandedSoFar'
    <2> DEFINE e == run'[w]
    <2>1. run' = [run EXCEPT ![w] = e] /\ ~HandsOver(e) /\ jobs' = jobs /\ handled' = handled
      BY <1>12, <1>i, <1>t DEF DeliverRaises, Crash, TypeOK, Run, HandsOver
    <2> HIDE DEF e
    <2>2. QED
      BY <1>4, <2>1
  <1>13. ASSUME NEW k \in Keys, LeaseExpires(k) \/ RetryDue(k) PROVE HandedSoFar'
    <2>1. run' = run /\ handled' = handled
      BY <1>13 DEF LeaseExpires, RetryDue
    <2>2. \A j \in Keys : jobs[j] \in Row
      BY <1>t DEF TypeOK
    <2>3. ASSUME NEW j \in Keys
          PROVE  jobs'[j].status = jobs[j].status /\ jobs'[j].owner = jobs[j].owner
      <3>1. \/ jobs'[j] = jobs[j]
            \/ jobs'[j] = [jobs[j] EXCEPT !.live = FALSE]
            \/ jobs'[j] = [jobs[j] EXCEPT !.due = TRUE]
        BY <1>13, <1>t DEF LeaseExpires, RetryDue, TypeOK
      <3>2. QED
        BY <2>2, <3>1 DEF Row
    <2>4. QED
      BY <1>k, <2>1, <2>3, StillHanded DEF OwnsLease
  <1>14. ASSUME NEW n \in Nodes, RequeuePending(n) PROVE HandedSoFar'
    BY <1>1, <1>2, <1>14, KeyFacts DEF RequeuePending
  <1>15. QED
    BY <1>1, <1>2, <1>3, <1>5, <1>6, <1>7, <1>9, <1>10, <1>11, <1>12, <1>13, <1>14, KeyFacts
       DEF Next, vars, Kick, Recover, EnqueuePending, EnqueueReminder, EnqueueOutcome,
           EnqueueBusinessEvent, SubjectChanges

\* Every action preserves it.
LEMMA NextIInv == IInv /\ [Next]_vars => IInv'
  <1> SUFFICES ASSUME IInv, [Next]_vars PROVE IInv'
    OBVIOUS
  <1>t. TypeOK /\ TypeOK'
    BY NextTypeOK DEF IInv
  <1> DEFINE Rest == /\ RowShape
                     /\ NothingSkippedYet
                     /\ ResettingExists
                     /\ AttemptSnapshotCurrent
                     /\ ExhaustedOnlyWhenSpent
                     /\ CompletedWasHandedOver
  <1>r. Rest
    BY DEF IInv
  <1>h. /\ HandedSoFar /\ HandedSoFar'
        /\ \A w \in Workers : run[w].pc = "record" /\ ~run[w].skip /\ OwnsLease(jobs[run[w].key], w)
                                 => Users \subseteq handled[run[w].key]
    BY <1>t, NextHanded DEF IInv, HandedSoFar, HandsOver
  <1>s. SUFFICES Rest'
    BY <1>t, <1>h DEF IInv
  <1> USE DEF RowShape, NothingSkippedYet, ResettingExists,
              AttemptSnapshotCurrent, ExhaustedOnlyWhenSpent, CompletedWasHandedOver
  <1>1. ASSUME NEW k \in Keys, Insert(k),
               UNCHANGED <<run, subject, resetting, resets, sent, handled, crashes>>
        PROVE  Rest'
    BY <1>1, <1>t, <1>r DEF Insert, TypeOK, QueuedRow, FreeRow
  <1>2. ASSUME NEW n \in Nodes, RequeuePending(n) PROVE Rest'
    <2>1. CASE jobs' = jobs
      BY <1>2, <2>1, <1>t, <1>r, KeyFacts DEF RequeuePending, TypeOK, Insert, QueuedRow, FreeRow
    <2>2. CASE \E k \in Keys : Insert(k) /\ UNCHANGED resetting
      BY <1>2, <2>2, <1>1 DEF RequeuePending
    <2>3. QED
      BY <1>2, <2>1, <2>2, KeyFacts DEF RequeuePending
  <1>3. ASSUME NEW n \in Nodes, ResetForRetry(n) PROVE Rest'
    BY <1>3, <1>t, <1>r, KeyFacts DEF ResetForRetry, TypeOK, QueuedRow, FreeRow
  <1>4. ASSUME NEW w \in Workers, NEW k \in Keys, Begin(w, k) PROVE Rest'
    BY <1>4, <1>t, <1>r DEF Begin, Started, TypeOK, Delivering
  <1>5. ASSUME NEW w \in Workers, Claim(w) PROVE Rest'
    <2> DEFINE k == run[w].key
    <2>1. k \in Keys /\ run[w].pc = "claim" /\ run[w] \in Run
      BY <1>5, <1>t DEF Claim, TypeOK
    <2>2. CASE Claimable(jobs[k])
      <3>1. /\ jobs'[k] = Claimed(jobs[k], w)
            /\ \A j \in Keys : j # k => jobs'[j] = jobs[j]
        BY <1>5, <1>t, <2>1, <2>2 DEF Claim, TypeOK
      <3>2. /\ run'[w].pc = "deliver" /\ run'[w].key = k
            /\ run'[w].tries = jobs[k].attempts + 1 /\ run'[w].skip = run[w].skip
            /\ \A v \in Workers : v # w => run'[v] = run[v]
        <4> DEFINE e == [run[w] EXCEPT !.pc = "deliver", !.tries = jobs[k].attempts + 1]
        <4>1. run' = [run EXCEPT ![w] = e]
          BY <1>5, <1>t, <2>2 DEF Claim, TypeOK
        <4>2. e.pc = "deliver" /\ e.key = k /\ e.tries = jobs[k].attempts + 1 /\ e.skip = run[w].skip
          BY <2>1 DEF Run
        <4> HIDE DEF e
        <4>3. QED
          BY <1>t, <4>1, <4>2 DEF TypeOK
      <3>3. /\ jobs'[k].status = "RUNNING" /\ jobs'[k].owner = w /\ w # NoWorker
            /\ jobs'[k].attempts = jobs[k].attempts + 1
        BY <3>1, LeasedJobAssumption DEF Claimed
      <3>4. UNCHANGED <<handled, resetting>>
        BY <1>5 DEF Claim
      <3>5. RowShape' /\ ResettingExists' /\ ExhaustedOnlyWhenSpent' /\ CompletedWasHandedOver'
        BY <2>1, <3>1, <3>3, <3>4, OneRow
      <3>6. NothingSkippedYet'
        BY <1>r, <2>1, <3>2, <3>4
      <3>7. AttemptSnapshotCurrent'
        BY <1>r, <3>1, <3>2, <3>3 DEF Delivering
      <3>8. QED
        BY <3>5, <3>6, <3>7
    <2>3. CASE ~Claimable(jobs[k])
      <3>1. run'[w] = Idle /\ \A v \in Workers : v # w => run'[v] = run[v]
        BY <1>5, <1>t, <2>3 DEF Claim, TypeOK
      <3>2. UNCHANGED <<jobs, handled, resetting>>
        BY <1>5, <2>3 DEF Claim
      <3>3. QED
        BY <1>r, <3>1, <3>2 DEF Idle, Started, Delivering
    <2>4. QED
      BY <2>2, <2>3
  <1>6. ASSUME NEW w \in Workers, FinalizeExhausted(w) PROVE Rest'
    <2> DEFINE k == run[w].key
    <2>1. k \in Keys /\ jobs[k] \in Row
      BY <1>6, <1>t DEF FinalizeExhausted, TypeOK
    <2>2. run'[w] = Idle /\ \A v \in Workers : v # w => run'[v] = run[v]
      BY <1>6, <1>t DEF FinalizeExhausted, TypeOK
    <2>3. UNCHANGED <<handled, resetting>>
      BY <1>6 DEF FinalizeExhausted
    <2>4. NothingSkippedYet'
      BY <1>r, <2>2, <2>3 DEF Idle, Started
    <2>5. CASE jobs' = jobs
      BY <1>r, <2>2, <2>3, <2>4, <2>5 DEF Idle, Started, Delivering
    <2>6. CASE SpentAndFree(jobs[k]) /\ jobs' = [jobs EXCEPT ![k] = Closed(jobs[k], "EXHAUSTED")]
      <3>1. jobs[k].attempts = MaxAttempts
        BY <2>1, <2>6, LeasedJobAssumption DEF SpentAndFree, Row
      <3>2. /\ jobs'[k].status = "EXHAUSTED" /\ jobs'[k].owner = NoWorker
            /\ ~jobs'[k].live /\ jobs'[k].attempts = MaxAttempts
            /\ \A j \in Keys : j # k => jobs'[j] = jobs[j]
        BY <1>t, <2>1, <2>6, <3>1 DEF Closed, FreeRow, TypeOK
      <3>3. RowShape' /\ ResettingExists' /\ ExhaustedOnlyWhenSpent' /\ CompletedWasHandedOver'
        BY <2>1, <2>3, <3>2, OneRow
      <3>4. AttemptSnapshotCurrent'
        BY <1>r, <2>2, <3>2 DEF Delivering, Idle, Started
      <3>5. QED
        BY <2>4, <3>3, <3>4
    <2>7. QED
      BY <1>6, <2>5, <2>6 DEF FinalizeExhausted
  <1>7. ASSUME NEW w \in Workers, CheckSubject(w) PROVE Rest'
    BY <1>7, <1>t, <1>r DEF CheckSubject, TypeOK, Run, SkipReason, Delivering
  <1>8. ASSUME NEW w \in Workers, NEW u \in Users, SendTo(w, u) PROVE Rest'
    BY <1>8, <1>t, <1>r DEF SendTo, TypeOK, Run, Delivering
  <1>9. ASSUME NEW w \in Workers, SendDone(w) \/ DeliverRaises(w) PROVE Rest'
    <2>1. /\ run[w].pc \in {"deliver", "send"} /\ run[w].skip = FALSE
          /\ run'[w].pc \in {"record", "fail"} /\ run'[w].skip = FALSE
          /\ run'[w].key = run[w].key /\ run'[w].tries = run[w].tries
          /\ \A v \in Workers : v # w => run'[v] = run[v]
      BY <1>9, <1>t, <1>r DEF SendDone, DeliverRaises, TypeOK, Run
    <2>2. UNCHANGED <<jobs, handled, resetting>>
      BY <1>9 DEF SendDone, DeliverRaises
    <2>3. QED
      BY <1>r, <2>1, <2>2 DEF Delivering
  <1>10. ASSUME NEW w \in Workers, RecordOutcome(w) PROVE Rest'
    <2> DEFINE k == run[w].key
    <2>1. k \in Keys /\ jobs[k] \in Row /\ run[w].pc = "record" /\ handled[k] \subseteq Users
      BY <1>10, <1>t DEF RecordOutcome, TypeOK
    <2>2. run'[w] = Idle /\ \A v \in Workers : v # w => run'[v] = run[v]
      BY <1>10, <1>t DEF RecordOutcome, TypeOK
    <2>3. UNCHANGED <<handled, resetting>>
      BY <1>10 DEF RecordOutcome
    <2>4. NothingSkippedYet'
      BY <1>r, <2>2 DEF Idle, Started
    <2>5. CASE jobs' = jobs
      BY <1>r, <2>2, <2>3, <2>4, <2>5 DEF Idle, Started, Delivering
    <2>6. ASSUME OwnsLease(jobs[k], w), NEW s \in {"SKIPPED", "COMPLETED"},
                 s = "COMPLETED" => ~run[w].skip,
                 jobs' = [jobs EXCEPT ![k] = FreeRow(s, jobs[k].attempts)]
          PROVE  Rest'
      <3>1. /\ jobs'[k].status = s /\ jobs'[k].owner = NoWorker
            /\ ~jobs'[k].live /\ jobs'[k].attempts = jobs[k].attempts
            /\ \A j \in Keys : j # k => jobs'[j] = jobs[j]
        BY <1>t, <2>1, <2>6 DEF FreeRow, TypeOK
      <3>2. s = "COMPLETED" => handled[k] = Users
        BY <1>h, <2>1, <2>6
      <3>3. RowShape' /\ ResettingExists' /\ ExhaustedOnlyWhenSpent' /\ CompletedWasHandedOver'
        BY <2>1, <2>3, <3>1, <3>2, OneRow
      <3>4. AttemptSnapshotCurrent'
        BY <1>r, <2>2, <3>1 DEF Delivering, Idle, Started
      <3>5. QED
        BY <2>4, <3>3, <3>4
    <2>7. QED
      BY <1>10, <2>5, <2>6 DEF RecordOutcome, Closed
  <1>11. ASSUME NEW w \in Workers, RecordFailure(w) PROVE Rest'
    <2> DEFINE k == run[w].key
    <2>1. k \in Keys /\ jobs[k] \in Row /\ run[w].pc = "fail"
      BY <1>11, <1>t DEF RecordFailure, LastAttempt, TypeOK
    <2>2. run'[w] = Idle /\ \A v \in Workers : v # w => run'[v] = run[v]
      BY <1>11, <1>t DEF RecordFailure, LastAttempt, TypeOK
    <2>3. UNCHANGED <<handled, resetting>>
      BY <1>11 DEF RecordFailure
    <2>4. NothingSkippedYet'
      BY <1>r, <2>2, <2>3 DEF Idle, Started
    <2>5. CASE jobs' = jobs
      BY <1>r, <2>2, <2>3, <2>4, <2>5 DEF Idle, Started, Delivering
    <2>6. ASSUME OwnsLease(jobs[k], w), NEW s \in {"FAILED", "EXHAUSTED"},
                 s = "EXHAUSTED" => run[w].tries >= MaxAttempts,
                 jobs' = [jobs EXCEPT ![k] = FreeRow(s, jobs[k].attempts)]
          PROVE  Rest'
      <3>1. jobs[k].attempts = run[w].tries
        BY <1>r, <2>1, <2>6 DEF OwnsLease, Delivering
      <3>2. s = "EXHAUSTED" => jobs[k].attempts = MaxAttempts
        BY <2>1, <2>6, <3>1, LeasedJobAssumption DEF Row
      <3>3. /\ jobs'[k].status = s /\ jobs'[k].owner = NoWorker
            /\ ~jobs'[k].live /\ jobs'[k].attempts = jobs[k].attempts
            /\ \A j \in Keys : j # k => jobs'[j] = jobs[j]
        BY <1>t, <2>1, <2>6 DEF FreeRow, TypeOK
      <3>4. RowShape' /\ ResettingExists' /\ ExhaustedOnlyWhenSpent' /\ CompletedWasHandedOver'
        BY <2>1, <2>3, <3>2, <3>3, OneRow
      <3>5. AttemptSnapshotCurrent'
        BY <1>r, <2>2, <3>3 DEF Delivering, Idle, Started
      <3>6. QED
        BY <2>4, <3>4, <3>5
    <2>7. QED
      BY <1>11, <2>5, <2>6 DEF RecordFailure, LastAttempt, Closed, RetryLater
  <1>12. ASSUME NEW w \in Workers, Crash(w) PROVE Rest'
    BY <1>12, <1>t, <1>r DEF Crash, TypeOK, Idle, Started, Delivering
  <1>13. ASSUME NEW k \in Keys, LeaseExpires(k) \/ RetryDue(k) PROVE Rest'
    <2>1. jobs[k] \in Row
      BY <1>t DEF TypeOK
    <2>2. /\ jobs'[k].status = jobs[k].status /\ jobs'[k].owner = jobs[k].owner
          /\ jobs'[k].attempts = jobs[k].attempts /\ (jobs'[k].live => jobs[k].live)
          /\ \A j \in Keys : j # k => jobs'[j] = jobs[j]
      BY <1>13, <1>t, <2>1 DEF LeaseExpires, RetryDue, TypeOK, Row
    <2>3. UNCHANGED <<run, handled, resetting>>
      BY <1>13 DEF LeaseExpires, RetryDue
    <2>4. jobs[k].status # "ABSENT"
      BY <1>13, <1>r DEF LeaseExpires, RetryDue
    <2>5. RowShape' /\ ResettingExists' /\ ExhaustedOnlyWhenSpent' /\ CompletedWasHandedOver'
      <3>1. /\ jobs'[k].status = "RUNNING" <=> jobs'[k].owner # NoWorker
            /\ jobs'[k].live => jobs'[k].status = "RUNNING"
            /\ jobs'[k].status = "EXHAUSTED" => jobs'[k].attempts = MaxAttempts
            /\ jobs'[k].status = "COMPLETED" => handled[k] = Users
        BY <1>r, <2>2
      <3>2. QED
        BY <2>2, <2>3, <2>4, <3>1, OneRow
    <2>6. NothingSkippedYet'
      BY <1>r, <2>3
    <2>7. AttemptSnapshotCurrent'
      BY <1>r, <2>2, <2>3
    <2>8. QED
      BY <2>5, <2>6, <2>7
  <1>14. ASSUME NEW s \in Documents, SubjectChanges(s) PROVE Rest'
    BY <1>14, <1>t, <1>r, KeyFacts DEF SubjectChanges, TypeOK
  <1>15. CASE UNCHANGED vars
    BY <1>15, <1>r DEF vars
  <1>16. QED
    BY <1>1, <1>2, <1>3, <1>4, <1>5, <1>6, <1>7, <1>8, <1>9, <1>10, <1>11, <1>12, <1>13,
       <1>14, <1>15, KeyFacts
       DEF Next, Kick, Recover, EnqueuePending, EnqueueReminder, EnqueueOutcome,
           EnqueueBusinessEvent

\* The invariant holds in every reachable state.
THEOREM Invariance == Spec => []IInv
  BY InitIInv, NextIInv, PTL DEF Spec

\* A run that still holds its lease decides between retrying and exhausting on
\* the attempt number the row has now (_record_failure).
THEOREM SnapshotStaysCurrent == Spec => []AttemptSnapshotCurrent
  BY Invariance, PTL DEF IInv

\* No notification is given up before all its attempts were made.
THEOREM ExhaustedIsSpent == Spec => []ExhaustedOnlyWhenSpent
  BY Invariance, PTL DEF IInv

\* A completed notification was tried for every recipient since it was last
\* queued: a run left over from before a resend cannot close the row in the name
\* of the runs that come after it (RecordOutcome).
THEOREM DeliveredBeforeCompleted == Spec => []CompletedWasHandedOver
  BY Invariance, PTL DEF IInv

-----------------------------------------------------------------------------
(***************************************************************************)
(* Copies: every attempt allows one message to each recipient, whether it  *)
(* has been sent or its run may still send it.  A reset gives the attempts *)
(* back and is counted itself.                                             *)
(***************************************************************************)

\* The runs that may still send k to u.
Senders(k, u) ==
    {w \in Workers : /\ run[w].key = k
                     /\ run[w].pc = "deliver" \/ (run[w].pc = "send" /\ u \in run[w].todo)}

Allowed(k) == MaxAttempts * resets[k] + jobs[k].attempts

Bounded(k, u) ==
    /\ IsFiniteSet(Senders(k, u))
    /\ sent[k][u] + Cardinality(Senders(k, u)) <= Allowed(k)

CopiesInv ==
    /\ \A k \in Keys : jobs[k].status = "ABSENT" => jobs[k].attempts = 0
    /\ \A k \in Keys, u \in Users : Bounded(k, u)

LEMMA AllowedTyped == TypeOK => \A k \in Keys : Allowed(k) \in Nat /\ jobs[k].attempts \in Nat
  <1> SUFFICES ASSUME TypeOK, NEW k \in Keys PROVE Allowed(k) \in Nat /\ jobs[k].attempts \in Nat
    OBVIOUS
  <1>1. MaxAttempts \in Nat /\ resets[k] \in Nat /\ jobs[k].attempts \in Nat
    BY LeasedJobAssumption DEF TypeOK, Row
  <1>2. MaxAttempts * resets[k] \in Nat
    BY <1>1
  <1>3. QED
    BY <1>1, <1>2 DEF Allowed

\* Nothing is sent, nobody begins to send, and no attempt is taken back.
LEMMA Quiet ==
    ASSUME TypeOK, TypeOK', NEW k \in Keys, NEW u \in Users, Bounded(k, u),
           sent'[k][u] = sent[k][u], Senders(k, u)' \subseteq Senders(k, u),
           Allowed(k)' >= Allowed(k)
    PROVE  Bounded(k, u)'
  <1> DEFINE S == Senders(k, u)
             T == Senders(k, u)'
  <1>1. IsFiniteSet(S) /\ sent[k][u] + Cardinality(S) <= Allowed(k) /\ T \subseteq S
    BY DEF Bounded
  <1>2. sent[k][u] \in Nat /\ Allowed(k) \in Nat /\ Allowed(k)' \in Nat
    BY AllowedTyped, LeasedJobAssumption DEF TypeOK, Allowed, Row
  <1> HIDE DEF S, T
  <1>3. IsFiniteSet(T) /\ Cardinality(T) \in Nat /\ Cardinality(S) \in Nat /\ Cardinality(T) <= Cardinality(S)
    BY <1>1, FS_Subset, FS_CardinalityType
  <1>4. sent[k][u] + Cardinality(T) <= Allowed(k)'
    BY <1>1, <1>2, <1>3
  <1>5. QED
    BY <1>3, <1>4 DEF Bounded, T

\* A run may only stop to be one that sends, if it is written by none but the
\* claim.
LEMMA FewerSenders ==
    ASSUME TypeOK, NEW w \in Workers, NEW e, run' = [run EXCEPT ![w] = e],
           \/ e.pc \notin {"deliver", "send"}
           \/ e.key = run[w].key /\ e.pc = "send"
              /\ (run[w].pc = "deliver" \/ (run[w].pc = "send" /\ e.todo \subseteq run[w].todo))
    PROVE  \A k \in Keys, u \in Users : Senders(k, u)' \subseteq Senders(k, u)
  BY DEF TypeOK, Senders

LEMMA CopiesInit == Init => CopiesInv
  <1> SUFFICES ASSUME Init PROVE CopiesInv
    OBVIOUS
  <1>1. ASSUME NEW k \in Keys, NEW u \in Users PROVE Bounded(k, u)
    <2>1. Senders(k, u) = {}
      BY DEF Init, Senders, Idle, Started
    <2>2. sent[k][u] = 0 /\ Allowed(k) = 0
      BY <1>1, LeasedJobAssumption DEF Init, Allowed, AbsentRow, FreeRow
    <2>3. QED
      BY <2>1, <2>2, FS_EmptySet DEF Bounded
  <1>2. QED
    BY <1>1 DEF CopiesInv, Init, AbsentRow, FreeRow

\* A step that leaves the runs that send and what was sent alone, and takes
\* no attempt back.
LEMMA NothingSent ==
    ASSUME TypeOK, TypeOK', CopiesInv, sent' = sent,
           \A k \in Keys, u \in Users : Senders(k, u)' \subseteq Senders(k, u),
           \A k \in Keys : /\ Allowed(k)' >= Allowed(k)
                           /\ jobs'[k].status = "ABSENT" => jobs[k].status = "ABSENT"
                                                            /\ jobs'[k].attempts = jobs[k].attempts
    PROVE  CopiesInv'
  <1>1. ASSUME NEW k \in Keys, NEW u \in Users PROVE Bounded(k, u)'
    BY <1>1, Quiet DEF CopiesInv
  <1>2. ASSUME NEW k \in Keys, jobs'[k].status = "ABSENT" PROVE jobs'[k].attempts = 0
    BY <1>2 DEF CopiesInv
  <1>3. QED
    BY <1>1, <1>2 DEF CopiesInv

\* A row is inserted, requeued or left alone.
LEMMA Inserting ==
    ASSUME TypeOK, TypeOK', CopiesInv, NEW k \in Keys, Insert(k), UNCHANGED <<run, resets, sent>>
    PROVE  CopiesInv'
  <1>1. \A j \in Keys, u \in Users : Senders(j, u)' \subseteq Senders(j, u)
    BY DEF Senders
  <1>2. ASSUME NEW j \in Keys
        PROVE  /\ Allowed(j)' >= Allowed(j)
               /\ jobs'[j].status = "ABSENT" => jobs[j].status = "ABSENT"
                                                /\ jobs'[j].attempts = jobs[j].attempts
    <2>1. CASE j = k
      <3>1. jobs'[j] = QueuedRow /\ jobs[j].attempts = 0
        BY <2>1 DEF Insert, TypeOK, CopiesInv
      <3>2. QED
        BY <3>1, AllowedTyped DEF Allowed, QueuedRow, FreeRow
    <2>2. CASE j # k
      <3>1. jobs'[j] = jobs[j]
        BY <2>2 DEF Insert, TypeOK
      <3>2. QED
        BY <3>1, AllowedTyped DEF Allowed
    <2>3. QED
      BY <2>1, <2>2
  <1>3. QED
    BY <1>1, <1>2, NothingSent

\* A step that rewrites one row with the attempts it had.
LEMMA SameAttempts ==
    ASSUME TypeOK, TypeOK', CopiesInv, NEW k \in Keys, NEW row, jobs' = [jobs EXCEPT ![k] = row],
           row.attempts = jobs[k].attempts, row.status = "ABSENT" => jobs[k].status = "ABSENT",
           UNCHANGED <<resets, sent>>,
           \A j \in Keys, u \in Users : Senders(j, u)' \subseteq Senders(j, u)
    PROVE  CopiesInv'
  <1>1. ASSUME NEW j \in Keys
        PROVE  jobs'[j].attempts = jobs[j].attempts /\ (jobs'[j].status = "ABSENT" => jobs[j].status = "ABSENT")
    BY DEF TypeOK
  <1>2. \A j \in Keys : Allowed(j)' >= Allowed(j)
    BY <1>1, AllowedTyped DEF Allowed
  <1>3. QED
    BY <1>1, <1>2, NothingSent

LEMMA CopiesNext == TypeOK /\ TypeOK' /\ CopiesInv /\ [Next]_vars => CopiesInv'
  <1> SUFFICES ASSUME TypeOK, TypeOK', CopiesInv, [Next]_vars PROVE CopiesInv'
    OBVIOUS
  <1>1. ASSUME UNCHANGED <<jobs, run, resets, sent>> PROVE CopiesInv'
    <2>1. \A k \in Keys, u \in Users : Senders(k, u)' = Senders(k, u)
      BY <1>1 DEF Senders
    <2>2. \A k \in Keys : Allowed(k)' = Allowed(k)
      BY <1>1 DEF Allowed
    <2>3. QED
      BY <1>1, <2>1, <2>2, AllowedTyped, NothingSent
  <1>2. ASSUME NEW n \in Nodes, RequeuePending(n) PROVE CopiesInv'
    BY <1>1, <1>2, Inserting, KeyFacts DEF RequeuePending
  <1>3. ASSUME NEW n \in Nodes, ResetForRetry(n) PROVE CopiesInv'
    <2> DEFINE k == <<n, First>>
    <2>0. k \in Keys
      BY KeyFacts
    <2>1. \A j \in Keys, u \in Users : Senders(j, u)' \subseteq Senders(j, u)
      BY <1>3 DEF ResetForRetry, Senders
    <2>2. ASSUME NEW j \in Keys
          PROVE  /\ Allowed(j)' >= Allowed(j)
                 /\ jobs'[j].status = "ABSENT" => jobs[j].status = "ABSENT"
                                                  /\ jobs'[j].attempts = jobs[j].attempts
      <3>1. CASE j = k
        <4>1. jobs'[j] = QueuedRow /\ resets'[j] = resets[j] + 1
          BY <1>3, <2>0, <3>1 DEF ResetForRetry, TypeOK
        <4>2. jobs[j].attempts \in 0 .. MaxAttempts /\ resets[j] \in Nat /\ MaxAttempts \in Nat
          BY LeasedJobAssumption DEF TypeOK, Row
        <4>3. Allowed(j)' = MaxAttempts * (resets[j] + 1)
          BY <4>1, <4>2 DEF Allowed, QueuedRow, FreeRow
        <4>4. MaxAttempts * (resets[j] + 1) = MaxAttempts * resets[j] + MaxAttempts
          BY <4>2
        <4>5. Allowed(j)' >= Allowed(j)
          BY <4>2, <4>3, <4>4 DEF Allowed
        <4>6. QED
          BY <4>1, <4>5 DEF QueuedRow, FreeRow
      <3>2. CASE j # k
        <4>1. jobs'[j] = jobs[j] /\ resets'[j] = resets[j]
          BY <1>3, <2>0, <3>2 DEF ResetForRetry, TypeOK
        <4>2. QED
          BY <4>1, AllowedTyped DEF Allowed
      <3>3. QED
        BY <3>1, <3>2
    <2>3. QED
      BY <1>3, <2>1, <2>2, NothingSent DEF ResetForRetry
  <1>i. Idle.pc \notin {"deliver", "send"}
    BY DEF Idle, Started
  <1>4. ASSUME NEW w \in Workers, NEW e, run' = [run EXCEPT ![w] = e],
               \/ e.pc \notin {"deliver", "send"}
               \/ e.key = run[w].key /\ e.pc = "send"
                  /\ (run[w].pc = "deliver" \/ (run[w].pc = "send" /\ e.todo \subseteq run[w].todo)),
               UNCHANGED <<jobs, resets, sent>>
        PROVE  CopiesInv'
    <2>1. \A k \in Keys, u \in Users : Senders(k, u)' \subseteq Senders(k, u)
      BY <1>4, FewerSenders
    <2>2. \A k \in Keys : Allowed(k)' = Allowed(k)
      BY <1>4 DEF Allowed
    <2>3. QED
      BY <1>4, <2>1, <2>2, AllowedTyped, NothingSent
  <1>5. ASSUME NEW w \in Workers, NEW k \in Keys, Begin(w, k) PROVE CopiesInv'
    <2>1. \E p \in {"claim", "finalize"} : run' = [run EXCEPT ![w] = Started(k, p)]
      BY <1>5 DEF Begin
    <2>2. \A p \in {"claim", "finalize"} : Started(k, p).pc \notin {"deliver", "send"}
      BY DEF Started
    <2>3. QED
      BY <1>4, <1>5, <2>1, <2>2 DEF Begin
  <1>6. ASSUME NEW w \in Workers, Claim(w) PROVE CopiesInv'
    <2>1. PICK k \in Keys : k = run[w].key
      BY <1>6 DEF Claim, TypeOK
    <2>2. CASE ~Claimable(jobs[k])
      BY <1>4, <1>6, <1>i, <2>1, <2>2 DEF Claim
    <2>3. CASE Claimable(jobs[k])
      <3>1. jobs' = [jobs EXCEPT ![k] = Claimed(jobs[k], w)]
            /\ run' = [run EXCEPT ![w] = [run[w] EXCEPT !.pc = "deliver", !.tries = jobs[k].attempts + 1]]
            /\ UNCHANGED <<resets, sent>>
        BY <1>6, <2>1, <2>3 DEF Claim
      <3>2. jobs'[k] = Claimed(jobs[k], w) /\ \A j \in Keys : j # k => jobs'[j] = jobs[j]
        BY <3>1 DEF TypeOK
      <3>3. Allowed(k)' = Allowed(k) + 1 /\ \A j \in Keys : j # k => Allowed(j)' = Allowed(j)
        <4>1. jobs'[k].attempts = jobs[k].attempts + 1
          BY <3>2 DEF Claimed
        <4>2. jobs[k].attempts \in Nat /\ resets[k] \in Nat /\ MaxAttempts \in Nat
          BY LeasedJobAssumption DEF TypeOK, Row
        <4>3. Allowed(k)' = Allowed(k) + 1
          BY <3>1, <4>1, <4>2 DEF Allowed
        <4>4. QED
          BY <3>1, <3>2, <4>3 DEF Allowed
      <3>4. run[w].pc = "claim" /\ run[w] \in Run
        BY <1>6 DEF Claim, TypeOK
      <3>5. ASSUME NEW j \in Keys, j # k, NEW u \in Users PROVE Senders(j, u)' \subseteq Senders(j, u)
        BY <2>1, <3>1, <3>4, <3>5 DEF Senders, TypeOK, Run
      <3>6. ASSUME NEW u \in Users PROVE Senders(k, u)' \subseteq Senders(k, u) \cup {w}
        BY <3>1 DEF Senders, TypeOK
      <3>7. ASSUME NEW j \in Keys, NEW u \in Users PROVE Bounded(j, u)'
        <4>0. Bounded(j, u)
          BY DEF CopiesInv
        <4>1. CASE j # k
          <5>1. Allowed(j)' >= Allowed(j)
            BY <3>3, <4>1, AllowedTyped
          <5>2. QED
            BY <3>1, <3>5, <4>0, <4>1, <5>1, Quiet
        <4>2. CASE j = k
          <5> DEFINE S == Senders(k, u)
                     T == Senders(k, u)'
          <5>1. IsFiniteSet(S) /\ sent[k][u] + Cardinality(S) <= Allowed(k) /\ T \subseteq S \cup {w}
            BY <3>6, <4>0, <4>2 DEF Bounded
          <5>2. sent[k][u] \in Nat /\ Allowed(k) \in Nat /\ sent'[k][u] = sent[k][u]
            BY <3>1, AllowedTyped DEF TypeOK
          <5> HIDE DEF S, T
          <5>3. /\ IsFiniteSet(S \cup {w}) /\ Cardinality(S \cup {w}) <= Cardinality(S) + 1
                /\ Cardinality(S) \in Nat /\ Cardinality(S \cup {w}) \in Nat
            <6>1. IsFiniteSet(S \cup {w}) /\ Cardinality(S \cup {w}) =
                    IF w \in S THEN Cardinality(S) ELSE Cardinality(S) + 1
              BY <5>1, FS_AddElement
            <6>2. Cardinality(S) \in Nat /\ Cardinality(S \cup {w}) \in Nat
              BY <5>1, <6>1, FS_CardinalityType
            <6>3. QED
              BY <6>1, <6>2
          <5>4. IsFiniteSet(T) /\ Cardinality(T) \in Nat /\ Cardinality(T) <= Cardinality(S \cup {w})
            BY <5>1, <5>3, FS_Subset, FS_CardinalityType
          <5>5. sent'[k][u] + Cardinality(T) <= Allowed(k)'
            BY <3>3, <5>1, <5>2, <5>3, <5>4
          <5>6. QED
            BY <4>2, <5>4, <5>5 DEF Bounded, T
        <4>3. QED
          BY <4>1, <4>2
      <3>8. ASSUME NEW j \in Keys, jobs'[j].status = "ABSENT" PROVE jobs'[j].attempts = 0
        BY <3>2, <3>8 DEF Claimed, CopiesInv
      <3>9. QED
        BY <3>7, <3>8 DEF CopiesInv
    <2>4. QED
      BY <2>2, <2>3
  <1>7. ASSUME NEW w \in Workers, NEW e, run' = [run EXCEPT ![w] = e], e.pc \notin {"deliver", "send"},
               NEW k \in Keys, NEW row, jobs' = [jobs EXCEPT ![k] = row],
               row.attempts = jobs[k].attempts, row.status # "ABSENT", UNCHANGED <<resets, sent>>
        PROVE  CopiesInv'
    <2>1. \A j \in Keys, u \in Users : Senders(j, u)' \subseteq Senders(j, u)
      BY <1>7, FewerSenders
    <2>2. QED
      BY <1>7, <2>1, SameAttempts
  <1>8. ASSUME NEW w \in Workers, FinalizeExhausted(w) \/ RecordOutcome(w) \/ RecordFailure(w)
        PROVE  CopiesInv'
    <2>1. PICK k \in Keys : k = run[w].key
      BY <1>8 DEF FinalizeExhausted, RecordOutcome, RecordFailure, TypeOK
    <2>2. run' = [run EXCEPT ![w] = Idle] /\ UNCHANGED <<resets, sent>>
      BY <1>8 DEF FinalizeExhausted, RecordOutcome, RecordFailure
    <2>3. \/ jobs' = jobs
          \/ \E o \in Terminal : jobs' = [jobs EXCEPT ![k] = Closed(jobs[k], o)]
          \/ jobs' = [jobs EXCEPT ![k] = RetryLater(jobs[k])]
      BY <1>8, <2>1 DEF FinalizeExhausted, RecordOutcome, RecordFailure, Terminal
    <2>4. /\ \A o \in Terminal : /\ Closed(jobs[k], o).attempts = jobs[k].attempts
                                 /\ Closed(jobs[k], o).status # "ABSENT"
          /\ RetryLater(jobs[k]).attempts = jobs[k].attempts /\ RetryLater(jobs[k]).status # "ABSENT"
      BY DEF Closed, RetryLater, FreeRow, Terminal
    <2>5. QED
      BY <1>4, <1>7, <1>i, <2>2, <2>3, <2>4
  <1>9. ASSUME NEW w \in Workers, CheckSubject(w) PROVE CopiesInv'
    <2> DEFINE e == run'[w]
    <2>1. run' = [run EXCEPT ![w] = e] /\ run[w] \in Run /\ run[w].pc = "deliver"
      BY <1>9 DEF CheckSubject, TypeOK
    <2>2. e.pc = "record" \/ (e.pc = "send" /\ e.key = run[w].key)
      BY <1>9, <2>1 DEF CheckSubject, TypeOK, Run
    <2> HIDE DEF e
    <2>3. QED
      BY <1>4, <1>9, <2>1, <2>2 DEF CheckSubject
  <1>10. ASSUME NEW w \in Workers, SendDone(w) \/ DeliverRaises(w) \/ Crash(w) PROVE CopiesInv'
    <2> DEFINE e == run'[w]
    <2>1. run' = [run EXCEPT ![w] = e] /\ e.pc \notin {"deliver", "send"}
      BY <1>10, <1>i DEF SendDone, DeliverRaises, Crash, TypeOK, Run
    <2> HIDE DEF e
    <2>2. QED
      BY <1>4, <1>10, <2>1 DEF SendDone, DeliverRaises, Crash
  <1>11. ASSUME NEW w \in Workers, NEW v \in Users, SendTo(w, v) PROVE CopiesInv'
    <2>1. PICK k \in Keys : k = run[w].key
      BY <1>11 DEF SendTo, TypeOK
    <2> DEFINE e == [run[w] EXCEPT !.todo = run[w].todo \ {v}]
    <2>2. run[w] \in Run /\ run[w].pc = "send" /\ v \in run[w].todo /\ run' = [run EXCEPT ![w] = e]
      BY <1>11 DEF SendTo, TypeOK
    <2>3. e.key = run[w].key /\ e.pc = "send" /\ e.todo = run[w].todo \ {v}
      BY <2>2 DEF Run
    <2> HIDE DEF e
    <2>4. \A j \in Keys, u \in Users : Senders(j, u)' \subseteq Senders(j, u)
      BY <2>2, <2>3, FewerSenders
    <2>5. Senders(k, v)' = Senders(k, v) \ {w} /\ w \in Senders(k, v)
      BY <2>1, <2>2, <2>3 DEF Senders, TypeOK
    <2>6. jobs' = jobs /\ resets' = resets /\ \A j \in Keys : Allowed(j)' = Allowed(j)
      BY <1>11 DEF SendTo, Allowed
    <2>7. CASE sent' = sent
      BY <2>4, <2>6, <2>7, AllowedTyped, NothingSent
    <2>8. CASE sent' = [sent EXCEPT ![k][v] = sent[k][v] + 1]
      <3>1. ASSUME NEW j \in Keys, NEW u \in Users, j # k \/ u # v PROVE sent'[j][u] = sent[j][u]
        BY <2>8, <3>1 DEF TypeOK
      <3>2. sent'[k][v] = sent[k][v] + 1
        BY <2>8 DEF TypeOK
      <3>3. ASSUME NEW j \in Keys, NEW u \in Users PROVE Bounded(j, u)'
        <4>0. Bounded(j, u)
          BY DEF CopiesInv
        <4>1. CASE j # k \/ u # v
          <5>1. Allowed(j)' >= Allowed(j)
            BY <2>6, AllowedTyped
          <5>2. QED
            BY <2>4, <3>1, <4>0, <4>1, <5>1, Quiet
        <4>2. CASE j = k /\ u = v
          <5> DEFINE S == Senders(k, v)
                     T == Senders(k, v)'
          <5>1. IsFiniteSet(S) /\ sent[k][v] + Cardinality(S) <= Allowed(k) /\ T = S \ {w} /\ w \in S
            BY <2>5, <4>0, <4>2 DEF Bounded
          <5>2. sent[k][v] \in Nat /\ Allowed(k) \in Nat
            BY AllowedTyped DEF TypeOK
          <5> HIDE DEF S, T
          <5>3. IsFiniteSet(T) /\ Cardinality(T) = Cardinality(S) - 1 /\ Cardinality(S) \in Nat
            BY <5>1, FS_RemoveElement, FS_CardinalityType
          <5>4. sent'[k][v] + Cardinality(T) <= Allowed(k)'
            BY <2>6, <3>2, <5>1, <5>2, <5>3
          <5>5. QED
            BY <4>2, <5>3, <5>4 DEF Bounded, T
        <4>3. QED
          BY <4>1, <4>2
      <3>4. QED
        BY <2>6, <3>3 DEF CopiesInv
    <2>9. QED
      BY <1>11, <2>1, <2>7, <2>8 DEF SendTo
  <1>12. ASSUME NEW k \in Keys, LeaseExpires(k) \/ RetryDue(k) PROVE CopiesInv'
    <2> DEFINE row == jobs'[k]
    <2>1. jobs' = [jobs EXCEPT ![k] = row] /\ row.attempts = jobs[k].attempts /\ row.status = jobs[k].status
      <3>1. jobs[k] \in Row
        BY DEF TypeOK
      <3>2. jobs'[k] = [jobs[k] EXCEPT !.live = FALSE] \/ jobs'[k] = [jobs[k] EXCEPT !.due = TRUE]
        BY <1>12 DEF LeaseExpires, RetryDue, TypeOK
      <3>3. jobs' = [jobs EXCEPT ![k] = row]
        BY <1>12 DEF LeaseExpires, RetryDue, TypeOK
      <3>4. QED
        BY <3>1, <3>2, <3>3 DEF Row
    <2> HIDE DEF row
    <2>2. \A j \in Keys, u \in Users : Senders(j, u)' \subseteq Senders(j, u)
      BY <1>12 DEF LeaseExpires, RetryDue, Senders
    <2>3. QED
      BY <1>12, <2>1, <2>2, SameAttempts DEF LeaseExpires, RetryDue
  <1>13. ASSUME NEW s \in Documents, SubjectChanges(s) PROVE CopiesInv'
    BY <1>1, <1>13 DEF SubjectChanges
  <1>14. CASE UNCHANGED vars
    BY <1>1, <1>14 DEF vars
  <1>15. QED
    BY <1>2, <1>3, <1>5, <1>6, <1>8, <1>9, <1>10, <1>11, <1>12, <1>13, <1>14, Inserting, KeyFacts
       DEF Next, Kick, Recover, EnqueuePending, EnqueueReminder, EnqueueOutcome,
           EnqueueBusinessEvent

\* A recipient gets at most one copy for each attempt since each reset, however
\* many runs overlap, lose their leases or die before they record (SendTo).
THEOREM CopiesAreBounded == Spec => []CopiesBounded
  <1>1. TypeOK /\ CopiesInv => CopiesBounded
    <2> SUFFICES ASSUME TypeOK, CopiesInv, NEW k \in Keys, NEW u \in Users
                 PROVE  sent[k][u] <= MaxAttempts * (1 + resets[k])
      BY DEF CopiesBounded
    <2>1. IsFiniteSet(Senders(k, u)) /\ sent[k][u] + Cardinality(Senders(k, u)) <= Allowed(k)
      BY DEF CopiesInv, Bounded
    <2>2. Cardinality(Senders(k, u)) \in Nat
      BY <2>1, FS_CardinalityType
    <2>3. /\ sent[k][u] \in Nat /\ resets[k] \in Nat /\ MaxAttempts \in Nat
          /\ jobs[k].attempts \in 0 .. MaxAttempts
      BY LeasedJobAssumption DEF TypeOK, Row
    <2>4. MaxAttempts * (1 + resets[k]) = MaxAttempts + MaxAttempts * resets[k]
      BY <2>3
    <2>5. QED
      BY <2>1, <2>2, <2>3, <2>4, AllowedTyped DEF Allowed
  <1>2. QED
    BY <1>1, CopiesInit, CopiesNext, TypeCorrect, PTL DEF Spec

-----------------------------------------------------------------------------
(***************************************************************************)
(* Refinement: under the mapping of OutboundNotification every initial     *)
(* state is one of DurableJob and every step is one of its steps or a      *)
(* stutter.                                                                *)
(***************************************************************************)

\* What the mapping makes of the row of a key.
LEMMA AbstractRow ==
    ASSUME NEW k \in Keys
    PROVE  /\ AbstractJob[k].phase = "none" <=> jobs[k].status = "ABSENT"
           /\ AbstractJob[k].phase = "open" <=> jobs[k].status \in {"QUEUED", "FAILED"}
           /\ AbstractJob[k].phase = "held" <=> jobs[k].status = "RUNNING"
           /\ AbstractJob[k].holder = jobs[k].owner
           /\ AbstractJob[k].tries = jobs[k].attempts
  BY DEF AbstractJob, AbstractPhase

\* The abstract job a row is mapped to.
Image(row) == [phase |-> AbstractPhase(row), holder |-> row.owner, tries |-> row.attempts]

\* A step that rewrites one row rewrites one abstract job.
LEMMA MappedJob ==
    ASSUME TypeOK, NEW k \in Keys, NEW r, jobs' = [jobs EXCEPT ![k] = r]
    PROVE  AbstractJob' = [AbstractJob EXCEPT ![k] = Image(r)]
  BY DEF AbstractJob, TypeOK, Image

\* A step that rewrites one run rewrites at most one ticket.
LEMMA MappedTicket ==
    ASSUME TypeOK, NEW w \in Workers, NEW e, run' = [run EXCEPT ![w] = e]
    PROVE  AbstractTicket' = [AbstractTicket EXCEPT ![w] =
                                IF e.pc \in Delivering THEN e.key ELSE NoKey]
  BY DEF AbstractTicket, TypeOK

\* Images of the rows the actions write.
LEMMA Images ==
    /\ Image(AbsentRow) = Durable!Fresh("none")
    /\ Image(QueuedRow) = Durable!Fresh("open")
    /\ \A row, w : Image(Claimed(row, w)) =
                     [phase |-> "held", holder |-> w, tries |-> row.attempts + 1]
    /\ \A row : \A o \in Terminal : Image(Closed(row, o)) =
                     [phase |-> "closed", holder |-> NoWorker, tries |-> row.attempts]
    /\ \A row : Image(RetryLater(row)) =
                     [phase |-> "open", holder |-> NoWorker, tries |-> row.attempts]
  BY DEF Image, AbstractPhase, AbsentRow, QueuedRow, FreeRow, Claimed, Closed, RetryLater,
         Terminal, Durable!Fresh

\* Initial states map to initial states.
LEMMA RefinesInit == Init => Durable!Init
  <1> SUFFICES ASSUME Init PROVE Durable!Init
    OBVIOUS
  <1>1. AbstractJob = [k \in Keys |-> Durable!Fresh("none")]
    BY Images DEF Init, AbstractJob, Image
  <1>2. AbstractTicket = [w \in Workers |-> NoKey]
    BY DEF Init, AbstractTicket, Idle, Started, Delivering
  <1>3. QED
    BY <1>1, <1>2 DEF Durable!Init

\* Every step maps to a step of the abstract job table or to a stutter.
LEMMA RefinesNext == IInv /\ [Next]_vars => [Durable!Next]_Durable!vars
  <1> SUFFICES ASSUME IInv, [Next]_vars PROVE [Durable!Next]_Durable!vars
    OBVIOUS
  <1>t. TypeOK
    BY DEF IInv
  <1>f. /\ \A w \in Workers : AbstractTicket[w] = IF run[w].pc \in Delivering THEN run[w].key ELSE NoKey
        /\ NoKey \notin Keys
    BY KeyAssumption DEF AbstractTicket
  <1>1. ASSUME NEW k \in Keys, Insert(k), run' = run PROVE Durable!Next
    <2>1. AbstractJob[k].phase = "none"
      BY <1>1, AbstractRow DEF Insert
    <2>2. AbstractJob' = [AbstractJob EXCEPT ![k] = Durable!Fresh("open")]
      <3>1. AbstractJob' = [AbstractJob EXCEPT ![k] = Image(QueuedRow)]
        BY <1>1, <1>t, MappedJob DEF Insert
      <3>2. QED
        BY <3>1, Images
    <2>3. AbstractTicket' = AbstractTicket
      BY <1>1 DEF AbstractTicket
    <2>4. QED
      BY <2>1, <2>2, <2>3 DEF Durable!Next, Durable!Accept
  <1>2. ASSUME jobs' = jobs, run' = run PROVE UNCHANGED Durable!vars
    BY <1>2 DEF AbstractJob, AbstractTicket, Durable!vars
  <1>3. ASSUME NEW n \in Nodes, RequeuePending(n) PROVE [Durable!Next]_Durable!vars
    BY <1>3, <1>1, <1>2, KeyFacts DEF RequeuePending
  <1>4. ASSUME NEW n \in Nodes, ResetForRetry(n) PROVE Durable!Next
    <2> DEFINE k == <<n, First>>
    <2>1. k \in Keys /\ AbstractJob[k].phase # "none"
      BY <1>4, AbstractRow, KeyFacts DEF ResetForRetry, IInv, ResettingExists
    <2>2. AbstractJob' = [AbstractJob EXCEPT ![k] = Durable!Fresh("open")]
      <3>1. AbstractJob' = [AbstractJob EXCEPT ![k] = Image(QueuedRow)]
        BY <1>4, <2>1, <1>t, MappedJob DEF ResetForRetry
      <3>2. QED
        BY <3>1, Images
    <2>3. AbstractTicket' = AbstractTicket
      BY <1>4 DEF AbstractTicket, ResetForRetry
    <2>4. QED
      BY <2>1, <2>2, <2>3 DEF Durable!Next, Durable!Reopen
  <1>5. ASSUME NEW w \in Workers, NEW e, jobs' = jobs, run' = [run EXCEPT ![w] = e],
               e.pc \notin Delivering
        PROVE  [Durable!Next]_Durable!vars
    <2>1. AbstractJob' = AbstractJob
      BY <1>5 DEF AbstractJob
    <2>2. AbstractTicket' = [AbstractTicket EXCEPT ![w] = NoKey]
      BY <1>5, <1>t DEF AbstractTicket, TypeOK
    <2>3. CASE AbstractTicket[w] = NoKey
      BY <2>1, <2>2, <2>3 DEF AbstractTicket, Durable!vars
    <2>4. CASE AbstractTicket[w] # NoKey
      BY <2>1, <2>2, <2>4 DEF Durable!Next, Durable!Abandon
    <2>5. QED
      BY <2>3, <2>4
  <1>6. ASSUME NEW w \in Workers, NEW k \in Keys, Begin(w, k) PROVE [Durable!Next]_Durable!vars
    <2>1. \E p \in {"claim", "finalize"} : run' = [run EXCEPT ![w] = Started(k, p)]
      BY <1>6 DEF Begin
    <2>2. \A p \in {"claim", "finalize"} : Started(k, p).pc \notin Delivering
      BY DEF Started, Delivering
    <2>3. QED
      BY <1>6, <2>1, <2>2, <1>5 DEF Begin
  <1>i. Idle.pc \notin Delivering
    BY DEF Idle, Started, Delivering
  <1>7. ASSUME NEW w \in Workers, Claim(w) PROVE [Durable!Next]_Durable!vars
    <2> DEFINE k == run[w].key
    <2>1. k \in Keys /\ run[w].pc = "claim" /\ run[w] \in Run
      BY <1>7, <1>t DEF Claim, TypeOK
    <2>2. CASE ~Claimable(jobs[k])
      BY <1>7, <2>2, <1>5, <1>i DEF Claim
    <2>3. CASE Claimable(jobs[k])
      <3> DEFINE e == [run[w] EXCEPT !.pc = "deliver", !.tries = jobs[k].attempts + 1]
      <3>1. run' = [run EXCEPT ![w] = e] /\ jobs' = [jobs EXCEPT ![k] = Claimed(jobs[k], w)]
        BY <1>7, <1>t, <2>1, <2>3 DEF Claim, TypeOK
      <3>2. e.pc \in Delivering /\ e.key = k
        BY <2>1 DEF Run, Delivering
      <3> HIDE DEF e
      <3>3. AbstractTicket' = [AbstractTicket EXCEPT ![w] = k]
        BY <3>1, <3>2, <1>t, MappedTicket
      <3>4. AbstractJob' = [AbstractJob EXCEPT ![k] =
                              [phase |-> "held", holder |-> w, tries |-> jobs[k].attempts + 1]]
        <4>1. AbstractJob' = [AbstractJob EXCEPT ![k] = Image(Claimed(jobs[k], w))]
          BY <3>1, <2>1, <1>t, MappedJob
        <4>2. QED
          BY <4>1, Images
      <3>5. /\ AbstractTicket[w] = NoKey
            /\ AbstractJob[k].phase \in {"open", "held"}
            /\ AbstractJob[k].tries = jobs[k].attempts
            /\ jobs[k].attempts < MaxAttempts
        BY <2>1, <2>3, <1>f, AbstractRow DEF Claimable, Lapsed, Delivering
      <3>6. Durable!Take(w, k)
        BY <3>3, <3>4, <3>5 DEF Durable!Take
      <3>7. QED
        BY <3>6, <2>1 DEF Durable!Next
    <2>4. QED
      BY <2>2, <2>3
  <1>8. ASSUME NEW w \in Workers, FinalizeExhausted(w) PROVE [Durable!Next]_Durable!vars
    <2> DEFINE k == run[w].key
    <2>1. k \in Keys /\ jobs[k] \in Row /\ run[w].pc = "finalize" /\ run' = [run EXCEPT ![w] = Idle]
      BY <1>8, <1>t DEF FinalizeExhausted, TypeOK
    <2>2. CASE jobs' = jobs
      BY <2>1, <2>2, <1>5, <1>i
    <2>3. CASE SpentAndFree(jobs[k]) /\ jobs' = [jobs EXCEPT ![k] = Closed(jobs[k], "EXHAUSTED")]
      <3>1. AbstractTicket' = AbstractTicket
        BY <2>1, <1>i, <1>t DEF AbstractTicket, TypeOK, Delivering
      <3>2. AbstractJob' = [AbstractJob EXCEPT ![k] =
                              [phase |-> "closed", holder |-> NoWorker, tries |-> jobs[k].attempts]]
        <4>1. AbstractJob' = [AbstractJob EXCEPT ![k] = Image(Closed(jobs[k], "EXHAUSTED"))]
          BY <2>1, <2>3, <1>t, MappedJob
        <4>2. QED
          BY <4>1, Images DEF Terminal
      <3>3. jobs[k].attempts = MaxAttempts
        BY <2>1, <2>3, LeasedJobAssumption DEF SpentAndFree, Row
      <3>4. AbstractJob[k].phase \in {"open", "held"} /\ AbstractJob[k].tries = jobs[k].attempts
        BY <2>1, <2>3, AbstractRow DEF SpentAndFree
      <3>5. QED
        BY <3>1, <3>2, <3>3, <3>4, <2>1 DEF Durable!Next, Durable!GiveUp
    <2>4. QED
      BY <1>8, <2>2, <2>3 DEF FinalizeExhausted
  <1>9. ASSUME NEW w \in Workers, run[w].pc \in Delivering, jobs' = jobs,
               NEW e, run' = [run EXCEPT ![w] = e], e.pc \in Delivering, e.key = run[w].key
        PROVE  [Durable!Next]_Durable!vars
    BY <1>9, <1>t DEF AbstractJob, AbstractTicket, TypeOK, Durable!vars
  <1>10. ASSUME NEW w \in Workers, CheckSubject(w) \/ SendDone(w) \/ DeliverRaises(w)
                                   \/ \E u \in Users : SendTo(w, u)
         PROVE  [Durable!Next]_Durable!vars
    <2>1. run[w] \in Run /\ run[w].pc \in {"deliver", "send"} /\ jobs' = jobs
      BY <1>10, <1>t DEF CheckSubject, SendDone, DeliverRaises, SendTo, TypeOK
    <2> DEFINE e == run'[w]
    <2>2. run' = [run EXCEPT ![w] = e]
      BY <1>10, <1>t DEF CheckSubject, SendDone, DeliverRaises, SendTo, TypeOK
    <2>3. e.pc \in Delivering /\ e.key = run[w].key
      <3>1. CASE CheckSubject(w)
        BY <3>1, <1>t, <2>1 DEF CheckSubject, TypeOK, Run, Delivering
      <3>2. CASE SendDone(w) \/ DeliverRaises(w)
        BY <3>2, <1>t, <2>1 DEF SendDone, DeliverRaises, TypeOK, Run, Delivering
      <3>3. CASE \E u \in Users : SendTo(w, u)
        BY <3>3, <1>t, <2>1 DEF SendTo, TypeOK, Run, Delivering
      <3>4. QED
        BY <1>10, <3>1, <3>2, <3>3
    <2> HIDE DEF e
    <2>4. QED
      BY <2>1, <2>2, <2>3, <1>9 DEF Delivering
  <1>11. ASSUME NEW w \in Workers, RecordOutcome(w) \/ RecordFailure(w)
         PROVE  [Durable!Next]_Durable!vars
    <2> DEFINE k == run[w].key
    <2>1. /\ k \in Keys /\ jobs[k] \in Row
          /\ run[w].pc \in {"record", "fail"} /\ run' = [run EXCEPT ![w] = Idle]
      BY <1>11, <1>t DEF RecordOutcome, RecordFailure, TypeOK
    <2>2. CASE jobs' = jobs
      BY <2>1, <2>2, <1>5, <1>i
    <2>3. ASSUME OwnsLease(jobs[k], w), NEW p \in {"open", "closed"},
                 p = "open" => jobs[k].attempts < MaxAttempts,
                 NEW r, jobs' = [jobs EXCEPT ![k] = r],
                 Image(r) = [phase |-> p, holder |-> NoWorker, tries |-> jobs[k].attempts]
          PROVE  Durable!Next
      <3>1. AbstractTicket' = [AbstractTicket EXCEPT ![w] = NoKey]
        BY <2>1, <1>i, <1>t DEF AbstractTicket, TypeOK
      <3>2. AbstractJob' = [AbstractJob EXCEPT ![k] =
                              [phase |-> p, holder |-> NoWorker, tries |-> jobs[k].attempts]]
        BY <2>1, <2>3, <1>t, MappedJob
      <3>3. /\ AbstractTicket[w] = k
            /\ AbstractJob[k].phase = "held" /\ AbstractJob[k].holder = w
            /\ AbstractJob[k].tries = jobs[k].attempts
        BY <2>1, <2>3, <1>f, AbstractRow DEF OwnsLease, Delivering
      <3>4. Durable!Return(w, p)
        BY <3>1, <3>2, <3>3, <2>1, <2>3, <1>f DEF Durable!Return
      <3>5. QED
        BY <3>4 DEF Durable!Next
    <2>4. jobs[k].attempts = run[w].tries \/ ~OwnsLease(jobs[k], w)
      BY <2>1 DEF IInv, AttemptSnapshotCurrent, OwnsLease, Delivering
    <2>5. CASE RecordOutcome(w) /\ OwnsLease(jobs[k], w)
      <3>1. PICK o \in Terminal : jobs' = [jobs EXCEPT ![k] = Closed(jobs[k], o)]
        BY <2>5, <1>t DEF RecordOutcome, Terminal, TypeOK
      <3>2. QED
        BY <2>3, <2>5, <3>1, Images
    <2>6. CASE RecordFailure(w) /\ OwnsLease(jobs[k], w)
      <3>1. CASE run[w].tries >= MaxAttempts
        <4>1. jobs' = [jobs EXCEPT ![k] = Closed(jobs[k], "EXHAUSTED")]
          BY <2>6, <3>1, <1>t DEF RecordFailure, LastAttempt, TypeOK
        <4>2. QED
          BY <2>3, <2>6, <4>1, Images DEF Terminal
      <3>2. CASE ~(run[w].tries >= MaxAttempts)
        <4>1. jobs' = [jobs EXCEPT ![k] = RetryLater(jobs[k])]
          BY <2>6, <3>2, <1>t DEF RecordFailure, LastAttempt, TypeOK
        <4>2. jobs[k].attempts < MaxAttempts
          BY <2>1, <2>4, <2>6, <3>2, LeasedJobAssumption DEF Row
        <4>3. QED
          BY <2>3, <2>6, <4>1, <4>2, Images
      <3>3. QED
        BY <3>1, <3>2
    <2>7. QED
      BY <1>11, <2>2, <2>5, <2>6 DEF RecordOutcome, RecordFailure
  <1>12. ASSUME NEW w \in Workers, Crash(w) PROVE [Durable!Next]_Durable!vars
    BY <1>12, <1>5, <1>i DEF Crash
  <1>13. ASSUME NEW k \in Keys, LeaseExpires(k) \/ RetryDue(k) PROVE UNCHANGED Durable!vars
    <2>1. jobs[k] \in Row
      BY <1>t DEF TypeOK
    <2> DEFINE r == jobs'[k]
    <2>2. jobs' = [jobs EXCEPT ![k] = r] /\ run' = run
      BY <1>13, <1>t DEF LeaseExpires, RetryDue, TypeOK
    <2>3. r.status = jobs[k].status /\ r.owner = jobs[k].owner /\ r.attempts = jobs[k].attempts
      BY <1>13, <1>t, <2>1 DEF LeaseExpires, RetryDue, TypeOK, Row
    <2> HIDE DEF r
    <2>4. Image(r) = Image(jobs[k])
      BY <2>3 DEF Image, AbstractPhase
    <2>5. AbstractJob' = AbstractJob
      BY <2>2, <2>4, <1>t DEF AbstractJob, TypeOK, Image
    <2>6. QED
      BY <2>2, <2>5 DEF AbstractTicket, Durable!vars
  <1>14. QED
    <2>1. CASE UNCHANGED vars
      BY <2>1, <1>2 DEF vars
    <2>2. CASE Next
      BY <2>2, <1>1, <1>2, <1>3, <1>4, <1>6, <1>7, <1>8, <1>10, <1>11, <1>12, <1>13, KeyFacts
         DEF Next, Kick, Recover, EnqueuePending, EnqueueReminder, EnqueueOutcome,
           EnqueueBusinessEvent, SubjectChanges
    <2>3. QED
      BY <2>1, <2>2

\* The notification outbox implements the abstract durable job table.
THEOREM Refinement == Spec => ImplementsDurableJob
  BY Invariance, RefinesInit, RefinesNext, PTL DEF Spec, ImplementsDurableJob, Durable!Spec
=============================================================================
