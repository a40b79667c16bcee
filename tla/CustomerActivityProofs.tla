------------------------ MODULE CustomerActivityProofs ------------------------
(***************************************************************************)
(* Theorems about CustomerActivity and, further below, about the workflow  *)
(* that follows it, ActivityPostCommit, for any number of activities,      *)
(* workers, attempts and crashes.                                          *)
(*                                                                         *)
(* A step touches one activity, its AI job and its post-commit jobs, in    *)
(* one of five ways (Effect): it saves the activity, deletes it, works on  *)
(* an AI job that is not settled, finalizes, or only marks the status of   *)
(* the activity.  Invariants and refinement are shown for the five ways.   *)
(***************************************************************************)
EXTENDS CustomerActivity, TLAPS

Active == {"QUEUED", "RUNNING", "FAILED"}
ActivityRecords == [state : State, source : Source, revision : Revisions]

Same(a) == activity'[a] = activity[a] /\ ai'[a] = ai[a] /\ post'[a] = post[a]

Saved(a) ==
    /\ activity[a].state = "none"
    /\ \/ /\ activity'[a].state = "PENDING" /\ activity'[a].source = "FORM"
          /\ ai'[a] = QueuedRow /\ post'[a] = post[a]
       \/ /\ activity'[a].state = "COMPLETED" /\ activity'[a].source = "AGENT"
          /\ activity'[a].revision = JobRevision /\ ai'[a] = ai[a]
          /\ post'[a] = IF post[a][JobRevision].status = "ABSENT"
                        THEN [post[a] EXCEPT ![JobRevision] = QueuedRow] ELSE post[a]
       \/ /\ activity'[a].state = "COMPLETED" /\ activity'[a].source = "ASSISTANT_2"
          /\ ai'[a] = ai[a] /\ post'[a] = post[a]

Gone(a) ==
    /\ Live(a)
    /\ activity'[a].state = "deleted"
    /\ activity'[a].source = activity[a].source /\ activity'[a].revision = activity[a].revision
    /\ ai'[a] = SkippedIfUnfinished(ai[a])
    /\ \A r \in Revisions : post'[a][r] = SkippedIfUnfinished(post[a][r])

\* Only the status of the activity is written, and only if it is there.
Marked(a) ==
    \/ activity'[a] = activity[a]
    \/ /\ Live(a) /\ activity'[a].state \in {"PENDING", "PROCESSING", "FAILED"}
       /\ activity'[a].source = activity[a].source /\ activity'[a].revision = activity[a].revision

Touched(a) == Marked(a) /\ ai'[a] = ai[a] /\ post'[a] = post[a]

Worked(a) ==
    /\ ai[a].status \in Active
    /\ ai'[a].status \in Active \cup {"SKIPPED", "EXHAUSTED"}
    /\ ai'[a].live => ai'[a].status = "RUNNING"
    /\ Marked(a)
    /\ post'[a] = post[a]

Finalized(a) ==
    /\ Live(a) /\ ai[a].status \in Active
    /\ activity'[a].state = "COMPLETED" /\ activity'[a].source = activity[a].source
    /\ ai'[a].status = "COMPLETED" /\ ~ai'[a].live
    /\ post'[a] = IF post[a][activity'[a].revision].status = "ABSENT"
                  THEN [post[a] EXCEPT ![activity'[a].revision] = QueuedRow] ELSE post[a]

Effect(a) == Saved(a) \/ Gone(a) \/ Touched(a) \/ Worked(a) \/ Finalized(a)

RowsTyped ==
    /\ activity' \in [Activities -> ActivityRecords]
    /\ ai' \in [Activities -> Row]
    /\ post' \in [Activities -> [Revisions -> Row]]

\* The step is about activity a.
About(a) ==
    /\ RowsTyped
    /\ Effect(a)
    /\ \A b \in Activities : b # a => Same(b)

-----------------------------------------------------------------------------
LEMMA Constants ==
    /\ JobRevision \in Revisions
    /\ QueuedRow \in Row /\ AbsentRow \in Row
    /\ QueuedRow.status = "QUEUED" /\ ~QueuedRow.live
    /\ AbsentRow.status = "ABSENT" /\ ~AbsentRow.live
    /\ Idle \in Run /\ Idle.pc = "idle"
<1>1. 0 \in 0 .. MaxAttempts /\ 0 \in 0 .. MaxRevision /\ JobRevision \in Revisions
  BY LeasedJobAssumption, ActivityAssumption DEF JobRevision, Revisions
<1>2. QueuedRow \in Row /\ AbsentRow \in Row
  BY <1>1 DEF QueuedRow, AbsentRow, FreeRow, Row, Status
<1>3. Idle \in Run /\ Idle.pc = "idle"
  BY <1>1 DEF Idle, Run
<1> QED BY <1>1, <1>2, <1>3 DEF QueuedRow, AbsentRow, FreeRow

\* The conditional updates of a row.
LEMMA RowUpdates ==
    ASSUME NEW row \in Row, NEW w \in Workers
    PROVE  /\ Claimable(row) => /\ Claimed(row, w) \in Row
                                /\ Claimed(row, w).attempts \in 0 .. MaxAttempts
                                /\ Claimed(row, w).status = "RUNNING"
                                /\ \A o \in Terminal : Closed(Claimed(row, w), o) \in Row
           /\ RetryLater(row) \in Row /\ RetryLater(row).status = "FAILED" /\ ~RetryLater(row).live
           /\ [row EXCEPT !.live = FALSE] \in Row
           /\ [row EXCEPT !.live = FALSE].status = row.status /\ ~[row EXCEPT !.live = FALSE].live
           /\ [row EXCEPT !.due = TRUE] \in Row
           /\ [row EXCEPT !.due = TRUE].status = row.status
           /\ [row EXCEPT !.due = TRUE].live = row.live
<1>1. ASSUME NEW s \in Status, NEW n \in 0 .. MaxAttempts PROVE FreeRow(s, n) \in Row
  BY DEF Row, FreeRow
<1>2. row.attempts \in 0 .. MaxAttempts
  BY DEF Row
<1>3. ASSUME Claimable(row)
      PROVE  /\ Claimed(row, w) \in Row
             /\ Claimed(row, w).attempts \in 0 .. MaxAttempts
             /\ Claimed(row, w).status = "RUNNING"
             /\ \A o \in Terminal : Closed(Claimed(row, w), o) \in Row
  <2>1. row.attempts + 1 \in 0 .. MaxAttempts
    BY <1>2, <1>3, LeasedJobAssumption DEF Claimable
  <2>2. Claimed(row, w) \in Row /\ Claimed(row, w).status = "RUNNING"
    BY <2>1 DEF Row, Claimed, Status
  <2>3. Claimed(row, w).attempts \in 0 .. MaxAttempts
    BY <2>1 DEF Claimed
  <2>4. \A o \in Terminal : Closed(Claimed(row, w), o) \in Row
    BY <1>1, <2>3 DEF Closed, Status
  <2> QED BY <2>2, <2>3, <2>4
<1>4. RetryLater(row) \in Row
  BY <1>1, <1>2 DEF RetryLater, Status
<1>5. RetryLater(row).status = "FAILED" /\ ~RetryLater(row).live
  BY DEF RetryLater, FreeRow
<1>6. [row EXCEPT !.live = FALSE] \in Row /\ [row EXCEPT !.due = TRUE] \in Row
  BY DEF Row
<1>7. [row EXCEPT !.live = FALSE].status = row.status /\ ~[row EXCEPT !.live = FALSE].live
  BY DEF Row
<1>8. [row EXCEPT !.due = TRUE].status = row.status /\ [row EXCEPT !.due = TRUE].live = row.live
  BY DEF Row
<1> QED BY <1>3, <1>4, <1>5, <1>6, <1>7, <1>8

LEMMA Closing ==
    ASSUME NEW row \in Row, NEW outcome \in Terminal
    PROVE  /\ Closed(row, outcome) \in Row
           /\ Closed(row, outcome).status = outcome /\ ~Closed(row, outcome).live
<1>1. row.attempts \in 0 .. MaxAttempts
  BY DEF Row
<1>2. Closed(row, outcome) \in Row
  BY <1>1 DEF Closed, FreeRow, Row, Status
<1> QED BY <1>2 DEF Closed, FreeRow

LEMMA Skipping ==
    ASSUME NEW row \in Row
    PROVE  /\ SkippedIfUnfinished(row) \in Row
           /\ ~Unfinished(SkippedIfUnfinished(row))
           /\ ~Unfinished(row) => SkippedIfUnfinished(row) = row
           /\ Unfinished(row) => SkippedIfUnfinished(row).status = "SKIPPED" /\ ~SkippedIfUnfinished(row).live
BY Closing DEF SkippedIfUnfinished, Unfinished, Terminal

LEMMA NotFinished ==
    ASSUME NEW row \in Row
    PROVE  Unfinished(row) <=> row.status \in Active
BY DEF Unfinished, Terminal, Active, Row, Status

\* A step that sets the status of an activity.
LEMMA SetState ==
    ASSUME TypeOK, NEW a \in Activities, NEW s \in State, activity' = [activity EXCEPT ![a].state = s]
    PROVE  /\ activity' \in [Activities -> ActivityRecords]
           /\ activity'[a].state = s
           /\ activity'[a].source = activity[a].source /\ activity'[a].revision = activity[a].revision
           /\ \A b \in Activities : b # a => activity'[b] = activity[b]
<1> DEFINE new == [activity[a] EXCEPT !.state = s]
<1>1. activity[a] \in ActivityRecords /\ activity \in [Activities -> ActivityRecords]
  BY DEF TypeOK, ActivityRecords
<1>2. /\ new \in ActivityRecords /\ new.state = s
      /\ new.source = activity[a].source /\ new.revision = activity[a].revision
  BY <1>1, SMT DEF ActivityRecords
<1>3. activity' = [activity EXCEPT ![a] = new]
  OBVIOUS
<1> HIDE DEF new
<1> QED BY <1>1, <1>2, <1>3

LEMMA MarkingTyped ==
    ASSUME TypeOK, NEW w \in Workers, NEW a \in Activities,
           NEW s \in {"PENDING", "PROCESSING", "FAILED"}, MarkIfSeen(w, a, s)
    PROVE  /\ activity' \in [Activities -> ActivityRecords]
           /\ Marked(a)
           /\ \A b \in Activities : b # a => activity'[b] = activity[b]
<1>1. CASE activity' = activity
  BY <1>1 DEF TypeOK, ActivityRecords, Marked
<1>2. CASE Live(a) /\ activity' = [activity EXCEPT ![a].state = s]
  BY <1>2, SetState DEF State, Marked
<1> QED BY <1>1, <1>2 DEF MarkIfSeen

-----------------------------------------------------------------------------
(* What the steps are about. *)

\* The row of one AI job is written, its activity marked or left.
LEMMA JobWritten ==
    ASSUME TypeOK, NEW a \in Activities, NEW row \in Row,
           ai' = [ai EXCEPT ![a] = row], post' = post,
           activity' \in [Activities -> ActivityRecords], Marked(a),
           \A b \in Activities : b # a => activity'[b] = activity[b]
    PROVE  /\ RowsTyped
           /\ ai'[a] = row /\ post'[a] = post[a]
           /\ \A b \in Activities : b # a => Same(b)
BY DEF TypeOK, RowsTyped, Same

LEMMA NothingWritten ==
    ASSUME TypeOK, NEW a \in Activities, activity' = activity, ai' = ai, post' = post
    PROVE  About(a)
BY DEF TypeOK, RowsTyped, ActivityRecords, About, Effect, Touched, Marked, Same

LEMMA SavingIsAbout ==
    ASSUME TypeOK, NEW a \in Activities,
           CreatePendingFromForm(a) \/ CreateFinalFromAgent(a) \/ CreateFinalFromAssistant2(a)
    PROVE  About(a)
<1>1. ASSUME NEW source \in Source, NEW state \in State, Save(a, source, state)
      PROVE  /\ activity[a].state = "none"
             /\ activity' \in [Activities -> ActivityRecords]
             /\ activity'[a].state = state /\ activity'[a].source = source
             /\ activity'[a].revision = JobRevision
             /\ \A b \in Activities : b # a => activity'[b] = activity[b]
  <2> DEFINE new == [state |-> state, source |-> source, revision |-> JobRevision]
  <2>1. new \in ActivityRecords
    BY Constants DEF ActivityRecords
  <2>2. activity[a].state = "none" /\ activity' = [activity EXCEPT ![a] = new]
    BY <1>1 DEF Save
  <2>3. new.state = state /\ new.source = source /\ new.revision = JobRevision
    OBVIOUS
  <2> HIDE DEF new
  <2> QED BY <2>1, <2>2, <2>3 DEF TypeOK, ActivityRecords
<1>2. CASE CreatePendingFromForm(a)
  <2>1. Save(a, "FORM", "PENDING") /\ ai' = [ai EXCEPT ![a] = QueuedRow] /\ post' = post
    BY <1>2 DEF CreatePendingFromForm
  <2>2. activity[a].state = "none" /\ activity'[a].state = "PENDING" /\ activity'[a].source = "FORM"
        /\ activity' \in [Activities -> ActivityRecords]
        /\ \A b \in Activities : b # a => activity'[b] = activity[b]
    BY <1>1, <2>1 DEF Source, State
  <2>3. RowsTyped /\ ai'[a] = QueuedRow /\ post'[a] = post[a]
        /\ \A b \in Activities : b # a => Same(b)
    BY <2>1, <2>2, Constants DEF RowsTyped, TypeOK, Same
  <2> QED BY <2>2, <2>3 DEF About, Effect, Saved
<1>3. CASE CreateFinalFromAgent(a)
  <2>1. Save(a, "AGENT", "COMPLETED") /\ ai' = ai /\ EnqueuePost(a, JobRevision)
    BY <1>3 DEF CreateFinalFromAgent
  <2>2. activity[a].state = "none" /\ activity'[a].state = "COMPLETED" /\ activity'[a].source = "AGENT"
        /\ activity'[a].revision = JobRevision
        /\ activity' \in [Activities -> ActivityRecords]
        /\ \A b \in Activities : b # a => activity'[b] = activity[b]
    BY <1>1, <2>1 DEF Source, State
  <2>3. /\ post' \in [Activities -> [Revisions -> Row]]
        /\ post'[a] = IF post[a][JobRevision].status = "ABSENT"
                      THEN [post[a] EXCEPT ![JobRevision] = QueuedRow] ELSE post[a]
        /\ \A b \in Activities : b # a => post'[b] = post[b]
    BY <2>1, Constants DEF EnqueuePost, TypeOK
  <2> QED BY <2>1, <2>2, <2>3 DEF About, RowsTyped, Effect, Saved, Same, TypeOK
<1>4. CASE CreateFinalFromAssistant2(a)
  <2>1. Save(a, "ASSISTANT_2", "COMPLETED") /\ ai' = ai /\ post' = post
    BY <1>4 DEF CreateFinalFromAssistant2
  <2>2. activity[a].state = "none" /\ activity'[a].state = "COMPLETED" /\ activity'[a].source = "ASSISTANT_2"
        /\ activity' \in [Activities -> ActivityRecords]
        /\ \A b \in Activities : b # a => activity'[b] = activity[b]
    BY <1>1, <2>1 DEF Source, State
  <2> QED BY <2>1, <2>2 DEF About, RowsTyped, Effect, Saved, Same, TypeOK
<1> QED BY <1>2, <1>3, <1>4

LEMMA DeletionIsAbout ==
    ASSUME TypeOK, NEW a \in Activities, Delete(a)
    PROVE  About(a)
<1>1. /\ activity' \in [Activities -> ActivityRecords]
      /\ activity'[a].state = "deleted"
      /\ activity'[a].source = activity[a].source /\ activity'[a].revision = activity[a].revision
      /\ \A b \in Activities : b # a => activity'[b] = activity[b]
  BY SetState DEF Delete, State
<1>2. /\ ai' \in [Activities -> Row] /\ ai'[a] = SkippedIfUnfinished(ai[a])
      /\ \A b \in Activities : b # a => ai'[b] = ai[b]
  BY Skipping DEF Delete, TypeOK
<1> DEFINE new == [r \in Revisions |-> SkippedIfUnfinished(post[a][r])]
<1>3. new \in [Revisions -> Row] /\ post' = [post EXCEPT ![a] = new]
  BY Skipping DEF Delete, TypeOK
<1>4. /\ post' \in [Activities -> [Revisions -> Row]]
      /\ post'[a] = new
      /\ \A b \in Activities : b # a => post'[b] = post[b]
  <2> HIDE DEF new
  <2> QED BY <1>3 DEF TypeOK
<1>5. Live(a)
  BY DEF Delete
<1> QED BY <1>1, <1>2, <1>4, <1>5 DEF About, RowsTyped, Effect, Gone, Same

LEMMA ClaimIsAbout ==
    ASSUME TypeOK, NEW w \in Workers, Claim(w)
    PROVE  \E a \in Activities : About(a)
<1> DEFINE a == run[w].key
           runs == run[w].seen = JobRevision
           row == IF runs THEN Claimed(ai[a], w) ELSE Closed(Claimed(ai[a], w), "SKIPPED")
<1>1. a \in Activities /\ ai[a] \in Row
  BY DEF TypeOK, Claim
<1>2. post' = post
  BY DEF Claim
<1>3. CASE ~Claimable(ai[a])
  BY <1>1, <1>2, <1>3, NothingWritten DEF Claim
<1>4. CASE Claimable(ai[a])
  <2>1. ai' = [ai EXCEPT ![a] = row] /\ MarkIfSeen(w, a, "PROCESSING")
    BY <1>4 DEF Claim
  <2>2. /\ row \in Row /\ row.status \in Active \cup {"SKIPPED", "EXHAUSTED"}
        /\ row.live => row.status = "RUNNING"
    <3>1. Claimed(ai[a], w) \in Row /\ Claimed(ai[a], w).status = "RUNNING"
      BY <1>1, <1>4, RowUpdates
    <3>2. Closed(Claimed(ai[a], w), "SKIPPED") \in Row
          /\ Closed(Claimed(ai[a], w), "SKIPPED").status = "SKIPPED"
          /\ ~Closed(Claimed(ai[a], w), "SKIPPED").live
      BY <3>1, Closing DEF Terminal
    <3> QED BY <3>1, <3>2 DEF Active
  <2>3. ai[a].status \in Active
    BY <1>4 DEF Claimable, Lapsed, Active
  <2> HIDE DEF row, a
  <2>4. /\ activity' \in [Activities -> ActivityRecords] /\ Marked(a)
        /\ \A b \in Activities : b # a => activity'[b] = activity[b]
    BY <1>1, <2>1, MarkingTyped
  <2>5. RowsTyped /\ ai'[a] = row /\ post'[a] = post[a] /\ \A b \in Activities : b # a => Same(b)
    BY <1>1, <1>2, <2>1, <2>2, <2>4, JobWritten
  <2> QED BY <1>1, <2>2, <2>3, <2>4, <2>5 DEF About, Effect, Worked
<1> QED BY <1>3, <1>4

LEMMA FinalizationIsAbout ==
    ASSUME TypeOK, NEW w \in Workers, FinalizeWrite(w)
    PROVE  \E a \in Activities : About(a)
<1> DEFINE a == run[w].key
<1>1. a \in Activities /\ ai[a] \in Row /\ activity[a] \in ActivityRecords
  BY DEF TypeOK, ActivityRecords, FinalizeWrite
<1>2. CASE activity' = activity /\ ai' = ai /\ post' = post
  BY <1>1, <1>2, NothingWritten
<1>3. ASSUME NEW r \in Revisions, Live(a), MayComplete(ai[a], w), WriteFinal(a, r)
      PROVE  About(a)
  <2> DEFINE new == [activity[a] EXCEPT !.state = "COMPLETED", !.revision = r]
  <2>1. /\ new \in ActivityRecords
        /\ new.state = "COMPLETED" /\ new.source = activity[a].source /\ new.revision = r
    BY <1>1 DEF ActivityRecords, State
  <2>2. activity' = [activity EXCEPT ![a] = new]
    BY <1>1, <1>3 DEF WriteFinal, TypeOK
  <2> HIDE DEF new, a
  <2>3. /\ activity' \in [Activities -> ActivityRecords]
        /\ activity'[a].state = "COMPLETED" /\ activity'[a].source = activity[a].source
        /\ activity'[a].revision = r
        /\ \A b \in Activities : b # a => activity'[b] = activity[b]
    BY <1>1, <2>1, <2>2 DEF TypeOK, ActivityRecords
  <2>4. Closed(ai[a], "COMPLETED") \in Row /\ Closed(ai[a], "COMPLETED").status = "COMPLETED"
        /\ ~Closed(ai[a], "COMPLETED").live
    BY <1>1, Closing DEF Terminal
  <2>5. /\ ai' \in [Activities -> Row] /\ ai'[a].status = "COMPLETED" /\ ~ai'[a].live
        /\ \A b \in Activities : b # a => ai'[b] = ai[b]
    BY <1>1, <1>3, <2>4 DEF WriteFinal, TypeOK
  <2>6. /\ post' \in [Activities -> [Revisions -> Row]]
        /\ post'[a] = IF post[a][r].status = "ABSENT"
                      THEN [post[a] EXCEPT ![r] = QueuedRow] ELSE post[a]
        /\ \A b \in Activities : b # a => post'[b] = post[b]
    BY <1>1, <1>3, Constants DEF WriteFinal, EnqueuePost, TypeOK
  <2>7. ai[a].status \in Active
    BY <1>3 DEF MayComplete, OwnsLease, Active
  <2> QED BY <1>1, <1>3, <2>3, <2>5, <2>6, <2>7 DEF About, RowsTyped, Effect, Finalized, Same
<1> QED BY <1>1, <1>2, <1>3 DEF FinalizeWrite

\* An AI job that is not settled gets another row.
LEMMA WorkIsAbout ==
    ASSUME TypeOK, NEW a \in Activities, NEW row \in Row,
           ai[a].status \in Active, row.status \in Active \cup {"SKIPPED", "EXHAUSTED"},
           row.live => row.status = "RUNNING",
           ai' = [ai EXCEPT ![a] = row], post' = post,
           activity' \in [Activities -> ActivityRecords], Marked(a),
           \A b \in Activities : b # a => activity'[b] = activity[b]
    PROVE  About(a)
BY JobWritten DEF About, Effect, Worked

LEMMA SkipIsAbout ==
    ASSUME TypeOK, NEW w \in Workers, RecordSkip(w)
    PROVE  \E a \in Activities : About(a)
<1> DEFINE a == run[w].key
<1>1. a \in Activities /\ ai[a] \in Row
  BY DEF TypeOK, RecordSkip
<1>2. CASE ai' = ai
  BY <1>1, <1>2, NothingWritten DEF RecordSkip
<1>3. CASE OwnsLease(ai[a], w) /\ ai' = [ai EXCEPT ![a] = Closed(@, "SKIPPED")]
  <2>1. ai' = [ai EXCEPT ![a] = Closed(ai[a], "SKIPPED")] /\ post' = post /\ activity' = activity
    BY <1>3 DEF RecordSkip
  <2>2. Closed(ai[a], "SKIPPED") \in Row /\ Closed(ai[a], "SKIPPED").status = "SKIPPED"
        /\ ~Closed(ai[a], "SKIPPED").live
    BY <1>1, Closing DEF Terminal
  <2>3. ai[a].status \in Active
    BY <1>3 DEF OwnsLease, Active
  <2>4. activity' \in [Activities -> ActivityRecords] /\ Marked(a)
    BY <2>1 DEF TypeOK, ActivityRecords, Marked
  <2> HIDE DEF a
  <2> QED BY <1>1, <2>1, <2>2, <2>3, <2>4, WorkIsAbout
<1> QED BY <1>2, <1>3 DEF RecordSkip

LEMMA FailureIsAbout ==
    ASSUME TypeOK, NEW w \in Workers, RecordFailure(w)
    PROVE  \E a \in Activities : About(a)
<1> DEFINE a == run[w].key
<1>1. a \in Activities /\ ai[a] \in Row
  BY DEF TypeOK, RecordFailure
<1>2. CASE activity' = activity /\ ai' = ai
  BY <1>1, <1>2, NothingWritten DEF RecordFailure
<1>3. ASSUME NEW row \in Row, NEW state \in {"PENDING", "FAILED"},
             OwnsLease(ai[a], w), ai' = [ai EXCEPT ![a] = row], MarkIfSeen(w, a, state),
             row.status \in {"FAILED", "EXHAUSTED"}, ~row.live
      PROVE  About(a)
  <2> HIDE DEF a
  <2>1. post' = post
    BY DEF RecordFailure
  <2>2. ai[a].status \in Active /\ row.status \in Active \cup {"SKIPPED", "EXHAUSTED"}
    BY <1>3 DEF OwnsLease, Active
  <2>3. /\ activity' \in [Activities -> ActivityRecords] /\ Marked(a)
        /\ \A b \in Activities : b # a => activity'[b] = activity[b]
    BY <1>1, <1>3, MarkingTyped
  <2> QED BY <1>1, <1>3, <2>1, <2>2, <2>3, WorkIsAbout
<1>4. Closed(ai[a], "EXHAUSTED") \in Row /\ Closed(ai[a], "EXHAUSTED").status = "EXHAUSTED"
      /\ ~Closed(ai[a], "EXHAUSTED").live
  BY <1>1, Closing DEF Terminal
<1>5. RetryLater(ai[a]) \in Row /\ RetryLater(ai[a]).status = "FAILED" /\ ~RetryLater(ai[a]).live
  BY <1>1, RowUpdates
<1>6. CASE OwnsLease(ai[a], w) /\ ai' = [ai EXCEPT ![a] = Closed(@, "EXHAUSTED")] /\ MarkIfSeen(w, a, "FAILED")
  BY <1>1, <1>3, <1>4, <1>6 DEF TypeOK
<1>7. CASE OwnsLease(ai[a], w) /\ ai' = [ai EXCEPT ![a] = RetryLater(@)] /\ MarkIfSeen(w, a, "PENDING")
  BY <1>1, <1>3, <1>5, <1>7 DEF TypeOK
<1> QED BY <1>1, <1>2, <1>6, <1>7 DEF RecordFailure

LEMMA GivingUpIsAbout ==
    ASSUME TypeOK, NEW w \in Workers, Terminalize(w)
    PROVE  \E a \in Activities : About(a)
<1> DEFINE a == run[w].key
<1>1. a \in Activities /\ ai[a] \in Row
  BY DEF TypeOK, Terminalize
<1>2. post' = post
  BY DEF Terminalize
<1>3. CASE activity' = activity /\ ai' = ai
  BY <1>1, <1>2, <1>3, NothingWritten
<1>4. ASSUME MarkIfSeen(w, a, "FAILED")
      PROVE  /\ activity' \in [Activities -> ActivityRecords] /\ Marked(a)
             /\ \A b \in Activities : b # a => activity'[b] = activity[b]
  BY <1>1, <1>4, MarkingTyped
<1>5. CASE SpentAndFree(ai[a]) /\ ai' = [ai EXCEPT ![a] = Closed(@, "EXHAUSTED")] /\ MarkIfSeen(w, a, "FAILED")
  <2>1. ai' = [ai EXCEPT ![a] = Closed(ai[a], "EXHAUSTED")] /\ ai[a].status \in Active
    BY <1>5 DEF SpentAndFree, Active
  <2>2. Closed(ai[a], "EXHAUSTED") \in Row /\ Closed(ai[a], "EXHAUSTED").status = "EXHAUSTED"
        /\ ~Closed(ai[a], "EXHAUSTED").live
    BY <1>1, Closing DEF Terminal
  <2> HIDE DEF a
  <2> QED BY <1>1, <1>2, <1>4, <1>5, <2>1, <2>2, WorkIsAbout
<1>6. CASE MarkIfSeen(w, a, "FAILED") /\ ai' = ai
  <2>1. About(a)
    BY <1>1, <1>2, <1>4, <1>6 DEF About, RowsTyped, TypeOK, Effect, Touched, Same
  <2> QED BY <1>1, <2>1
<1> QED BY <1>1, <1>3, <1>5, <1>6 DEF Terminalize

\* A row with a live lease is running, one that waits for its time is not.
RowShape == \A a \in Activities : ai[a].live => ai[a].status = "RUNNING"

LEMMA ClockIsAbout ==
    ASSUME TypeOK, RowShape, NEW a \in Activities, LeaseExpires(a) \/ Due(a)
    PROVE  About(a)
<1>1. ai[a] \in Row
  BY DEF TypeOK
<1>2. activity' \in [Activities -> ActivityRecords] /\ Marked(a) /\ post' = post /\ activity' = activity
  BY DEF LeaseExpires, Due, TypeOK, ActivityRecords, Marked
<1>3. CASE LeaseExpires(a)
  <2> DEFINE row == [ai[a] EXCEPT !.live = FALSE]
  <2>1. row \in Row /\ row.status = ai[a].status /\ ~row.live
    BY <1>1 DEF Row
  <2>2. ai' = [ai EXCEPT ![a] = row] /\ ai[a].status = "RUNNING"
    BY <1>3 DEF LeaseExpires, RowShape
  <2> HIDE DEF row
  <2> QED BY <1>2, <2>1, <2>2, WorkIsAbout DEF Active
<1>4. CASE Due(a)
  <2> DEFINE row == [ai[a] EXCEPT !.due = TRUE]
  <2>1. row \in Row /\ row.status = ai[a].status /\ row.live = ai[a].live
    BY <1>1 DEF Row
  <2>2. ai' = [ai EXCEPT ![a] = row] /\ ai[a].status = "FAILED"
    BY <1>4 DEF Due
  <2>3. ~ai[a].live
    BY <2>2 DEF RowShape
  <2> HIDE DEF row
  <2> QED BY <1>2, <2>1, <2>2, <2>3, WorkIsAbout DEF Active
<1> QED BY <1>3, <1>4

\* Every step leaves the rows alone or is about one activity.
LEMMA StepIsAbout ==
    ASSUME TypeOK, RowShape, [Next]_vars
    PROVE  \/ activity' = activity /\ ai' = ai /\ post' = post
           \/ \E a \in Activities : About(a)
<1>1. CASE UNCHANGED vars
  BY <1>1 DEF vars
<1>2. ASSUME NEW a \in Activities,
             \/ CreatePendingFromForm(a) \/ CreateFinalFromAgent(a) \/ CreateFinalFromAssistant2(a)
             \/ Delete(a) \/ LeaseExpires(a) \/ Due(a)
      PROVE  About(a)
  BY <1>2, SavingIsAbout, DeletionIsAbout, ClockIsAbout
<1>3. ASSUME NEW a \in Activities, Resubmit(a)
      PROVE  activity' = activity /\ ai' = ai /\ post' = post
  BY <1>3 DEF Resubmit
<1>4. ASSUME NEW w \in Workers, NEW a \in Activities, Kick(w, a) \/ Recover(w, a)
      PROVE  activity' = activity /\ ai' = ai /\ post' = post
  BY <1>4 DEF Kick, Recover, Peek
<1>5. ASSUME NEW w \in Workers,
             \/ Claim(w) \/ FinalizeWrite(w) \/ RecordSkip(w) \/ RecordFailure(w) \/ Terminalize(w)
      PROVE  \E a \in Activities : About(a)
  BY <1>5, ClaimIsAbout, FinalizationIsAbout, SkipIsAbout, FailureIsAbout, GivingUpIsAbout
<1>6. ASSUME NEW w \in Workers,
             \/ \E b \in BOOLEAN : Compute(w, b)
             \/ FinalizeRead(w) \/ FailureRead(w) \/ Crash(w)
      PROVE  activity' = activity /\ ai' = ai /\ post' = post
  BY <1>6 DEF Compute, FinalizeRead, FailureRead, Crash
<1> QED BY <1>1, <1>2, <1>3, <1>4, <1>5, <1>6 DEF Next

-----------------------------------------------------------------------------
(* Types. *)

RunsTyped ==
    /\ run' \in [Workers -> Run]
    /\ \A w \in Workers : run'[w].pc # "idle" => run'[w].key \in Activities
    /\ answer' \in [Activities -> {"none", "replayed", "conflict"}]
    /\ crashes' \in 0 .. MaxCrashes

LEMMA SnapshotTyped ==
    ASSUME TypeOK, NEW a \in Activities
    PROVE  Snapshot(a) \in 0 .. MaxRevision
BY ActivityAssumption DEF Snapshot, TypeOK, Revisions

\* A run that is given another state of its own.
LEMMA RunWritten ==
    ASSUME TypeOK, NEW w \in Workers, NEW new \in Run, new.pc # "idle" => new.key \in Activities,
           run' = [run EXCEPT ![w] = new]
    PROVE  /\ run' \in [Workers -> Run]
           /\ \A v \in Workers : run'[v].pc # "idle" => run'[v].key \in Activities
BY DEF TypeOK

LEMMA RunSteps ==
    ASSUME TypeOK, NEW w \in Workers,
           \/ Stop(w)
           \/ \E pc \in Executing : run[w].pc # "idle" /\ Goto(w, pc)
    PROVE  /\ run' \in [Workers -> Run]
           /\ \A v \in Workers : run'[v].pc # "idle" => run'[v].key \in Activities
<1>1. CASE Stop(w)
  BY <1>1, Constants, RunWritten DEF Stop
<1>2. ASSUME NEW pc \in Executing, run[w].pc # "idle", Goto(w, pc)
      PROVE  /\ run' \in [Workers -> Run]
             /\ \A v \in Workers : run'[v].pc # "idle" => run'[v].key \in Activities
  <2> DEFINE new == [run[w] EXCEPT !.pc = pc]
  <2>1. run[w] \in Run /\ run[w].key \in Activities
    BY <1>2 DEF TypeOK
  <2>2. new \in Run /\ new.key = run[w].key
    BY <2>1 DEF Run
  <2>3. run' = [run EXCEPT ![w] = new]
    BY <1>2 DEF Goto
  <2> HIDE DEF new
  <2> QED BY <2>1, <2>2, <2>3, RunWritten
<1> QED BY <1>1, <1>2

LEMMA RunningIsTyped ==
    ASSUME TypeOK, NEW w \in Workers,
           \/ \E a \in Activities : Peek(w, a)
           \/ Claim(w)
           \/ \E b \in BOOLEAN : Compute(w, b)
           \/ FinalizeRead(w) \/ FinalizeWrite(w) \/ RecordSkip(w)
           \/ FailureRead(w) \/ RecordFailure(w) \/ Terminalize(w) \/ Crash(w)
    PROVE  RunsTyped
<1> DEFINE Good == /\ run' \in [Workers -> Run]
                   /\ \A v \in Workers : run'[v].pc # "idle" => run'[v].key \in Activities
           a == run[w].key
<1>1. answer' = answer
  BY DEF Peek, Claim, Compute, FinalizeRead, FinalizeWrite, RecordSkip, FailureRead,
         RecordFailure, Terminalize, Crash
<1>2. crashes' \in 0 .. MaxCrashes
  <2>1. CASE crashes' = crashes
    BY <2>1 DEF TypeOK
  <2>2. CASE Crash(w)
    BY <2>2, ActivityAssumption DEF Crash, TypeOK
  <2> QED BY <2>1, <2>2 DEF Peek, Claim, Compute, FinalizeRead, FinalizeWrite, RecordSkip,
                            FailureRead, RecordFailure, Terminalize
<1>3. ASSUME NEW k \in Activities, Peek(w, k) PROVE Good
  <2> DEFINE new == [pc    |-> IF ai[k].attempts >= MaxAttempts THEN "terminalize" ELSE "claim",
                     key   |-> k, seen |-> Snapshot(k), tries |-> 0]
  <2>1. new \in Run /\ new.key \in Activities
    BY SnapshotTyped, LeasedJobAssumption DEF Run
  <2>2. run' = [run EXCEPT ![w] = new]
    BY <1>3 DEF Peek
  <2> HIDE DEF new
  <2> QED BY <2>1, <2>2, RunWritten
<1>4. ASSUME Claim(w) PROVE Good
  <2>1. run[w].pc = "claim" /\ run[w] \in Run /\ a \in Activities /\ ai[a] \in Row
    BY <1>4 DEF Claim, TypeOK
  <2>2. ASSUME Stop(w) PROVE Good
    BY <2>2, RunSteps
  <2>3. CASE /\ Claimable(ai[a])
             /\ run[w].seen = JobRevision
             /\ ai' = [ai EXCEPT ![a] = Claimed(ai[a], w)]
             /\ run' = [run EXCEPT ![w] = [run[w] EXCEPT !.pc = "compute", !.tries = ai'[a].attempts]]
    <3> DEFINE new == [run[w] EXCEPT !.pc = "compute", !.tries = ai'[a].attempts]
    <3>1. ai'[a].attempts \in 0 .. MaxAttempts
      BY <2>1, <2>3, RowUpdates DEF TypeOK
    <3>2. new \in Run /\ new.key = a
      BY <2>1, <3>1 DEF Run, Executing
    <3>3. run' = [run EXCEPT ![w] = new]
      BY <2>3
    <3> HIDE DEF new
    <3> QED BY <2>1, <3>2, <3>3, RunWritten
  <2> QED BY <1>4, <2>1, <2>2, <2>3 DEF Claim, Stop
<1>5. ASSUME FinalizeRead(w) PROVE Good
  <2> DEFINE next == IF Snapshot(a) = JobRevision THEN "write" ELSE "skip"
             new == [run[w] EXCEPT !.seen = Snapshot(a), !.pc = next]
  <2>1. run[w] \in Run /\ a \in Activities
    BY <1>5 DEF FinalizeRead, TypeOK
  <2>2. new \in Run /\ new.key = a
    BY <2>1, SnapshotTyped DEF Run, Executing
  <2>3. run' = [run EXCEPT ![w] = new]
    BY <1>5, <2>1 DEF FinalizeRead, TypeOK
  <2> HIDE DEF new
  <2> QED BY <2>1, <2>2, <2>3, RunWritten
<1>6. ASSUME FailureRead(w) PROVE Good
  <2> DEFINE new == [run[w] EXCEPT !.seen = Snapshot(a), !.pc = "record"]
  <2>1. run[w] \in Run /\ a \in Activities
    BY <1>6 DEF FailureRead, TypeOK
  <2>2. new \in Run /\ new.key = a
    BY <2>1, SnapshotTyped DEF Run, Executing
  <2>3. run' = [run EXCEPT ![w] = new]
    BY <1>6, <2>1 DEF FailureRead, TypeOK
  <2> HIDE DEF new
  <2> QED BY <2>1, <2>2, <2>3, RunWritten
<1>7. ASSUME \E b \in BOOLEAN : Compute(w, b) PROVE Good
  BY <1>7, RunSteps DEF Compute, Executing
<1>8. ASSUME FinalizeWrite(w) PROVE Good
  BY <1>8, RunSteps DEF FinalizeWrite, Executing
<1>9. ASSUME RecordSkip(w) \/ RecordFailure(w) \/ Terminalize(w) \/ Crash(w) PROVE Good
  BY <1>9, RunSteps DEF RecordSkip, RecordFailure, Terminalize, Crash
<1> QED BY <1>1, <1>2, <1>3, <1>4, <1>5, <1>6, <1>7, <1>8, <1>9 DEF RunsTyped, TypeOK

LEMMA StepIsTyped ==
    ASSUME TypeOK, [Next]_vars
    PROVE  RunsTyped
<1>1. CASE run' = run /\ crashes' = crashes /\ answer' \in [Activities -> {"none", "replayed", "conflict"}]
  BY <1>1 DEF TypeOK, RunsTyped
<1>2. CASE UNCHANGED vars
  BY <1>1, <1>2 DEF vars, TypeOK
<1>3. ASSUME NEW a \in Activities,
             \/ CreatePendingFromForm(a) \/ CreateFinalFromAgent(a) \/ CreateFinalFromAssistant2(a)
             \/ Resubmit(a) \/ Delete(a) \/ LeaseExpires(a) \/ Due(a)
      PROVE  RunsTyped
  BY <1>1, <1>3 DEF CreatePendingFromForm, CreateFinalFromAgent, CreateFinalFromAssistant2,
                    Resubmit, Delete, LeaseExpires, Due, TypeOK
<1>4. ASSUME NEW w \in Workers, NEW a \in Activities, Kick(w, a) \/ Recover(w, a)
      PROVE  RunsTyped
  BY <1>4, RunningIsTyped DEF Kick, Recover
<1>5. ASSUME NEW w \in Workers,
             \/ Claim(w)
             \/ \E b \in BOOLEAN : Compute(w, b)
             \/ FinalizeRead(w) \/ FinalizeWrite(w) \/ RecordSkip(w)
             \/ FailureRead(w) \/ RecordFailure(w) \/ Terminalize(w) \/ Crash(w)
      PROVE  RunsTyped
  BY <1>5, RunningIsTyped
<1> QED BY <1>2, <1>3, <1>4, <1>5 DEF Next

LEMMA TypeStep ==
    ASSUME TypeOK, RowShape, [Next]_vars
    PROVE  TypeOK'
<1>1. RunsTyped
  BY StepIsTyped
<1>2. RowsTyped
  BY StepIsAbout DEF About, RowsTyped, TypeOK, ActivityRecords
<1> QED BY <1>1, <1>2 DEF TypeOK, RunsTyped, RowsTyped, ActivityRecords

-----------------------------------------------------------------------------
(* The invariant. *)

\* How the rows of an activity go together.
Shape(a) ==
    /\ activity[a].state = "none" =>
          /\ activity[a].source = "none" /\ ai[a].status = "ABSENT"
          /\ \A r \in Revisions : post[a][r].status = "ABSENT"
    /\ activity[a].state # "none" => (ai[a].status # "ABSENT" <=> activity[a].source = "FORM")
    /\ activity[a].state = "deleted" =>
          /\ ~Unfinished(ai[a])
          /\ \A r \in Revisions : ~Unfinished(post[a][r])
    /\ ai[a].live => ai[a].status = "RUNNING"

FollowUpMatches(a) ==
    PostRevisions(a) =
        IF activity[a].source = "AGENT" \/ ai[a].status = "COMPLETED"
        THEN {activity[a].revision} ELSE {}

IInv == TypeOK /\ \A a \in Activities : Shape(a) /\ FollowUpMatches(a)

LEMMA InitHolds == Init => IInv
<1> SUFFICES ASSUME Init PROVE IInv
  OBVIOUS
<1>1. activity \in [Activities -> ActivityRecords]
  BY Constants DEF Init, ActivityRecords, State, Source
<1>2. TypeOK
  BY <1>1, Constants, ActivityAssumption DEF Init, TypeOK, ActivityRecords
<1>3. \A a \in Activities : Shape(a)
  BY Constants DEF Init, Shape
<1>4. \A a \in Activities : FollowUpMatches(a)
  BY Constants DEF Init, FollowUpMatches, PostRevisions
<1> QED BY <1>2, <1>3, <1>4 DEF IInv

\* A post-commit job that is registered for the revision r of an activity
\* that has none: it is the only one.
LEMMA Registering ==
    ASSUME NEW a \in Activities, NEW r \in Revisions,
           post[a] \in [Revisions -> Row], PostRevisions(a) = {},
           post'[a] = IF post[a][r].status = "ABSENT" THEN [post[a] EXCEPT ![r] = QueuedRow] ELSE post[a]
    PROVE  PostRevisions(a)' = {r} /\ Unfinished(post'[a][r])
<1>1. \A q \in Revisions : post[a][q].status = "ABSENT"
  BY DEF PostRevisions
<1>2. post'[a] = [post[a] EXCEPT ![r] = QueuedRow]
  BY <1>1
<1>3. post'[a][r] = QueuedRow /\ \A q \in Revisions : q # r => post'[a][q] = post[a][q]
  BY <1>2
<1>4. QueuedRow.status # "ABSENT" /\ Unfinished(QueuedRow)
  BY Constants DEF Unfinished, Terminal
<1> QED BY <1>1, <1>3, <1>4 DEF PostRevisions

LEMMA EffectKeeps ==
    ASSUME IInv, NEW a \in Activities, RowsTyped, Effect(a)
    PROVE  Shape(a)' /\ FollowUpMatches(a)'
<1>1. /\ Shape(a) /\ FollowUpMatches(a)
      /\ activity[a] \in ActivityRecords /\ ai[a] \in Row /\ post[a] \in [Revisions -> Row]
      /\ activity'[a] \in ActivityRecords /\ ai'[a] \in Row /\ post'[a] \in [Revisions -> Row]
  BY DEF IInv, TypeOK, RowsTyped, ActivityRecords
<1>2. /\ Unfinished(ai[a]) <=> ai[a].status \in Active
      /\ Unfinished(ai'[a]) <=> ai'[a].status \in Active
  BY <1>1, NotFinished
<1>3. CASE Saved(a)
  <2>1. activity[a].source = "none" /\ ai[a].status = "ABSENT" /\ PostRevisions(a) = {}
        /\ ~ai[a].live
    BY <1>1, <1>3 DEF Saved, Shape, PostRevisions
  <2>2. CASE activity'[a].source = "FORM" /\ ai'[a] = QueuedRow /\ post'[a] = post[a]
             /\ activity'[a].state = "PENDING"
    BY <2>1, <2>2, Constants DEF Shape, FollowUpMatches, PostRevisions
  <2>3. CASE /\ activity'[a].source = "AGENT" /\ ai'[a] = ai[a] /\ activity'[a].state = "COMPLETED"
             /\ activity'[a].revision = JobRevision
             /\ post'[a] = IF post[a][JobRevision].status = "ABSENT"
                           THEN [post[a] EXCEPT ![JobRevision] = QueuedRow] ELSE post[a]
    <3>1. PostRevisions(a)' = {JobRevision}
      BY <1>1, <2>1, <2>3, Constants, Registering
    <3> QED BY <2>1, <2>3, <3>1 DEF Shape, FollowUpMatches
  <2>4. CASE activity'[a].source = "ASSISTANT_2" /\ ai'[a] = ai[a] /\ post'[a] = post[a]
             /\ activity'[a].state = "COMPLETED"
    BY <2>1, <2>4 DEF Shape, FollowUpMatches, PostRevisions
  <2> QED BY <1>3, <2>2, <2>3, <2>4 DEF Saved
<1>4. CASE Gone(a)
  <2>1. /\ ~ai'[a].live \/ ai'[a] = ai[a]
        /\ ~Unfinished(ai'[a])
        /\ ai'[a].status = "ABSENT" <=> ai[a].status = "ABSENT"
        /\ ai'[a].status = "COMPLETED" <=> ai[a].status = "COMPLETED"
    BY <1>1, <1>2, <1>4, Skipping DEF Gone, Active
  <2>2. ASSUME NEW r \in Revisions
        PROVE  /\ ~Unfinished(post'[a][r])
               /\ post'[a][r].status = "ABSENT" <=> post[a][r].status = "ABSENT"
    <3>1. post[a][r] \in Row /\ post'[a][r] = SkippedIfUnfinished(post[a][r])
      BY <1>1, <1>4 DEF Gone
    <3>2. Unfinished(post[a][r]) => post[a][r].status # "ABSENT"
      BY DEF Unfinished
    <3> QED BY <3>1, <3>2, Skipping
  <2>3. PostRevisions(a)' = PostRevisions(a)
    BY <2>2 DEF PostRevisions
  <2>4. Live(a) /\ activity'[a].state = "deleted" /\ activity'[a].source = activity[a].source
        /\ activity'[a].revision = activity[a].revision
    BY <1>4 DEF Gone
  <2>5. Shape(a)'
    BY <1>1, <2>1, <2>2, <2>4 DEF Shape, Live
  <2> QED BY <1>1, <2>1, <2>3, <2>4, <2>5 DEF FollowUpMatches
<1>5. CASE Touched(a)
  <2>1. /\ \/ activity'[a].state = activity[a].state
           \/ activity[a].state \notin {"none", "deleted"} /\ activity'[a].state \notin {"none", "deleted"}
        /\ activity'[a].source = activity[a].source /\ activity'[a].revision = activity[a].revision
        /\ ai'[a] = ai[a] /\ post'[a] = post[a]
    BY <1>5 DEF Touched, Marked, Live
  <2> QED BY <1>1, <2>1 DEF Shape, FollowUpMatches, PostRevisions
<1>6. CASE Worked(a)
  <2>1. activity[a].state \notin {"none", "deleted"} /\ activity[a].source = "FORM"
    BY <1>1, <1>2, <1>6 DEF Worked, Shape, Active
  <2>2. activity'[a].state \notin {"none", "deleted"} /\ activity'[a].source = "FORM"
        /\ activity'[a].revision = activity[a].revision
    BY <1>6, <2>1 DEF Worked, Marked
  <2>3. /\ ai[a].status \notin {"ABSENT", "COMPLETED"} /\ ai'[a].status \notin {"ABSENT", "COMPLETED"}
        /\ post'[a] = post[a]
        /\ ai'[a].live => ai'[a].status = "RUNNING"
    BY <1>6 DEF Worked, Active
  <2> QED BY <1>1, <2>1, <2>2, <2>3 DEF Shape, FollowUpMatches, PostRevisions
<1>7. CASE Finalized(a)
  <2>1. activity[a].source = "FORM" /\ PostRevisions(a) = {}
    BY <1>1, <1>7 DEF Finalized, Shape, Live, FollowUpMatches, Active
  <2>2. activity'[a].revision \in Revisions
    BY <1>1 DEF ActivityRecords
  <2>3. PostRevisions(a)' = {activity'[a].revision}
    BY <1>1, <1>7, <2>1, <2>2, Registering DEF Finalized
  <2>4. activity'[a].state = "COMPLETED" /\ activity'[a].source = "FORM"
        /\ ai'[a].status = "COMPLETED" /\ ~ai'[a].live
    BY <1>7, <2>1 DEF Finalized
  <2> QED BY <2>3, <2>4 DEF Shape, FollowUpMatches
<1> QED BY <1>3, <1>4, <1>5, <1>6, <1>7 DEF Effect

LEMMA SameKeeps ==
    ASSUME NEW a \in Activities, Shape(a), FollowUpMatches(a), Same(a)
    PROVE  Shape(a)' /\ FollowUpMatches(a)'
BY DEF Same, Shape, FollowUpMatches, PostRevisions

LEMMA StepKeeps == IInv /\ [Next]_vars => IInv'
<1> SUFFICES ASSUME IInv, [Next]_vars PROVE IInv'
  OBVIOUS
<1>1. TypeOK /\ RowShape
  BY DEF IInv, Shape, RowShape
<1>2. TypeOK'
  BY <1>1, TypeStep
<1>3. ASSUME NEW a \in Activities PROVE Shape(a)' /\ FollowUpMatches(a)'
  <2>1. Same(a) \/ (RowsTyped /\ Effect(a))
    BY <1>1, StepIsAbout DEF Same, About
  <2>2. Shape(a) /\ FollowUpMatches(a)
    BY DEF IInv
  <2> QED BY <2>1, <2>2, EffectKeeps, SameKeeps
<1> QED BY <1>2, <1>3 DEF IInv

-----------------------------------------------------------------------------
(* Theorems. *)

THEOREM Invariance == Spec => []IInv
BY InitHolds, StepKeeps, PTL DEF Spec

\* The tables and the workers' local variables stay within their types.
THEOREM TypeCorrect == Spec => []TypeOK
<1>1. IInv => TypeOK
  BY DEF IInv
<1> QED BY <1>1, Invariance, PTL

\* An activity has the post-commit job of its final revision exactly if it was
\* saved by the agent or its AI job completed (WriteFinal commits the two
\* together), and never the job of another revision.
THEOREM FollowUpIsExact == Spec => []FollowUpMatchesFinalization
<1>1. IInv => FollowUpMatchesFinalization
  BY DEF IInv, FollowUpMatches, FollowUpMatchesFinalization
<1> QED BY <1>1, Invariance, PTL

\* No run that read the activity before its deletion writes one of its rows
\* afterwards (delete_activity closes the jobs in its own commit).
THEOREM DeletionIsLast == Spec => NoWriteAfterDeletion
<1>1. ASSUME IInv, [Next]_vars, NEW a \in Activities, activity[a].state = "deleted"
      PROVE  Same(a)
  <2>1. Same(a) \/ Effect(a)
    BY <1>1, StepIsAbout DEF Same, About, IInv, Shape, RowShape
  <2>2. ai[a].status \notin Active
    <3>1. ai[a] \in Row /\ ~Unfinished(ai[a])
      BY <1>1 DEF IInv, TypeOK, Shape
    <3> QED BY <3>1, NotFinished
  <2>3. Touched(a) => Same(a)
    BY <1>1 DEF Touched, Marked, Live, Same
  <2> QED BY <1>1, <2>1, <2>2, <2>3 DEF Effect, Saved, Gone, Worked, Finalized, Live
<1>2. IInv /\ [Next]_vars =>
        [\A a \in Activities : activity[a].state = "deleted" =>
            activity'[a] = activity[a] /\ ai'[a] = ai[a] /\ post'[a] = post[a]]_vars
  BY <1>1 DEF Same
<1> QED BY <1>2, Invariance, PTL DEF Spec, NoWriteAfterDeletion

-----------------------------------------------------------------------------
(* The refinement. *)

\* What a step does to the promise kept about activity a.
Promised(a) ==
    LET s == AbstractStage[a] t == AbstractStage'[a]
        f == AbstractFollowUp[a] g == AbstractFollowUp'[a]
    IN  \/ s = t /\ f = g
        \/ s = "none" /\ t = "draft" /\ g = "none"
        \/ s = "none" /\ t = "final" /\ g \in {"none", "due"}
        \/ s = "draft" /\ t = "final" /\ g = "due"
        \/ s = "draft" /\ t = "given up" /\ g = "none"
        \/ s \notin {"none", "gone"} /\ t = "gone" /\ g = (IF f = "due" THEN "closed" ELSE f)

LEMMA SameIsPromised ==
    ASSUME NEW a \in Activities, Same(a)
    PROVE  AbstractStage'[a] = AbstractStage[a] /\ AbstractFollowUp'[a] = AbstractFollowUp[a]
BY DEF Same, AbstractStage, AbstractFollowUp, PostRevisions

LEMMA EffectIsPromised ==
    ASSUME IInv, NEW a \in Activities, RowsTyped, Effect(a)
    PROVE  Promised(a)
<1>1. /\ Shape(a) /\ FollowUpMatches(a)
      /\ ai[a] \in Row /\ post[a] \in [Revisions -> Row]
      /\ activity'[a] \in ActivityRecords /\ ai'[a] \in Row /\ post'[a] \in [Revisions -> Row]
  BY DEF IInv, TypeOK, RowsTyped
<1>2. /\ AbstractStage[a] =
            IF activity[a].state = "none" THEN "none"
            ELSE IF activity[a].state = "deleted" THEN "gone"
            ELSE IF activity[a].source # "FORM" \/ ai[a].status = "COMPLETED" THEN "final"
            ELSE IF ai[a].status = "EXHAUSTED" THEN "given up"
            ELSE "draft"
      /\ AbstractStage'[a] =
            IF activity'[a].state = "none" THEN "none"
            ELSE IF activity'[a].state = "deleted" THEN "gone"
            ELSE IF activity'[a].source # "FORM" \/ ai'[a].status = "COMPLETED" THEN "final"
            ELSE IF ai'[a].status = "EXHAUSTED" THEN "given up"
            ELSE "draft"
  BY DEF AbstractStage
<1>3. /\ AbstractFollowUp[a] =
            IF PostRevisions(a) = {} THEN "none"
            ELSE IF \E r \in Revisions : Unfinished(post[a][r]) THEN "due" ELSE "closed"
      /\ AbstractFollowUp'[a] =
            IF PostRevisions(a)' = {} THEN "none"
            ELSE IF \E r \in Revisions : Unfinished(post'[a][r]) THEN "due" ELSE "closed"
  BY DEF AbstractFollowUp
<1>4. FollowUpMatches(a)' /\ Shape(a)'
  BY EffectKeeps
<1>5. CASE Saved(a)
  <2>1. AbstractStage[a] = "none"
    BY <1>2, <1>5 DEF Saved
  <2>2. CASE activity'[a].source = "FORM" /\ activity'[a].state = "PENDING" /\ ai'[a] = QueuedRow
    <3>1. AbstractStage'[a] = "draft"
      BY <1>2, <2>2, Constants
    <3>2. PostRevisions(a)' = {}
      BY <1>4, <2>2, Constants DEF FollowUpMatches
    <3> QED BY <1>3, <2>1, <3>1, <3>2 DEF Promised
  <2>3. CASE /\ activity'[a].source = "AGENT" /\ activity'[a].state = "COMPLETED"
             /\ post'[a] = IF post[a][JobRevision].status = "ABSENT"
                           THEN [post[a] EXCEPT ![JobRevision] = QueuedRow] ELSE post[a]
    <3>1. AbstractStage'[a] = "final"
      BY <1>2, <2>3
    <3>2. PostRevisions(a) = {}
      BY <1>1, <1>5 DEF Saved, Shape, PostRevisions
    <3>3. PostRevisions(a)' = {JobRevision} /\ Unfinished(post'[a][JobRevision])
      BY <1>1, <2>3, <3>2, Constants, Registering
    <3>4. AbstractFollowUp'[a] = "due"
      BY <1>3, <3>3, Constants
    <3> QED BY <2>1, <3>1, <3>4 DEF Promised
  <2>4. CASE activity'[a].source = "ASSISTANT_2" /\ activity'[a].state = "COMPLETED" /\ ai'[a] = ai[a]
    <3>1. AbstractStage'[a] = "final"
      BY <1>2, <2>4
    <3>2. PostRevisions(a)' = {}
      BY <1>1, <1>4, <1>5, <2>4 DEF FollowUpMatches, Saved, Shape
    <3> QED BY <1>3, <2>1, <3>1, <3>2 DEF Promised
  <2> QED BY <1>5, <2>2, <2>3, <2>4 DEF Saved
<1>6. CASE Gone(a)
  <2>1. AbstractStage[a] \notin {"none", "gone"} /\ AbstractStage'[a] = "gone"
    BY <1>2, <1>6 DEF Gone, Live
  <2>2. ASSUME NEW r \in Revisions
        PROVE  /\ ~Unfinished(post'[a][r])
               /\ post'[a][r].status = "ABSENT" <=> post[a][r].status = "ABSENT"
    <3>1. post[a][r] \in Row /\ post'[a][r] = SkippedIfUnfinished(post[a][r])
      BY <1>1, <1>6 DEF Gone
    <3>2. Unfinished(post[a][r]) => post[a][r].status # "ABSENT"
      BY DEF Unfinished
    <3> QED BY <3>1, <3>2, Skipping
  <2>3. PostRevisions(a)' = PostRevisions(a)
    BY <2>2 DEF PostRevisions
  <2>4. AbstractFollowUp'[a] = IF AbstractFollowUp[a] = "due" THEN "closed" ELSE AbstractFollowUp[a]
    BY <1>3, <2>2, <2>3
  <2> QED BY <2>1, <2>4 DEF Promised
<1>7. CASE Touched(a)
  <2>1. /\ \/ activity'[a].state = activity[a].state
           \/ activity[a].state \notin {"none", "deleted"} /\ activity'[a].state \notin {"none", "deleted"}
        /\ activity'[a].source = activity[a].source
        /\ ai'[a] = ai[a] /\ post'[a] = post[a]
    BY <1>7 DEF Touched, Marked, Live
  <2>2. AbstractStage'[a] = AbstractStage[a]
    BY <1>2, <2>1
  <2>3. AbstractFollowUp'[a] = AbstractFollowUp[a]
    BY <2>1 DEF AbstractFollowUp, PostRevisions
  <2> QED BY <2>2, <2>3 DEF Promised
<1>8. CASE Worked(a)
  <2>1. /\ activity[a].state \notin {"none", "deleted"} /\ activity[a].source = "FORM"
        /\ ai[a].status \notin {"ABSENT", "COMPLETED", "EXHAUSTED"}
    <3>1. ai[a].status \in Active /\ Unfinished(ai[a])
      BY <1>1, <1>8, NotFinished DEF Worked
    <3> QED BY <1>1, <3>1 DEF Shape, Active
  <2>2. activity'[a].state \notin {"none", "deleted"} /\ activity'[a].source = "FORM"
    BY <1>8, <2>1 DEF Worked, Marked
  <2>3. ai'[a].status # "COMPLETED" /\ post'[a] = post[a]
    BY <1>8 DEF Worked, Active
  <2>4. PostRevisions(a) = {} /\ PostRevisions(a)' = {}
    BY <1>1, <1>4, <2>1, <2>2, <2>3 DEF FollowUpMatches
  <2>5. AbstractFollowUp[a] = "none" /\ AbstractFollowUp'[a] = "none"
    BY <1>3, <2>4
  <2>6. AbstractStage[a] = "draft" /\ AbstractStage'[a] \in {"draft", "given up"}
    BY <1>2, <2>1, <2>2, <2>3
  <2> QED BY <2>5, <2>6 DEF Promised
<1>9. CASE Finalized(a)
  <2>1. /\ activity[a].state \notin {"none", "deleted"} /\ activity[a].source = "FORM"
        /\ ai[a].status \notin {"COMPLETED", "EXHAUSTED"} /\ PostRevisions(a) = {}
    BY <1>1, <1>9 DEF Finalized, Shape, Live, FollowUpMatches, Active
  <2>2. activity'[a].revision \in Revisions
    BY <1>1 DEF ActivityRecords
  <2>3. PostRevisions(a)' = {activity'[a].revision} /\ Unfinished(post'[a][activity'[a].revision])
    BY <1>1, <1>9, <2>1, <2>2, Registering DEF Finalized
  <2>4. AbstractStage[a] = "draft" /\ AbstractStage'[a] = "final"
    BY <1>2, <1>9, <2>1 DEF Finalized
  <2>5. AbstractFollowUp'[a] = "due"
    BY <1>3, <2>2, <2>3
  <2> QED BY <2>4, <2>5 DEF Promised
<1> QED BY <1>5, <1>6, <1>7, <1>8, <1>9 DEF Effect

LEMMA RefinesInit == Init => Promise!Init
<1> SUFFICES ASSUME Init PROVE Promise!Init
  OBVIOUS
<1>1. AbstractStage = [a \in Activities |-> "none"]
  BY DEF Init, AbstractStage
<1>2. AbstractFollowUp = [a \in Activities |-> "none"]
  BY Constants DEF Init, AbstractFollowUp, PostRevisions
<1> QED BY <1>1, <1>2 DEF Promise!Init

LEMMA RefinesNext == IInv /\ [Next]_vars => [Promise!Next]_(Promise!vars)
<1> SUFFICES ASSUME IInv, [Next]_vars PROVE [Promise!Next]_(Promise!vars)
  OBVIOUS
<1> DEFINE s == AbstractStage t == AbstractStage'
           f == AbstractFollowUp g == AbstractFollowUp'
<1>1. /\ s = [a \in Activities |-> s[a]] /\ t = [a \in Activities |-> t[a]]
      /\ f = [a \in Activities |-> f[a]] /\ g = [a \in Activities |-> g[a]]
  BY DEF AbstractStage, AbstractFollowUp
<1>2. CASE \A b \in Activities : Same(b)
  <2>1. \A b \in Activities : t[b] = s[b] /\ g[b] = f[b]
    BY <1>2, SameIsPromised
  <2> HIDE DEF s, t, f, g
  <2>2. t = s /\ g = f
    BY <1>1, <2>1
  <2> QED BY <2>2 DEF Promise!vars, s, t, f, g
<1>3. ASSUME NEW a \in Activities, About(a) PROVE [Promise!Next]_(Promise!vars)
  <2>1. \A b \in Activities : b # a => t[b] = s[b] /\ g[b] = f[b]
    BY <1>3, SameIsPromised DEF About
  <2>2. Promised(a)
    BY <1>3, EffectIsPromised DEF About
  <2> HIDE DEF s, t, f, g
  <2>3. t = [s EXCEPT ![a] = t[a]] /\ g = [f EXCEPT ![a] = g[a]]
    BY <1>1, <2>1
  <2>4. CASE t[a] = s[a] /\ g[a] = f[a]
    <3>1. t = s /\ g = f
      BY <1>1, <2>1, <2>4
    <3> QED BY <3>1 DEF Promise!vars, s, t, f, g
  <2>5. CASE s[a] = "none" /\ t[a] = "draft" /\ g[a] = "none"
    <3>1. Promise!Draft(a)
      BY <2>3, <2>5 DEF Promise!Draft, Promise!Move, s, t, f, g
    <3> QED BY <3>1 DEF Promise!Next
  <2>6. CASE s[a] = "none" /\ t[a] = "final" /\ g[a] \in {"none", "due"}
    <3>1. Promise!Move(a, "none", "final", g[a])
      BY <2>3, <2>6 DEF Promise!Move, s, t, f, g
    <3>2. Promise!SaveFinal(a)
      BY <2>6, <3>1 DEF Promise!SaveFinal
    <3> QED BY <3>2 DEF Promise!Next
  <2>7. CASE s[a] = "draft" /\ t[a] = "final" /\ g[a] = "due"
    <3>1. Promise!Finalize(a)
      BY <2>3, <2>7 DEF Promise!Finalize, Promise!Move, s, t, f, g
    <3> QED BY <3>1 DEF Promise!Next
  <2>8. CASE s[a] = "draft" /\ t[a] = "given up" /\ g[a] = "none"
    <3>1. Promise!GiveUp(a)
      BY <2>3, <2>8 DEF Promise!GiveUp, Promise!Move, s, t, f, g
    <3> QED BY <3>1 DEF Promise!Next
  <2>9. CASE /\ s[a] \notin {"none", "gone"} /\ t[a] = "gone"
             /\ g[a] = IF f[a] = "due" THEN "closed" ELSE f[a]
    <3>1. Promise!Delete(a)
      BY <2>3, <2>9 DEF Promise!Delete, s, t, f, g
    <3> QED BY <3>1 DEF Promise!Next
  <2> QED BY <2>2, <2>4, <2>5, <2>6, <2>7, <2>8, <2>9 DEF Promised, s, t, f, g
<1>4. (\A b \in Activities : Same(b)) \/ (\E a \in Activities : About(a))
  BY StepIsAbout DEF IInv, Shape, RowShape, Same
<1> QED BY <1>2, <1>3, <1>4

\* By the jobs' own account every activity keeps ActivityPromise: drafted,
\* final at most once and with its follow-up work, given up or deleted, however
\* many workers and crashes there are.
THEOREM KeepsThePromise == Spec => ImplementsPromise
<1>1. Init => Promise!Init
  BY RefinesInit
<1>2. IInv /\ [Next]_vars => [Promise!Next]_(Promise!vars)
  BY RefinesNext
<1> QED BY <1>1, <1>2, Invariance, PTL DEF Spec, ImplementsPromise, Promise!Spec

-----------------------------------------------------------------------------
(***************************************************************************)
(* The post-commit workflow of a final activity, ActivityPostCommit.       *)
(*                                                                         *)
(* Its steps are those of a run, which change that run alone, and those of *)
(* users and the clock, which change no run.  The invariant says of every  *)
(* state of a graph, held by a run or saved in the thread, that behind the *)
(* question to the model there is an answer or a skip, and that the fence  *)
(* has stopped it only if the activity is deleted (Sound).  It has to      *)
(* speak of the saved thread because a run may resume what another left.   *)
(***************************************************************************)

CONSTANT UserActs
VARIABLES job, nextTask, task, closings, case, thread, user

P == INSTANCE ActivityPostCommit

-----------------------------------------------------------------------------
(* Types. *)

\* The state of a graph keeps its type in every update the nodes make.
LEMMA GraphUpdates ==
    ASSUME NEW g \in P!Graph
    PROVE  /\ \A at \in P!Nodes \cup {"finish"} : [g EXCEPT !.at = at] \in P!Graph
           /\ \A plan \in P!Plan : [g EXCEPT !.plan = plan] \in P!Graph
           /\ [g EXCEPT !.skip = TRUE] \in P!Graph
           /\ [g EXCEPT !.skip = TRUE, !.error = TRUE] \in P!Graph
           /\ \A at \in P!Nodes \cup {"finish"} : P!Fenced(g, at) \in P!Graph
           /\ \A at \in P!Nodes \cup {"finish"}, s \in BOOLEAN : [g EXCEPT !.skip = s, !.at = at] \in P!Graph
           /\ \A at \in P!Nodes \cup {"finish"}, plan \in P!Plan : [g EXCEPT !.at = at, !.plan = plan] \in P!Graph
BY DEF P!Graph, P!Fenced

\* The values that Init and a stopped run use have their types.
LEMMA FlowIdleTyped == P!Idle \in P!Run /\ P!NewGraph \in P!Graph
<1>1. P!NewGraph \in P!Graph
  BY DEF P!NewGraph, P!Graph, P!Nodes, P!Plan
<1>2. [next |-> "none", task |-> "OPEN"] \in P!Snapshot
  BY DEF P!Snapshot, P!NextStatus, P!TaskStatus
<1>3. 0 \in 0 .. MaxAttempts
  BY LeasedJobAssumption
<1> QED BY <1>1, <1>2, <1>3 DEF P!Idle, P!Run

\* A run that stops, goes to another place or leaves a node.
LEMMA RunUpdates ==
    ASSUME P!TypeOK, NEW w \in Workers
    PROVE  /\ P!Stop(w) => run' \in [Workers -> P!Run]
           /\ \A pc \in {"idle", "claim", "terminalize", "start", "enter", "finish", "fail"} \cup P!Nodes :
                 P!Goto(w, pc) => run' \in [Workers -> P!Run]
           /\ \A g \in P!Graph : P!Leave(w, g) => run' \in [Workers -> P!Run]
<1>1. run[w] \in P!Run
  BY DEF P!TypeOK
<1>2. P!Idle.sees \in P!Snapshot
  BY DEF P!Idle, P!Snapshot, P!NextStatus, P!TaskStatus
<1>3. \A g \in P!Graph : [run[w] EXCEPT !.pc = "enter", !.g = g, !.sees = P!Idle.sees] \in P!Run
  BY <1>1, <1>2, Zenon DEF P!Run
<1>4. \A pc \in {"idle", "claim", "terminalize", "start", "enter", "finish", "fail"} \cup P!Nodes :
         [run[w] EXCEPT !.pc = pc] \in P!Run
  BY <1>1, Zenon DEF P!Run
<1>5. ASSUME P!Stop(w) PROVE run' \in [Workers -> P!Run]
  BY <1>5, FlowIdleTyped DEF P!Stop, P!TypeOK
<1>6. ASSUME NEW pc \in {"idle", "claim", "terminalize", "start", "enter", "finish", "fail"} \cup P!Nodes, P!Goto(w, pc)
      PROVE  run' \in [Workers -> P!Run]
  BY <1>4, <1>6 DEF P!Goto, P!TypeOK
<1>7. ASSUME NEW g \in P!Graph, P!Leave(w, g) PROVE run' \in [Workers -> P!Run]
  <2>1. run' = [run EXCEPT ![w] = [run[w] EXCEPT !.pc = "enter", !.g = g, !.sees = P!Idle.sees]]
    BY <1>7 DEF P!Leave, P!TypeOK
  <2> QED BY <1>3, <2>1 DEF P!TypeOK
<1> QED BY <1>5, <1>6, <1>7

\* The job's row keeps its type in every update.
LEMMA JobRowTyped ==
    ASSUME P!TypeOK
    PROVE  /\ \A outcome \in P!Terminal : P!Closed(job, outcome) \in P!Row
           /\ P!RetryLater(job) \in P!Row
           /\ \A w \in Workers : P!Claimable(job) => P!Claimed(job, w) \in P!Row
           /\ [job EXCEPT !.live = FALSE] \in P!Row /\ [job EXCEPT !.due = TRUE] \in P!Row
<1>1. job \in P!Row
  BY DEF P!TypeOK
<1>2. \A outcome \in P!Terminal : P!Closed(job, outcome) \in P!Row
  BY <1>1 DEF P!Closed, P!FreeRow, P!Row, P!Status
<1>3. P!RetryLater(job) \in P!Row
  BY <1>1 DEF P!RetryLater, P!FreeRow, P!Row, P!Status
<1>4. ASSUME NEW w \in Workers, P!Claimable(job) PROVE P!Claimed(job, w) \in P!Row
  BY <1>1, <1>4, LeasedJobAssumption DEF P!Claimable, P!Claimed, P!Row, P!Status
<1>5. [job EXCEPT !.live = FALSE] \in P!Row /\ [job EXCEPT !.due = TRUE] \in P!Row
  BY <1>1, Zenon DEF P!Row
<1> QED BY <1>2, <1>3, <1>4, <1>5

-----------------------------------------------------------------------------
(* The invariant. *)

\* Behind the question to the model there is an answer, or the skip that says
\* there is none; what the fence has stopped belongs to a deleted activity.
Asked == {"execute", "cases", "deliver", "finish"}

Sound(g, a) ==
    /\ g.fenced => a = "deleted"
    /\ g.at \in Asked => g.plan # "unasked" \/ g.skip

\* A run is in the node its state says.
Placed(x) == x.pc \in P!Nodes \cup {"finish"} => x.g.at = x.pc

\* Only a running job has a lease, and a deletion settles the job.
Leased == job.live => job.status = "RUNNING"

FlowInv ==
    /\ P!PostCommitAssumption
    /\ P!TypeOK
    /\ Leased
    /\ P!DeletedMeansSettled
    /\ Sound(thread, activity)
    /\ \A w \in Workers : Sound(run[w].g, activity) /\ Placed(run[w])

\* What a step does to the runs: it changes one of them, or none.
Moves ==
    \/ run' = run
    \/ \E w \in Workers, x \in P!Run :
          /\ run' = [run EXCEPT ![w] = x]
          /\ Sound(x.g, activity') /\ Placed(x)

\* A run that stops.
LEMMA StopMoves ==
    ASSUME NEW w \in Workers, P!Stop(w)
    PROVE  Moves
<1>1. Sound(P!Idle.g, activity') /\ Placed(P!Idle)
  BY DEF P!Idle, P!NewGraph, Sound, Placed, Asked, P!Nodes
<1> QED BY <1>1, FlowIdleTyped DEF P!Stop, Moves

\* A run that goes on outside the graph.
LEMMA GotoMoves ==
    ASSUME FlowInv, activity' = activity, NEW w \in Workers,
           NEW pc \in {"claim", "terminalize", "fail"}, P!Goto(w, pc)
    PROVE  Moves
<1> DEFINE x == [run[w] EXCEPT !.pc = pc]
<1>1. run[w] \in P!Run
  BY DEF FlowInv, P!TypeOK
<1>2. x \in P!Run /\ x.pc = pc /\ x.g = run[w].g
  <2>1. x \in P!Run
    BY <1>1, Zenon DEF P!Run
  <2>2. x.pc = pc /\ x.g = run[w].g
    BY <1>1 DEF P!Run
  <2> QED BY <2>1, <2>2
<1>3. run' = [run EXCEPT ![w] = x]
  BY DEF P!Goto, FlowInv, P!TypeOK
<1> HIDE DEF x
<1>4. Placed(x)
  BY <1>2 DEF Placed, P!Nodes
<1>5. Sound(x.g, activity')
  BY <1>2 DEF Sound, FlowInv
<1> QED BY <1>2, <1>3, <1>4, <1>5 DEF Moves

\* A run that leaves a node with a sound state.
LEMMA LeaveMoves ==
    ASSUME FlowInv, NEW w \in Workers, NEW g \in P!Graph, Sound(g, activity'), P!Leave(w, g)
    PROVE  Moves
<1> DEFINE x == [run[w] EXCEPT !.pc = "enter", !.g = g, !.sees = P!Idle.sees]
<1>1. run[w] \in P!Run
  BY DEF FlowInv, P!TypeOK
<1>2. P!Idle.sees \in P!Snapshot
  BY DEF P!Idle, P!Snapshot, P!NextStatus, P!TaskStatus
<1>3. x \in P!Run
  BY <1>1, <1>2, Zenon DEF P!Run
<1>4. x.pc = "enter" /\ x.g = g
  BY <1>1 DEF P!Run
<1>5. run' = [run EXCEPT ![w] = x]
  BY DEF P!Leave, FlowInv, P!TypeOK
<1> HIDE DEF x
<1>6. Placed(x)
  BY <1>4 DEF Placed, P!Nodes
<1> QED BY <1>3, <1>4, <1>5, <1>6 DEF Moves

-----------------------------------------------------------------------------
(* The nodes. *)

\* What a node leaves is sound: the plan is settled or the skip set before the nodes
\* that act on it, and the fence stops only what belongs to a deleted activity.
LEMMA NodeMoves ==
    ASSUME FlowInv, NEW w \in Workers,
           P!Load(w) \/ P!Project(w) \/ P!Match(w) \/ P!Execute(w) \/ P!CreateCases(w) \/ P!Deliver(w)
    PROVE  Moves
<1> DEFINE g == run[w].g
<1>1. g \in P!Graph /\ run[w] \in P!Run
  BY DEF FlowInv, P!TypeOK, P!Run
<1>2. Sound(g, activity) /\ Placed(run[w])
  BY DEF FlowInv
<1>3. activity' = activity
  BY DEF P!Load, P!Project, P!Match, P!Execute, P!CreateCases, P!Deliver, P!rows
<1>4. ~P!FenceAllows => activity = "deleted"
  BY DEF P!FenceAllows, FlowInv, P!TypeOK
<1>5. CASE P!Load(w)
  <2> DEFINE skip == g.skip \/ activity = "deleted"
             at == IF skip THEN "finish" ELSE "project"
             new == [g EXCEPT !.skip = skip, !.at = at]
  <2>1. skip \in BOOLEAN /\ at \in P!Nodes \cup {"finish"}
    BY <1>1 DEF P!Graph, P!Nodes
  <2>2. new \in P!Graph
    BY <1>1, <2>1, GraphUpdates
  <2>3. new.at = at /\ new.skip = skip /\ new.fenced = g.fenced
    BY <1>1 DEF P!Graph
  <2>4. P!Leave(w, new)
    BY <1>5 DEF P!Load
  <2> HIDE DEF new
  <2>5. Sound(new, activity')
    BY <1>2, <1>3, <2>3 DEF Sound, Asked
  <2> QED BY <2>2, <2>4, <2>5, LeaveMoves
<1>6. CASE P!Project(w)
  <2> DEFINE new == [g EXCEPT !.at = "match"]
  <2>1. new \in P!Graph /\ P!Fenced(g, "match") \in P!Graph
    BY <1>1, GraphUpdates DEF P!Nodes
  <2>2. new.at = "match" /\ new.fenced = g.fenced
    BY <1>1 DEF P!Graph
  <2>3. P!Fenced(g, "match").at = "match"
    BY <1>1 DEF P!Graph, P!Fenced
  <2>4. (P!FenceAllows /\ P!Leave(w, new)) \/ (~P!FenceAllows /\ P!Leave(w, P!Fenced(g, "match")))
    BY <1>6 DEF P!Project
  <2> HIDE DEF new
  <2>5. Sound(new, activity') /\ (~P!FenceAllows => Sound(P!Fenced(g, "match"), activity'))
    BY <1>2, <1>3, <1>4, <2>2, <2>3 DEF Sound, Asked
  <2> QED BY <2>1, <2>4, <2>5, LeaveMoves
<1>7. CASE P!Match(w)
  <2> DEFINE h == [g EXCEPT !.at = "execute", !.plan = "none"]
             none == [h EXCEPT !.skip = TRUE, !.error = TRUE]
  <2>0. "execute" \in P!Nodes /\ "none" \in P!Plan
    BY DEF P!Nodes, P!Plan
  <2>1. h \in P!Graph
    BY <1>1, <2>0, GraphUpdates
  <2>2. h.at = "execute" /\ h.plan = "none" /\ h.fenced = g.fenced
    BY <1>1 DEF P!Graph
  <2>3. \/ /\ ~h.fenced
           /\ run' = [run EXCEPT ![w] = [@ EXCEPT !.pc = "enter", !.sees = P!Idle.sees, !.failed = TRUE, !.g = none]]
        \/ \E plan \in P!Plans(run[w].sees) : P!Leave(w, [h EXCEPT !.plan = plan])
        \/ (h.fenced \/ ~P!FenceAllows) /\ P!Leave(w, P!Fenced(h, "execute"))
    BY <1>7 DEF P!Match
  <2> HIDE DEF h
  <2>4. CASE run' = [run EXCEPT ![w] = [@ EXCEPT !.pc = "enter", !.sees = P!Idle.sees, !.failed = TRUE, !.g = none]]
    <3> DEFINE x == [run[w] EXCEPT !.pc = "enter", !.sees = P!Idle.sees, !.failed = TRUE, !.g = none]
    <3>1. none \in P!Graph
      BY <2>1, GraphUpdates
    <3>2. none.skip = TRUE /\ none.fenced = g.fenced
      BY <2>1, <2>2 DEF P!Graph
    <3> HIDE DEF none
    <3>3. P!Idle.sees \in P!Snapshot
      BY DEF P!Idle, P!Snapshot, P!NextStatus, P!TaskStatus
    <3>4. x \in P!Run
      BY <1>1, <3>1, <3>3, Zenon DEF P!Run
    <3>5. x.pc = "enter" /\ x.g = none
      BY <1>1 DEF P!Run
    <3>6. run' = [run EXCEPT ![w] = x]
      BY <2>4 DEF FlowInv, P!TypeOK
    <3> HIDE DEF x
    <3>7. Placed(x) /\ Sound(none, activity')
      BY <1>2, <1>3, <3>2, <3>5 DEF Placed, P!Nodes, Sound
    <3> QED BY <3>4, <3>5, <3>6, <3>7 DEF Moves
  <2>5. ASSUME NEW plan \in P!Plans(run[w].sees), P!Leave(w, [h EXCEPT !.plan = plan]) PROVE Moves
    <3> DEFINE new == [h EXCEPT !.plan = plan]
    <3>1. plan \in P!Plan /\ plan # "unasked"
      BY DEF P!Plans, P!Plan
    <3>2. new \in P!Graph
      BY <2>1, <3>1, GraphUpdates
    <3>3. new.plan = plan /\ new.fenced = g.fenced
      BY <2>1, <2>2 DEF P!Graph
    <3> HIDE DEF new
    <3>4. Sound(new, activity')
      BY <1>2, <1>3, <3>1, <3>3 DEF Sound
    <3> QED BY <2>5, <3>2, <3>4, LeaveMoves DEF new
  <2>6. CASE (h.fenced \/ ~P!FenceAllows) /\ P!Leave(w, P!Fenced(h, "execute"))
    <3>1. P!Fenced(h, "execute") \in P!Graph
      BY <2>0, <2>1, GraphUpdates
    <3>2. P!Fenced(h, "execute").plan = "none"
      BY <2>1, <2>2 DEF P!Graph, P!Fenced
    <3>3. Sound(P!Fenced(h, "execute"), activity')
      BY <1>2, <1>3, <1>4, <2>2, <2>6, <3>2 DEF Sound
    <3> QED BY <2>6, <3>1, <3>3, LeaveMoves
  <2> QED BY <2>3, <2>4, <2>5, <2>6
\* The last three nodes go on behind the question; the fence ends in a skip.
<1>8. ASSUME NEW at \in Asked \ {"execute"}, g.at \in Asked
      PROVE  /\ [g EXCEPT !.at = at] \in P!Graph /\ [P!Fenced(g, at) EXCEPT !.skip = TRUE] \in P!Graph
             /\ Sound([g EXCEPT !.at = at], activity)
             /\ ~P!FenceAllows => Sound([P!Fenced(g, at) EXCEPT !.skip = TRUE], activity)
  <2> DEFINE new == [g EXCEPT !.at = at]
             fenced == [P!Fenced(g, at) EXCEPT !.skip = TRUE]
  <2>1. at \in P!Nodes \cup {"finish"}
    BY DEF Asked, P!Nodes
  <2>2. new \in P!Graph /\ P!Fenced(g, at) \in P!Graph
    BY <1>1, <2>1, GraphUpdates
  <2>3. fenced \in P!Graph
    BY <2>2, GraphUpdates
  <2>4. new.plan = g.plan /\ new.fenced = g.fenced /\ new.skip = g.skip
    BY <1>1 DEF P!Graph
  <2>5. fenced.skip = TRUE
    BY <2>2 DEF P!Graph
  <2> HIDE DEF new, fenced
  <2>6. Sound(new, activity)
    BY <1>2, <1>8, <2>4 DEF Sound
  <2>7. ~P!FenceAllows => Sound(fenced, activity)
    BY <1>4, <2>5 DEF Sound
  <2> QED BY <2>2, <2>3, <2>6, <2>7 DEF new, fenced
<1>9. CASE P!Execute(w)
  <2> DEFINE new == [g EXCEPT !.at = "cases"]
             fenced == [P!Fenced(g, "cases") EXCEPT !.skip = TRUE]
  <2>1. g.at \in Asked
    BY <1>2, <1>9 DEF P!Execute, Placed, P!Nodes, Asked
  <2>2. \/ P!Leave(w, new)
        \/ ~P!FenceAllows /\ P!Leave(w, [P!Fenced(new, "cases") EXCEPT !.skip = TRUE])
    BY <1>9 DEF P!Execute
  <2>3. P!Fenced(new, "cases") = P!Fenced(g, "cases")
    BY <1>1 DEF P!Fenced, P!Graph
  <2>4. P!Leave(w, new) \/ (~P!FenceAllows /\ P!Leave(w, fenced))
    BY <2>2, <2>3
  <2>5. "cases" \in Asked \ {"execute"}
    BY DEF Asked
  <2>6. /\ new \in P!Graph /\ fenced \in P!Graph
        /\ Sound(new, activity)
        /\ ~P!FenceAllows => Sound(fenced, activity)
    BY <1>8, <2>1, <2>5
  <2> HIDE DEF new, fenced
  <2> QED BY <1>3, <2>4, <2>6, LeaveMoves
<1>10. CASE P!CreateCases(w)
  <2> DEFINE new == [g EXCEPT !.at = "deliver"]
             fenced == [P!Fenced(g, "deliver") EXCEPT !.skip = TRUE]
  <2>1. g.at \in Asked
    BY <1>2, <1>10 DEF P!CreateCases, Placed, P!Nodes, Asked
  <2>2. \/ P!Leave(w, new)
        \/ ~P!FenceAllows /\ P!Leave(w, [P!Fenced(new, "deliver") EXCEPT !.skip = TRUE])
    BY <1>10 DEF P!CreateCases
  <2>3. P!Fenced(new, "deliver") = P!Fenced(g, "deliver")
    BY <1>1 DEF P!Fenced, P!Graph
  <2>4. P!Leave(w, new) \/ (~P!FenceAllows /\ P!Leave(w, fenced))
    BY <2>2, <2>3
  <2>5. "deliver" \in Asked \ {"execute"}
    BY DEF Asked
  <2>6. /\ new \in P!Graph /\ fenced \in P!Graph
        /\ Sound(new, activity)
        /\ ~P!FenceAllows => Sound(fenced, activity)
    BY <1>8, <2>1, <2>5
  <2> HIDE DEF new, fenced
  <2> QED BY <1>3, <2>4, <2>6, LeaveMoves
<1>11. CASE P!Deliver(w)
  <2> DEFINE new == [g EXCEPT !.at = "finish"]
             fenced == [P!Fenced(g, "finish") EXCEPT !.skip = TRUE]
  <2>1. g.at \in Asked
    BY <1>2, <1>11 DEF P!Deliver, Placed, P!Nodes, Asked
  <2>2. \/ P!Leave(w, new)
        \/ ~P!FenceAllows /\ P!Leave(w, [P!Fenced(new, "finish") EXCEPT !.skip = TRUE])
    BY <1>11 DEF P!Deliver
  <2>3. P!Fenced(new, "finish") = P!Fenced(g, "finish")
    BY <1>1 DEF P!Fenced, P!Graph
  <2>4. P!Leave(w, new) \/ (~P!FenceAllows /\ P!Leave(w, fenced))
    BY <2>2, <2>3
  <2>5. "finish" \in Asked \ {"execute"}
    BY DEF Asked
  <2>6. /\ new \in P!Graph /\ fenced \in P!Graph
        /\ Sound(new, activity)
        /\ ~P!FenceAllows => Sound(fenced, activity)
    BY <1>8, <2>1, <2>5
  <2> HIDE DEF new, fenced
  <2> QED BY <1>3, <2>4, <2>6, LeaveMoves
<1> QED BY <1>5, <1>6, <1>7, <1>9, <1>10, <1>11

-----------------------------------------------------------------------------
(* The other steps of a run. *)

\* What run() does around the graph keeps the state sound.
LEMMA ControlMoves ==
    ASSUME FlowInv, NEW w \in Workers,
           \/ P!Peek(w) \/ P!Claim(w) \/ P!Terminalize(w) \/ P!Start(w) \/ P!Enter(w)
           \/ P!Finish(w) \/ P!GraphRaises(w) \/ P!RecordFailure(w) \/ P!Crash(w)
    PROVE  Moves
<1>1. run[w].g \in P!Graph /\ run[w] \in P!Run /\ thread \in P!Graph
  BY DEF FlowInv, P!TypeOK, P!Run
<1>2. Sound(run[w].g, activity) /\ Sound(thread, activity)
  BY DEF FlowInv
<1>3. activity' = activity
  BY DEF P!Peek, P!Claim, P!Terminalize, P!Start, P!Enter, P!Finish, P!GraphRaises, P!RecordFailure, P!Crash, P!rows
<1>4. CASE P!Peek(w) \/ P!GraphRaises(w)
  <2>1. \E pc \in {"claim", "terminalize", "fail"} : P!Goto(w, pc)
    BY <1>4 DEF P!Peek, P!GraphRaises
  <2> QED BY <1>3, <2>1, GotoMoves
<1>5. CASE P!Stop(w)
  BY <1>5, StopMoves
<1>6. CASE P!Claim(w) /\ ~P!Stop(w)
  <2> DEFINE tries == job'.attempts
             x == [run[w] EXCEPT !.pc = "start", !.tries = tries]
  <2>1. P!Claimable(job) /\ job' = P!Claimed(job, w)
        /\ run' = [run EXCEPT ![w].pc = "start", ![w].tries = job'.attempts]
    BY <1>6 DEF P!Claim
  <2>2. tries \in 0 .. MaxAttempts
    BY <2>1, LeasedJobAssumption DEF P!Claimable, P!Claimed, FlowInv, P!TypeOK, P!Row
  <2>3. run' = [run EXCEPT ![w] = x]
    BY <2>1 DEF FlowInv, P!TypeOK
  <2> HIDE DEF tries
  <2>4. x \in P!Run
    BY <1>1, <2>2, Zenon DEF P!Run
  <2>5. x.pc = "start" /\ x.g = run[w].g
    BY <1>1 DEF P!Run
  <2> HIDE DEF x
  <2>6. Placed(x) /\ Sound(x.g, activity')
    BY <1>2, <1>3, <2>5 DEF Placed, P!Nodes
  <2> QED BY <2>3, <2>4, <2>6 DEF Moves
<1>7. CASE P!Start(w) /\ ~P!Stop(w)
  <2>1. PICK at \in {"load", thread.at} :
           run' = [run EXCEPT ![w].pc = "enter", ![w].g = [thread EXCEPT !.at = at]]
    BY <1>7 DEF P!Start
  <2> DEFINE g == [thread EXCEPT !.at = at]
             x == [run[w] EXCEPT !.pc = "enter", !.g = g]
  <2>2. at \in P!Nodes \cup {"finish"}
    BY <1>1, <2>1 DEF P!Graph, P!Nodes
  <2>3. g \in P!Graph
    BY <1>1, <2>2, GraphUpdates
  <2>4. g.at = at /\ g.plan = thread.plan /\ g.skip = thread.skip /\ g.fenced = thread.fenced
    BY <1>1 DEF P!Graph
  <2>5. run' = [run EXCEPT ![w] = x]
    BY <2>1 DEF FlowInv, P!TypeOK
  <2> HIDE DEF g
  <2>6. x \in P!Run
    BY <1>1, <2>3, Zenon DEF P!Run
  <2>7. x.pc = "enter" /\ x.g = g
    BY <1>1 DEF P!Run
  <2> HIDE DEF x
  <2>8. Placed(x)
    BY <2>7 DEF Placed, P!Nodes
  <2>9. Sound(g, activity')
    BY <1>2, <1>3, <2>1, <2>4 DEF Sound, Asked
  <2> QED BY <2>5, <2>6, <2>7, <2>8, <2>9 DEF Moves
<1>8. CASE P!Enter(w)
  <2> DEFINE x == [run[w] EXCEPT !.pc = run[w].g.at, !.sees = P!Now]
  <2>1. run' = [run EXCEPT ![w] = x]
    BY <1>8 DEF P!Enter, FlowInv, P!TypeOK
  <2>2. P!Now \in P!Snapshot
    BY DEF P!Now, P!Snapshot, FlowInv, P!TypeOK
  <2>3. run[w].g.at \in {"finish"} \cup P!Nodes
    BY <1>1 DEF P!Graph
  <2>4. x \in P!Run
    BY <1>1, <2>2, <2>3, Zenon DEF P!Run
  <2>5. x.pc = run[w].g.at /\ x.g = run[w].g
    BY <1>1 DEF P!Run
  <2> HIDE DEF x
  <2>6. Placed(x) /\ Sound(x.g, activity')
    BY <1>2, <1>3, <2>5 DEF Placed
  <2> QED BY <2>1, <2>4, <2>6 DEF Moves
<1> QED BY <1>4, <1>5, <1>6, <1>7, <1>8 DEF P!Claim, P!Terminalize, P!Start, P!Finish, P!RecordFailure, P!Crash

-----------------------------------------------------------------------------
(* The steps of the user and of time leave the runs alone. *)

OtherSteps ==
    \/ \E act \in UserActs : P!Request(act)
    \/ P!UserCloses \/ P!UserReplies \/ P!UserDeletes
    \/ P!LeaseExpires \/ P!Due

RunStep(w) ==
    \/ P!Peek(w) \/ P!Claim(w) \/ P!Terminalize(w) \/ P!Start(w) \/ P!Enter(w)
    \/ P!Load(w) \/ P!Project(w) \/ P!Match(w) \/ P!Execute(w) \/ P!CreateCases(w) \/ P!Deliver(w)
    \/ P!Finish(w) \/ P!RecordFailure(w) \/ P!GraphRaises(w) \/ P!Crash(w)

\* A step is one of a run or one of somebody else.
LEMMA StepKinds ==
    ASSUME P!Next
    PROVE  (\E w \in Workers : RunStep(w)) \/ OtherSteps
BY Zenon DEF P!Next, P!RunProgress, P!Kick, P!Recover, RunStep, OtherSteps

\* Users and the clock do not touch the runs.
LEMMA OtherStepsLeaveRuns ==
    ASSUME OtherSteps
    PROVE  run' = run /\ thread' = thread
BY DEF OtherSteps, P!Request, P!UserCloses, P!UserReplies, P!UserDeletes, P!LeaseExpires, P!Due

\* Runs do not touch the activity, nor what the user has asked for.
LEMMA RunStepsLeaveUsers ==
    ASSUME NEW w \in Workers, RunStep(w)
    PROVE  user' = user /\ activity' = activity
BY DEF RunStep, P!Peek, P!Claim, P!Terminalize, P!Start, P!Enter, P!Load, P!Project, P!Match, P!Execute, P!CreateCases,
       P!Deliver, P!Finish, P!RecordFailure, P!GraphRaises, P!Crash, P!rows

\* Every step of a run moves one run, soundly.
LEMMA RunStepMoves ==
    ASSUME FlowInv, NEW w \in Workers, RunStep(w)
    PROVE  Moves
BY NodeMoves, ControlMoves, Zenon DEF RunStep

-----------------------------------------------------------------------------
(* The job. *)

\* Whatever a step does to the row, it keeps the type, leaves a settled row
\* alone, and only a running row has a lease.
JobKept == job' \in P!Row /\ (job'.live => job'.status = "RUNNING")
           /\ (job.status \in P!Terminal => job' = job)

\* A job that is closed.
LEMMA ClosingTheJob ==
    ASSUME FlowInv, NEW outcome \in P!Terminal, job.status \notin P!Terminal, job' = P!Closed(job, outcome)
    PROVE  JobKept
BY JobRowTyped DEF FlowInv, JobKept, P!Closed, P!FreeRow

\* A job whose attempt failed.
LEMMA FailingTheJob ==
    ASSUME FlowInv, NEW tries, job.status \notin P!Terminal, job' = P!AfterFailure(tries)
    PROVE  JobKept
<1>1. CASE job' = P!Closed(job, "EXHAUSTED")
  BY <1>1, ClosingTheJob DEF P!Terminal
<1>2. CASE job' = P!RetryLater(job)
  BY <1>2, JobRowTyped DEF FlowInv, JobKept, P!RetryLater, P!FreeRow
<1> QED BY <1>1, <1>2 DEF P!AfterFailure

\* A job that is left alone.
LEMMA LeavingTheJob ==
    ASSUME FlowInv, job' = job
    PROVE  JobKept
BY DEF FlowInv, P!TypeOK, Leased, JobKept

\* No step gives a settled job another status, and only a running job a lease.
LEMMA StepKeepsJob ==
    ASSUME FlowInv, P!Next
    PROVE  JobKept
<1>1. \A w \in Workers : P!OwnsLease(job, w) => job.status \notin P!Terminal
  BY DEF P!OwnsLease, P!Terminal
<1>2. "EXHAUSTED" \in P!Terminal /\ "SKIPPED" \in P!Terminal /\ "COMPLETED" \in P!Terminal
  BY DEF P!Terminal
<1>3. ASSUME NEW w \in Workers, P!Claim(w) PROVE JobKept
  <2>1. CASE P!Claimable(job) /\ job' = P!Claimed(job, w)
    <3>1. job.status \notin P!Terminal
      BY <2>1 DEF P!Claimable, P!Lapsed, P!Terminal
    <3>2. job' \in P!Row
      BY <2>1, JobRowTyped DEF FlowInv
    <3>3. job'.status = "RUNNING"
      BY <2>1 DEF P!Claimed
    <3> QED BY <3>1, <3>2, <3>3 DEF JobKept
  <2> QED BY <1>3, <2>1, LeavingTheJob DEF P!Claim
<1>4. ASSUME NEW w \in Workers, P!Terminalize(w) PROVE JobKept
  <2>1. P!SpentAndFree(job) => job.status \notin P!Terminal
    BY DEF P!SpentAndFree, P!Terminal
  <2> QED BY <1>2, <1>4, <2>1, ClosingTheJob, LeavingTheJob DEF P!Terminalize
<1>5. ASSUME NEW w \in Workers, P!Start(w) PROVE JobKept
  BY <1>1, <1>2, <1>5, ClosingTheJob, LeavingTheJob DEF P!Start
<1>6. ASSUME NEW w \in Workers, P!Finish(w) PROVE JobKept
  <2>1. CASE ~P!OwnsLease(job, w)
    BY <1>6, <2>1, LeavingTheJob DEF P!Finish
  <2>2. CASE P!OwnsLease(job, w)
    <3>1. \/ job' = P!AfterFailure(run[w].tries)
          \/ \E outcome \in P!Terminal : job' = P!Closed(job, outcome)
      BY <1>2, <1>6, <2>2 DEF P!Finish, P!Outcome
    <3> QED BY <1>1, <2>2, <3>1, FailingTheJob, ClosingTheJob
  <2> QED BY <2>1, <2>2
<1>7. ASSUME NEW w \in Workers, P!RecordFailure(w) PROVE JobKept
  BY <1>1, <1>7, FailingTheJob, LeavingTheJob DEF P!RecordFailure
<1>8. CASE P!UserDeletes
  BY <1>2, <1>8, ClosingTheJob, LeavingTheJob DEF P!UserDeletes, P!JobAfterDeletion
<1>9. CASE P!LeaseExpires
  <2>1. job.status = "RUNNING" /\ job' = [job EXCEPT !.live = FALSE] /\ job \in P!Row
    BY <1>9 DEF P!LeaseExpires, FlowInv, Leased, P!TypeOK
  <2>2. job' \in P!Row
    BY <2>1, JobRowTyped DEF FlowInv
  <2>3. job'.live = FALSE
    BY <2>1 DEF P!Row
  <2> QED BY <2>1, <2>2, <2>3 DEF JobKept, P!Terminal
<1>10. CASE P!Due
  <2>1. job.status = "FAILED" /\ job' = [job EXCEPT !.due = TRUE] /\ job \in P!Row
    BY <1>10 DEF P!Due, FlowInv, P!TypeOK
  <2>2. job' \in P!Row
    BY <2>1, JobRowTyped DEF FlowInv
  <2>3. job'.live = job.live /\ job'.status = job.status
    BY <2>1 DEF P!Row
  <2> QED BY <2>1, <2>2, <2>3 DEF JobKept, P!Terminal, FlowInv, Leased
<1>11. ASSUME NEW w \in Workers,
              \/ P!Peek(w) \/ P!Enter(w) \/ P!Load(w) \/ P!Project(w) \/ P!Match(w) \/ P!Execute(w)
              \/ P!CreateCases(w) \/ P!Deliver(w) \/ P!GraphRaises(w) \/ P!Crash(w)
       PROVE  JobKept
  <2>1. job' = job
    BY <1>11 DEF P!Peek, P!Enter, P!Load, P!Project, P!Match, P!Execute, P!CreateCases, P!Deliver, P!GraphRaises, P!Crash
  <2> QED BY <2>1, LeavingTheJob
<1>12. CASE (\E act \in UserActs : P!Request(act)) \/ P!UserCloses \/ P!UserReplies
  <2>1. job' = job
    BY <1>12 DEF P!Request, P!UserCloses, P!UserReplies
  <2> QED BY <2>1, LeavingTheJob
<1> QED BY <1>3, <1>4, <1>5, <1>6, <1>7, <1>8, <1>9, <1>10, <1>11, <1>12, StepKinds
        DEF RunStep, OtherSteps

-----------------------------------------------------------------------------
(* The rows. *)

\* The rows of tasks, events and cases keep their types.
LEMMA TaskRowsTyped ==
    ASSUME FlowInv, P!Next
    PROVE  /\ activity' \in {"live", "deleted"}
           /\ nextTask' \in P!NextStatus /\ task' \in P!TaskStatus /\ closings' \in Nat
           /\ case' \in {"none", "PENDING", "RESOLVED", "CANCELLED"}
<1> USE DEF P!NextStatus, P!TaskStatus
<1>1. /\ activity \in {"live", "deleted"}
      /\ nextTask \in P!NextStatus /\ task \in P!TaskStatus /\ closings \in Nat
      /\ case \in {"none", "PENDING", "RESOLVED", "CANCELLED"}
  BY DEF FlowInv, P!TypeOK
<1>2. P!CaseWithdrawn \in {"none", "PENDING", "RESOLVED", "CANCELLED"}
  BY <1>1 DEF P!CaseWithdrawn
<1>3. ASSUME NEW w \in Workers, P!Project(w)
      PROVE  nextTask' \in {nextTask, "OPEN"}
             /\ UNCHANGED <<activity, task, closings, case>>
  BY <1>3 DEF P!Project
<1>4. ASSUME NEW w \in Workers, P!Execute(w)
      PROVE  /\ UNCHANGED <<activity, nextTask>>
             /\ UNCHANGED <<task, closings, case>> \/ P!CloseTask
  BY <1>4 DEF P!Execute
<1>5. ASSUME NEW w \in Workers, P!CreateCases(w) \/ P!Deliver(w)
      PROVE  case' \in {case, "PENDING", P!CaseWithdrawn}
             /\ UNCHANGED <<activity, nextTask, task, closings>>
  BY <1>5 DEF P!CreateCases, P!Deliver, P!CasesAfter
<1>6. ASSUME NEW w \in Workers,
             \/ P!Peek(w) \/ P!Claim(w) \/ P!Terminalize(w) \/ P!Start(w) \/ P!Enter(w) \/ P!Load(w) \/ P!Match(w)
             \/ P!Finish(w) \/ P!RecordFailure(w) \/ P!GraphRaises(w) \/ P!Crash(w)
      PROVE  UNCHANGED P!rows
  BY <1>6 DEF P!Peek, P!Claim, P!Terminalize, P!Start, P!Enter, P!Load, P!Match, P!Finish, P!RecordFailure,
              P!GraphRaises, P!Crash
<1>7. ASSUME (\E act \in UserActs : P!Request(act)) \/ P!LeaseExpires \/ P!Due
      PROVE  UNCHANGED P!rows
  BY <1>7 DEF P!Request, P!LeaseExpires, P!Due
<1>8. ASSUME P!UserCloses
      PROVE  UNCHANGED <<activity, nextTask>> /\ P!CloseTask
  BY <1>8 DEF P!UserCloses
<1>9. ASSUME P!UserReplies
      PROVE  /\ UNCHANGED <<activity, nextTask>>
             /\ case' \in {case, "RESOLVED"} /\ task' \in {task, "COMPLETED"}
             /\ closings' \in {closings, closings + 1}
  BY <1>9 DEF P!UserReplies
<1>10. ASSUME P!UserDeletes
       PROVE  /\ activity' = "deleted" /\ nextTask' \in {nextTask, "CANCELLED"}
              /\ UNCHANGED <<task, closings, case>>
  BY <1>10 DEF P!UserDeletes
<1>11. CASE \E w \in Workers : RunStep(w)
  BY <1>1, <1>2, <1>3, <1>4, <1>5, <1>6, <1>11 DEF RunStep, P!CloseTask, P!rows
<1>12. CASE OtherSteps
  BY <1>1, <1>2, <1>7, <1>8, <1>9, <1>10, <1>12 DEF OtherSteps, P!CloseTask, P!rows
<1> QED BY <1>11, <1>12, StepKinds

\* The user's request keeps its type, and crashes their bound.
LEMMA UserTyped ==
    ASSUME FlowInv, P!Next
    PROVE  user' \in [act : UserActs \cup {"none"}, sees : P!Snapshot] /\ crashes' \in 0 .. MaxCrashes
<1>1. P!Now \in P!Snapshot /\ P!Idle.sees \in P!Snapshot
  BY DEF P!Now, P!Idle, P!Snapshot, P!NextStatus, P!TaskStatus, FlowInv, P!TypeOK
<1>2. crashes \in 0 .. MaxCrashes /\ user \in [act : UserActs \cup {"none"}, sees : P!Snapshot]
  BY DEF FlowInv, P!TypeOK
<1>3. user' \in [act : UserActs \cup {"none"}, sees : P!Snapshot]
  <2>1. CASE \E w \in Workers : RunStep(w)
    BY <1>2, <2>1, RunStepsLeaveUsers
  <2>2. ASSUME NEW act \in UserActs, P!Request(act)
        PROVE  user' \in [act : UserActs \cup {"none"}, sees : P!Snapshot]
    BY <1>1, <2>2 DEF P!Request
  <2>3. CASE P!UserCloses \/ P!UserReplies \/ P!UserDeletes
    BY <1>1, <2>3 DEF P!UserCloses, P!UserReplies, P!UserDeletes, P!NoRequest
  <2>4. CASE P!LeaseExpires \/ P!Due
    BY <1>2, <2>4 DEF P!LeaseExpires, P!Due
  <2> QED BY <2>1, <2>2, <2>3, <2>4, StepKinds DEF OtherSteps
<1>4. crashes' = crashes \/ (crashes < MaxCrashes /\ crashes' = crashes + 1)
  <2>1. CASE \E w \in Workers : RunStep(w)
    BY <2>1 DEF RunStep, P!Peek, P!Claim, P!Terminalize, P!Start, P!Enter, P!Load, P!Project, P!Match, P!Execute,
                P!CreateCases, P!Deliver, P!Finish, P!RecordFailure, P!GraphRaises, P!Crash
  <2>2. CASE OtherSteps
    BY <2>2 DEF OtherSteps, P!Request, P!UserCloses, P!UserReplies, P!UserDeletes, P!LeaseExpires, P!Due
  <2> QED BY <2>1, <2>2, StepKinds
<1>5. crashes' \in 0 .. MaxCrashes
  <2>1. MaxCrashes \in Nat
    BY DEF FlowInv, P!PostCommitAssumption
  <2> QED BY <1>2, <1>4, <2>1
<1> QED BY <1>3, <1>5

\* What is saved of the graph is what a run held.
LEMMA ThreadSound ==
    ASSUME FlowInv, P!Next
    PROVE  thread' \in P!Graph /\ Sound(thread', activity')
<1>1. thread \in P!Graph /\ Sound(thread, activity)
      /\ \A w \in Workers : run[w].g \in P!Graph /\ Sound(run[w].g, activity)
  BY DEF FlowInv, P!TypeOK, P!Run
<1>2. activity' = activity \/ activity' = "deleted"
  <2>1. P!UserDeletes => activity' = "deleted"
    BY DEF P!UserDeletes
  <2>2. OtherSteps /\ ~P!UserDeletes => activity' = activity
    BY DEF OtherSteps, P!Request, P!UserCloses, P!UserReplies, P!LeaseExpires, P!Due, P!rows
  <2> QED BY <2>1, <2>2, StepKinds, RunStepsLeaveUsers
<1>3. thread' = thread \/ \E w \in Workers : thread' = run[w].g
  <2>1. ASSUME NEW w \in Workers, RunStep(w), ~P!Enter(w) PROVE thread' = thread
    BY <2>1 DEF RunStep, P!Peek, P!Claim, P!Terminalize, P!Start, P!Load, P!Project, P!Match, P!Execute,
                P!CreateCases, P!Deliver, P!Finish, P!RecordFailure, P!GraphRaises, P!Crash
  <2>2. ASSUME NEW w \in Workers, P!Enter(w) PROVE thread' = run[w].g
    BY <2>2 DEF P!Enter
  <2> QED BY <2>1, <2>2, StepKinds, OtherStepsLeaveRuns
<1> QED BY <1>1, <1>2, <1>3 DEF Sound

-----------------------------------------------------------------------------
(* The invariant holds. *)

\* The invariant holds at first.
LEMMA FlowInit ==
    ASSUME P!PostCommitAssumption, P!Init
    PROVE  FlowInv
<1>0. MaxCrashes \in Nat
  BY DEF P!PostCommitAssumption
<1>1. P!QueuedRow \in P!Row
  BY LeasedJobAssumption DEF P!QueuedRow, P!FreeRow, P!Row, P!Status
<1>2. P!NoRequest \in [act : UserActs \cup {"none"}, sees : P!Snapshot]
  BY DEF P!NoRequest, P!Idle, P!Snapshot, P!NextStatus, P!TaskStatus
<1>3. P!TypeOK
  BY <1>0, <1>1, <1>2, FlowIdleTyped DEF P!Init, P!TypeOK, P!NextStatus, P!TaskStatus
<1>4. Leased /\ P!DeletedMeansSettled
  BY DEF P!Init, Leased, P!DeletedMeansSettled, P!QueuedRow, P!FreeRow
<1>5. Sound(P!NewGraph, activity) /\ Placed(P!Idle) /\ P!Idle.g = P!NewGraph
  BY DEF P!NewGraph, Sound, Asked, Placed, P!Idle, P!Nodes
<1>6. thread = P!NewGraph /\ \A w \in Workers : run[w] = P!Idle
  BY DEF P!Init
<1> QED BY <1>3, <1>4, <1>5, <1>6 DEF FlowInv

\* A sound state stays sound when the activity is deleted.
LEMMA SoundLater ==
    ASSUME NEW g, Sound(g, activity), activity' = activity \/ activity' = "deleted"
    PROVE  Sound(g, activity')
BY DEF Sound

\* Every step keeps the invariant.
LEMMA FlowStep ==
    ASSUME FlowInv, P!Next
    PROVE  FlowInv'
<1>1. JobKept
  BY StepKeepsJob
<1>2. Leased'
  BY <1>1 DEF JobKept, Leased
<1>3. activity' = activity \/ (activity' = "deleted" /\ P!UserDeletes)
  <2>1. OtherSteps /\ ~P!UserDeletes => activity' = activity
    BY DEF OtherSteps, P!Request, P!UserCloses, P!UserReplies, P!LeaseExpires, P!Due, P!rows
  <2>2. P!UserDeletes => activity' = "deleted"
    BY DEF P!UserDeletes
  <2> QED BY <2>1, <2>2, StepKinds, RunStepsLeaveUsers
<1>4. P!DeletedMeansSettled'
  <2>1. P!UserDeletes => job'.status \in P!Terminal
    BY DEF P!UserDeletes, P!JobAfterDeletion, P!Closed, P!FreeRow, P!Terminal
  <2>2. activity = "deleted" => job' = job /\ job.status \in P!Terminal
    BY <1>1 DEF FlowInv, P!DeletedMeansSettled, JobKept
  <2> QED BY <1>3, <2>1, <2>2 DEF P!DeletedMeansSettled
<1>5. Moves
  BY StepKinds, RunStepMoves, OtherStepsLeaveRuns DEF Moves
<1>6. run' \in [Workers -> P!Run]
  <2>1. run \in [Workers -> P!Run]
    BY DEF FlowInv, P!TypeOK
  <2> QED BY <1>5, <2>1 DEF Moves
<1>7. P!TypeOK'
  <2>1. job' \in P!Row /\ thread' \in P!Graph
    BY <1>1, ThreadSound DEF JobKept
  <2> QED BY <1>6, <2>1, TaskRowsTyped, UserTyped DEF P!TypeOK
<1>8. ASSUME NEW w \in Workers PROVE Sound(run'[w].g, activity') /\ Placed(run'[w])
  <2>1. run \in [Workers -> P!Run] /\ Sound(run[w].g, activity) /\ Placed(run[w])
    BY DEF FlowInv, P!TypeOK
  <2>2. Sound(run[w].g, activity')
    BY <1>3, <2>1, SoundLater
  <2>3. CASE run'[w] = run[w]
    BY <2>1, <2>2, <2>3
  <2>4. ASSUME NEW x \in P!Run, run'[w] = x, Sound(x.g, activity'), Placed(x)
        PROVE  Sound(run'[w].g, activity') /\ Placed(run'[w])
    BY <2>4
  <2> QED BY <1>5, <2>1, <2>3, <2>4 DEF Moves
<1> QED BY <1>2, <1>4, <1>7, <1>8, ThreadSound DEF FlowInv

\* The invariant holds always.
LEMMA FlowInvAlways ==
    ASSUME P!PostCommitAssumption
    PROVE  P!Spec => []FlowInv
<1>1. P!Init => FlowInv
  BY FlowInit
<1>2. FlowInv /\ [P!Next]_(P!vars) => FlowInv'
  <2>1. FlowInv /\ UNCHANGED P!vars => FlowInv'
    BY DEF FlowInv, P!TypeOK, Leased, P!DeletedMeansSettled, Sound, Placed, P!vars
  <2> QED BY <2>1, FlowStep
<1> QED BY <1>1, <1>2, PTL DEF P!Spec

-----------------------------------------------------------------------------
(* The theorems. *)

\* The rows, the saved graph, the runs and the user's request keep their types, for
\* any number of workers, attempts and crashes.
THEOREM FlowTypeCorrect ==
    ASSUME P!PostCommitAssumption
    PROVE  P!Spec => []P!TypeOK
<1>1. FlowInv => P!TypeOK
  BY DEF FlowInv
<1> QED BY <1>1, FlowInvAlways, PTL

\* DeletedMeansSettled: the deletion of an activity closes its post-commit job,
\* whoever holds a live lease on it, and nothing opens it again.
THEOREM DeletionSettlesTheJob ==
    ASSUME P!PostCommitAssumption
    PROVE  P!Spec => []P!DeletedMeansSettled
<1>1. FlowInv => P!DeletedMeansSettled
  BY DEF FlowInv
<1> QED BY <1>1, FlowInvAlways, PTL

\* SettledIsFinal: a settled job is never written again, by no late run, retry or
\* recovery scan.
THEOREM SettledForGood ==
    ASSUME P!PostCommitAssumption
    PROVE  P!Spec => P!SettledIsFinal
<1>1. ASSUME FlowInv, [P!Next]_(P!vars) PROVE job.status \in P!Terminal => job' = job
  BY <1>1, StepKeepsJob DEF JobKept, P!vars
<1> QED BY <1>1, FlowInvAlways, PTL DEF P!Spec, P!SettledIsFinal

\* Without the fence nothing is added, and what a withdrawal leaves of a case
\* is the case or a cancelled one.
LEMMA FencedStep ==
    ASSUME NEW w \in Workers, RunStep(w), activity = "deleted"
    PROVE  nextTask' = nextTask /\ task' = task /\ case' \in {case, "CANCELLED"}
<1>1. ~P!FenceAllows
  BY DEF P!FenceAllows
<1>2. P!CaseWithdrawn \in {case, "CANCELLED"}
  BY DEF P!CaseWithdrawn
<1>3. CASE P!Project(w)
  BY <1>1, <1>3 DEF P!Project
<1>4. CASE P!Execute(w)
  BY <1>1, <1>4 DEF P!Execute
<1>5. CASE P!CreateCases(w)
  BY <1>1, <1>5 DEF P!CreateCases
<1>6. CASE P!Deliver(w)
  BY <1>1, <1>2, <1>6 DEF P!Deliver
<1>7. CASE \/ P!Peek(w) \/ P!Claim(w) \/ P!Terminalize(w) \/ P!Start(w) \/ P!Enter(w) \/ P!Load(w) \/ P!Match(w)
           \/ P!Finish(w) \/ P!RecordFailure(w) \/ P!GraphRaises(w) \/ P!Crash(w)
  BY <1>7 DEF P!Peek, P!Claim, P!Terminalize, P!Start, P!Enter, P!Load, P!Match, P!Finish, P!RecordFailure,
              P!GraphRaises, P!Crash, P!rows
<1> QED BY <1>3, <1>4, <1>5, <1>6, <1>7 DEF RunStep

\* NoEffectAfterDeletion: once the activity is deleted, no run, however far its graph
\* had come, projects a task, closes one or opens a case.
THEOREM DeletionFencesTheRuns == P!Spec => P!NoEffectAfterDeletion
<1>1. ASSUME [P!Next]_(P!vars), activity = "deleted", P!RunSteps
      PROVE  nextTask' = nextTask /\ task' = task /\ case' \in {case, "CANCELLED"}
  <2>1. run' # run
    BY <1>1 DEF P!RunSteps
  <2>2. PICK w \in Workers : RunStep(w)
    BY <1>1, <2>1, StepKinds, OtherStepsLeaveRuns DEF P!vars
  <2> QED BY <1>1, <2>2, FencedStep
<1>2. [P!Next]_(P!vars) => (activity = "deleted" /\ P!RunSteps =>
          /\ nextTask' = nextTask
          /\ task' = task
          /\ case' \in {case, "CANCELLED"})
  BY <1>1
<1> QED BY <1>2, PTL DEF P!Spec, P!NoEffectAfterDeletion

\* ClosingSettlesTheCase: whoever closes the task withdraws the pending case about it
\* in the same transaction.
THEOREM ClosedTaskHasNoOpenCase == P!Spec => P!ClosingSettlesTheCase
<1>1. ASSUME [P!Next]_(P!vars), task = "OPEN", task' = "COMPLETED"
      PROVE  case' # "PENDING"
  <2>1. P!CloseTask => case' # "PENDING"
    BY DEF P!CloseTask, P!CaseWithdrawn
  <2>2. task' # task
    BY <1>1
  <2>3. ASSUME NEW w \in Workers, RunStep(w) PROVE P!CloseTask
    <3>1. CASE P!Execute(w)
      BY <2>2, <3>1 DEF P!Execute
    <3>2. CASE ~P!Execute(w)
      BY <2>2, <2>3, <3>2 DEF RunStep, P!Peek, P!Claim, P!Terminalize, P!Start, P!Enter, P!Load, P!Project, P!Match,
            P!CreateCases, P!Deliver, P!Finish, P!RecordFailure, P!GraphRaises, P!Crash, P!rows
    <3> QED BY <3>1, <3>2
  <2>4. CASE P!UserCloses
    BY <2>1, <2>4 DEF P!UserCloses
  <2>5. CASE P!UserReplies
    BY <2>2, <2>5 DEF P!UserReplies
  <2>6. ASSUME OtherSteps PROVE P!UserCloses \/ P!UserReplies
    BY <2>2, <2>6 DEF OtherSteps, P!Request, P!UserDeletes, P!LeaseExpires, P!Due, P!rows
  <2> QED BY <1>1, <2>1, <2>2, <2>3, <2>4, <2>5, <2>6, StepKinds DEF P!vars
<1>2. [P!Next]_(P!vars) => (task = "OPEN" /\ task' = "COMPLETED" => case' # "PENDING")
  BY <1>1
<1> QED BY <1>2, PTL DEF P!Spec, P!ClosingSettlesTheCase

\* Only the end of a graph that was neither skipped nor in error completes.
LEMMA WhoCompletes ==
    ASSUME FlowInv, P!Next, job'.status = "COMPLETED", job.status # "COMPLETED"
    PROVE  \E w \in Workers : /\ run[w].pc = "finish" /\ P!OwnsLease(job, w)
                              /\ ~run[w].g.error /\ ~run[w].g.skip
<1>0. job' # job
  OBVIOUS
<1>1. ASSUME NEW w \in Workers, RunStep(w) PROVE P!Finish(w)
  <2>1. CASE P!Claim(w)
    BY <1>0, <2>1 DEF P!Claim, P!Claimed
  <2>2. CASE P!Terminalize(w)
    BY <1>0, <2>2 DEF P!Terminalize, P!Closed, P!FreeRow
  <2>3. CASE P!Start(w)
    BY <1>0, <2>3 DEF P!Start, P!Closed, P!FreeRow
  <2>4. CASE P!RecordFailure(w)
    BY <1>0, <2>4 DEF P!RecordFailure, P!AfterFailure, P!Closed, P!RetryLater, P!FreeRow
  <2>5. ASSUME \/ P!Peek(w) \/ P!Enter(w) \/ P!Load(w) \/ P!Project(w) \/ P!Match(w) \/ P!Execute(w)
               \/ P!CreateCases(w) \/ P!Deliver(w) \/ P!GraphRaises(w) \/ P!Crash(w)
        PROVE  FALSE
    BY <1>0, <2>5 DEF P!Peek, P!Enter, P!Load, P!Project, P!Match, P!Execute, P!CreateCases, P!Deliver, P!GraphRaises, P!Crash
  <2> QED BY <1>1, <2>1, <2>2, <2>3, <2>4, <2>5 DEF RunStep
<1>2. ~OtherSteps
  <2>1. job \in P!Row
    BY DEF FlowInv, P!TypeOK
  <2>2. ~P!UserDeletes
    BY <1>0 DEF P!UserDeletes, P!JobAfterDeletion, P!Closed, P!FreeRow
  <2>3. ~P!LeaseExpires /\ ~P!Due
    BY <2>1 DEF P!LeaseExpires, P!Due, P!Row
  <2>4. ~P!UserCloses /\ ~P!UserReplies /\ \A act \in UserActs : ~P!Request(act)
    BY <1>0 DEF P!UserCloses, P!UserReplies, P!Request
  <2> QED BY <2>2, <2>3, <2>4 DEF OtherSteps
<1>3. PICK w \in Workers : P!Finish(w)
  BY <1>1, <1>2, StepKinds
<1>4. P!OwnsLease(job, w) /\ job' = P!Outcome(run[w].g, run[w].tries)
  BY <1>0, <1>3 DEF P!Finish
<1>5. ~run[w].g.error
  BY <1>4 DEF P!Outcome, P!AfterFailure, P!Closed, P!RetryLater, P!FreeRow
<1>6. ~run[w].g.skip
  BY <1>4, <1>5 DEF P!Outcome, P!Closed, P!FreeRow
<1> QED BY <1>3, <1>4, <1>5, <1>6 DEF P!Finish

\* CompletedMeansReconciled: a job completes only if the model has answered
\* about the older task and no fence, skip or error has voided the answer, even if a run
\* of it died between a node's commit and the saving of its state, or resumed the
\* state of an attempt that failed.
THEOREM CompletionIsReconciled ==
    ASSUME P!PostCommitAssumption
    PROVE  P!Spec => P!CompletedMeansReconciled
<1>1. ASSUME FlowInv, [P!Next]_(P!vars), job'.status = "COMPLETED", job.status # "COMPLETED"
      PROVE  \E w \in Workers : run[w].pc = "finish" /\ P!HasPlan(run[w].g)
  <2>1. PICK w \in Workers : /\ run[w].pc = "finish" /\ P!OwnsLease(job, w)
                             /\ ~run[w].g.error /\ ~run[w].g.skip
    BY <1>1, WhoCompletes DEF P!vars
  <2>2. run[w].g.at = "finish" /\ Sound(run[w].g, activity)
    BY <1>1, <2>1 DEF FlowInv, Placed
  <2>3. run[w].g.plan # "unasked"
    BY <2>1, <2>2 DEF Sound, Asked
  <2>4. ~run[w].g.fenced
    BY <1>1, <2>1, <2>2 DEF Sound, FlowInv, P!DeletedMeansSettled, P!OwnsLease, P!Terminal
  <2> QED BY <2>1, <2>3, <2>4 DEF P!HasPlan
<1>2. FlowInv /\ [P!Next]_(P!vars) => (job'.status = "COMPLETED" /\ job.status # "COMPLETED" =>
          \E w \in Workers : run[w].pc = "finish" /\ P!HasPlan(run[w].g))
  BY <1>1
<1> QED BY <1>2, FlowInvAlways, PTL DEF P!Spec, P!CompletedMeansReconciled

=============================================================================
