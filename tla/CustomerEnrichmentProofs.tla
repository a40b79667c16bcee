----------------------- MODULE CustomerEnrichmentProofs -----------------------
(***************************************************************************)
(* Theorems about CustomerEnrichment, for any number of customers,         *)
(* workers, attempts, edits and crashes.                                   *)
(*                                                                         *)
(* A worker acts on what it read at its claim.  The invariant says what    *)
(* that is still worth: the attempt number of a run is the row's as long   *)
(* as the row has the run's token, and a run that goes on to the refresh   *)
(* leaves a job behind that nobody opens again (Carried).                  *)
(***************************************************************************)
EXTENDS CustomerEnrichment, TLAPS

CustomerRecords == [field : Field, version : Nat]

\* The refresh is due, or has been registered.
Successful(c) ==
    jobs[c].status \in {"COMPLETED", "SKIPPED"} /\ skipReason[c] # "CUSTOMER_NOT_FOUND"

\* The row of a customer's job, and what goes with it.
RowShape(c) ==
    /\ jobs[c].status = "RUNNING" <=> jobs[c].owner # NoWorker
    /\ jobs[c].live => jobs[c].status = "RUNNING"
    /\ writes[c] = IF jobs[c].status = "COMPLETED" THEN 1 ELSE 0
    /\ jobs[c].status # "SKIPPED" => skipReason[c] = "none"
    /\ receipt[c] => Successful(c)

\* What a run carries along is still true.
Carried(w) ==
    /\ run[w].pc \in Executing /\ jobs[run[w].key].owner = w =>
          run[w].tries = jobs[run[w].key].attempts
    /\ run[w].pc = "refresh" => Successful(run[w].key)

IInv ==
    /\ TypeOK
    /\ \A c \in Customers : RowShape(c)
    /\ \A w \in Workers : Carried(w)

-----------------------------------------------------------------------------
(* Rows and runs. *)

LEMMA RowUpdates ==
    ASSUME NEW row \in Row, NEW w \in Workers
    PROVE  /\ row.attempts < MaxAttempts => /\ Claimed(row, w) \in Row
                                            /\ row.attempts + 1 \in 0 .. MaxAttempts
           /\ \A o \in Terminal : Closed(row, o) \in Row
           /\ RetryLater(row) \in Row
<1>1. row.attempts \in 0 .. MaxAttempts
  BY DEF Row
<1>2. ASSUME NEW s \in Status, NEW n \in 0 .. MaxAttempts PROVE FreeRow(s, n) \in Row
  BY DEF Row, FreeRow
<1>3. ASSUME row.attempts < MaxAttempts
      PROVE  Claimed(row, w) \in Row /\ row.attempts + 1 \in 0 .. MaxAttempts
  <2>1. row.attempts + 1 \in 0 .. MaxAttempts
    BY <1>1, <1>3, LeasedJobAssumption
  <2> QED BY <2>1 DEF Row, Claimed, Status
<1> QED BY <1>1, <1>2, <1>3 DEF Closed, RetryLater, Status

LEMMA Blanks ==
    /\ AbsentRow \in Row /\ AbsentRow.status = "ABSENT" /\ AbsentRow.owner = NoWorker /\ ~AbsentRow.live
    /\ \A due \in BOOLEAN :
          /\ Waiting(due) \in Row /\ Waiting(due).status = "QUEUED"
          /\ Waiting(due).owner = NoWorker /\ ~Waiting(due).live /\ Waiting(due).attempts = 0
    /\ Idle \in Run /\ Idle.pc = "idle"
<1>1. 0 \in 0 .. MaxAttempts
  BY LeasedJobAssumption
<1>2. AbsentRow \in Row /\ QueuedRow \in Row
  BY <1>1 DEF AbsentRow, QueuedRow, FreeRow, Row, Status
<1>3. AbsentRow.status = "ABSENT" /\ AbsentRow.owner = NoWorker /\ ~AbsentRow.live
  BY DEF AbsentRow, FreeRow
<1>4. ASSUME NEW due \in BOOLEAN
      PROVE  /\ Waiting(due) \in Row /\ Waiting(due).status = "QUEUED"
             /\ Waiting(due).owner = NoWorker /\ ~Waiting(due).live /\ Waiting(due).attempts = 0
  <2>1. QueuedRow.status = "QUEUED" /\ QueuedRow.owner = NoWorker /\ ~QueuedRow.live /\ QueuedRow.attempts = 0
    BY DEF QueuedRow, FreeRow
  <2>2. Waiting(due) \in Row
    BY <1>2 DEF Waiting, Row
  <2>3. Waiting(due).status = QueuedRow.status /\ Waiting(due).owner = QueuedRow.owner
        /\ Waiting(due).live = QueuedRow.live /\ Waiting(due).attempts = QueuedRow.attempts
    BY <1>2 DEF Waiting, Row
  <2> QED BY <2>1, <2>2, <2>3
<1>5. Idle \in Run /\ Idle.pc = "idle"
  BY <1>1 DEF Idle, Run, Reason
<1> QED BY <1>2, <1>3, <1>4, <1>5

\* The reads of the graph and the answer of the model only move the run on.
MovesOn(w) == LoadContext(w) \/ (\E b \in BOOLEAN : Infer(w, b)) \/ ClassifyConflict(w)

LEMMA Moving ==
    ASSUME TypeOK, NEW w \in Workers, MovesOn(w)
    PROVE  /\ UNCHANGED <<customer, registering, jobs, skipReason, receipt, writes, crashes>>
           /\ run[w].pc \in Executing
           /\ \E e \in Run : /\ run' = [run EXCEPT ![w] = e]
                             /\ e.pc \in Executing /\ e.key = run[w].key /\ e.tries = run[w].tries
<1>1. run[w] \in Run /\ run[w].pc # "idle" /\ run[w].pc \in Executing
  BY DEF TypeOK, MovesOn, LoadContext, Infer, ClassifyConflict, Executing
<1>2. run[w].key \in Customers
  BY <1>1 DEF TypeOK
<1>3. customer[run[w].key].version \in Nat
  BY <1>2 DEF TypeOK
<1>4. ASSUME NEW pc \in Executing, Goto(w, pc)
      PROVE  \E e \in Run : /\ run' = [run EXCEPT ![w] = e]
                            /\ e.pc \in Executing /\ e.key = run[w].key /\ e.tries = run[w].tries
  <2> DEFINE e == [run[w] EXCEPT !.pc = pc]
  <2>1. e \in Run /\ e.pc \in Executing /\ e.key = run[w].key /\ e.tries = run[w].tries
    BY <1>1 DEF Run
  <2>2. run' = [run EXCEPT ![w] = e]
    BY <1>4 DEF Goto
  <2> HIDE DEF e
  <2> QED BY <2>1, <2>2
<1>5. ASSUME NEW reason \in Reason, Skip(w, reason)
      PROVE  \E e \in Run : /\ run' = [run EXCEPT ![w] = e]
                            /\ e.pc \in Executing /\ e.key = run[w].key /\ e.tries = run[w].tries
  <2> DEFINE e == [run[w] EXCEPT !.pc = "skip", !.reason = reason]
  <2>1. e \in Run /\ e.pc \in Executing /\ e.key = run[w].key /\ e.tries = run[w].tries
    BY <1>1 DEF Run, Executing
  <2>2. run' = [run EXCEPT ![w] = e]
    BY <1>5 DEF Skip, TypeOK
  <2> HIDE DEF e
  <2> QED BY <2>1, <2>2
<1>6. ASSUME run' = [run EXCEPT ![w].pc = "infer", ![w].version = customer[run[w].key].version]
      PROVE  \E e \in Run : /\ run' = [run EXCEPT ![w] = e]
                            /\ e.pc \in Executing /\ e.key = run[w].key /\ e.tries = run[w].tries
  <2> DEFINE e == [run[w] EXCEPT !.pc = "infer", !.version = customer[run[w].key].version]
  <2>1. e \in Run /\ e.pc \in Executing /\ e.key = run[w].key /\ e.tries = run[w].tries
    BY <1>1, <1>3 DEF Run, Executing
  <2>2. run' = [run EXCEPT ![w] = e]
    BY <1>6 DEF TypeOK
  <2> HIDE DEF e
  <2> QED BY <2>1, <2>2
<1>7. UNCHANGED <<customer, registering, jobs, skipReason, receipt, writes, crashes>>
  BY DEF MovesOn, LoadContext, Infer, ClassifyConflict
<1>8. \/ \E pc \in Executing : Goto(w, pc)
      \/ \E reason \in Reason : Skip(w, reason)
      \/ run' = [run EXCEPT ![w].pc = "infer", ![w].version = customer[run[w].key].version]
  BY DEF MovesOn, LoadContext, Infer, ClassifyConflict, Executing, Reason
<1> QED BY <1>1, <1>4, <1>5, <1>6, <1>7, <1>8

LEMMA RunWritten ==
    ASSUME TypeOK, NEW w \in Workers, NEW e \in Run, e.pc # "idle" => e.key \in Customers,
           run' = [run EXCEPT ![w] = e]
    PROVE  /\ run' \in [Workers -> Run]
           /\ \A v \in Workers : run'[v].pc # "idle" => run'[v].key \in Customers
           /\ run'[w] = e
           /\ \A v \in Workers : v # w => run'[v] = run[v]
BY DEF TypeOK

\* A step that writes the row of one job, and of the other columns at most
\* those that belong to it.
LEMMA OneRow ==
    ASSUME IInv, NEW c \in Customers, NEW row \in Row, jobs' = [jobs EXCEPT ![c] = row],
           \A b \in Customers : b # c => /\ skipReason'[b] = skipReason[b]
                                         /\ receipt'[b] = receipt[b] /\ writes'[b] = writes[b],
           jobs'[c] = row => RowShape(c)'
    PROVE  /\ jobs' \in [Customers -> Row] /\ jobs'[c] = row
           /\ \A b \in Customers : RowShape(b)'
<1>1. jobs' \in [Customers -> Row] /\ jobs'[c] = row /\ \A b \in Customers : b # c => jobs'[b] = jobs[b]
  BY DEF IInv, TypeOK
<1>2. ASSUME NEW b \in Customers, b # c PROVE RowShape(b)'
  BY <1>1, <1>2 DEF IInv, RowShape, Successful
<1> QED BY <1>1, <1>2

\* A run that takes no part keeps what it carries along, if a row changes
\* hands only away from it and a success stays.
LEMMA StillCarried ==
    ASSUME IInv, NEW v \in Workers, run'[v] = run[v], NEW c \in Customers,
           \A b \in Customers : b # c => jobs'[b] = jobs[b] /\ skipReason'[b] = skipReason[b],
           jobs'[c].owner = v => jobs[c].owner = v /\ jobs'[c].attempts = jobs[c].attempts,
           Successful(c) => jobs'[c].status = jobs[c].status /\ skipReason'[c] = skipReason[c]
    PROVE  Carried(v)'
<1>1. Carried(v) /\ (run[v].pc # "idle" => run[v].key \in Customers)
  BY DEF IInv, TypeOK
<1>2. CASE run[v].pc = "idle"
  BY <1>2 DEF Carried, Executing
<1>3. CASE run[v].key \in Customers
  BY <1>1, <1>3 DEF Carried, Successful
<1> QED BY <1>1, <1>2, <1>3

\* Nobody's row or success changes, and one run at most.
LEMMA OnlyRuns ==
    ASSUME IInv, NEW w \in Workers, jobs' = jobs, skipReason' = skipReason, receipt' = receipt,
           writes' = writes, \A v \in Workers : v # w => run'[v] = run[v], Carried(w)'
    PROVE  (\A c \in Customers : RowShape(c)') /\ (\A v \in Workers : Carried(v)')
BY DEF IInv, RowShape, Successful, Carried

LEMMA NothingHappens ==
    ASSUME IInv, jobs' = jobs, skipReason' = skipReason, receipt' = receipt, writes' = writes, run' = run
    PROVE  (\A c \in Customers : RowShape(c)') /\ (\A v \in Workers : Carried(v)')
BY DEF IInv, RowShape, Successful, Carried

-----------------------------------------------------------------------------
(* The actions. *)

Kept == /\ jobs' \in [Customers -> Row]
        /\ \A c \in Customers : RowShape(c)'
        /\ \A w \in Workers : Carried(w)'

LEMMA Ensuring ==
    ASSUME IInv, NEW c \in Customers, NEW due \in BOOLEAN, Ensure(c, due),
           UNCHANGED <<skipReason, receipt, run, writes>>
    PROVE  Kept
<1>1. CASE jobs' = jobs
  BY <1>1, NothingHappens DEF Kept, IInv, TypeOK
<1>2. CASE jobs[c].status = "ABSENT" /\ jobs' = [jobs EXCEPT ![c] = Waiting(due)]
  <2>1. jobs'[c] = Waiting(due) => RowShape(c)'
    BY <1>2, Blanks DEF RowShape, Successful, IInv
  <2>2. jobs' \in [Customers -> Row] /\ jobs'[c] = Waiting(due) /\ \A b \in Customers : RowShape(b)'
    BY <1>2, <2>1, Blanks, OneRow
  <2>3. ASSUME NEW v \in Workers PROVE Carried(v)'
    <3>1. \A b \in Customers : b # c => jobs'[b] = jobs[b]
      BY <1>2 DEF IInv, TypeOK
    <3>2. jobs'[c].owner # v
      BY <2>2, Blanks, LeasedJobAssumption
    <3>3. ~Successful(c)
      BY <1>2 DEF Successful
    <3> QED BY <3>1, <3>2, <3>3, StillCarried
  <2> QED BY <2>2, <2>3 DEF Kept
<1> QED BY <1>1, <1>2 DEF Ensure

LEMMA Requeuing ==
    ASSUME IInv, NEW c \in Customers, Requeue(c)
    PROVE  Kept
<1>1. jobs[c].status = "EXHAUSTED" /\ jobs' = [jobs EXCEPT ![c] = Waiting(TRUE)] /\ ~receipt'[c]
      /\ UNCHANGED <<skipReason, run, writes>>
      /\ \A b \in Customers : b # c => receipt'[b] = receipt[b]
  BY DEF Requeue, IInv, TypeOK
<1>2. jobs'[c] = Waiting(TRUE) => RowShape(c)'
  BY <1>1, Blanks DEF RowShape, IInv
<1>3. jobs' \in [Customers -> Row] /\ jobs'[c] = Waiting(TRUE) /\ \A b \in Customers : RowShape(b)'
  BY <1>1, <1>2, Blanks, OneRow
<1>4. ASSUME NEW v \in Workers PROVE Carried(v)'
  <2>1. \A b \in Customers : b # c => jobs'[b] = jobs[b]
    BY <1>1 DEF IInv, TypeOK
  <2>2. jobs'[c].owner # v
    BY <1>3, Blanks, LeasedJobAssumption
  <2>3. ~Successful(c)
    BY <1>1 DEF Successful
  <2> QED BY <1>1, <2>1, <2>2, <2>3, StillCarried
<1> QED BY <1>3, <1>4 DEF Kept

LEMMA Ticking ==
    ASSUME IInv, NEW c \in Customers, LeaseExpires(c) \/ Due(c)
    PROVE  Kept
<1>1. jobs[c] \in Row
  BY DEF IInv, TypeOK
<1>2. \E row \in Row : /\ jobs' = [jobs EXCEPT ![c] = row]
                       /\ row.status = jobs[c].status /\ row.owner = jobs[c].owner
                       /\ row.attempts = jobs[c].attempts
                       /\ row.live => jobs[c].live
  <2>1. CASE LeaseExpires(c)
    <3> DEFINE row == [jobs[c] EXCEPT !.live = FALSE]
    <3>1. row \in Row /\ row.status = jobs[c].status /\ row.owner = jobs[c].owner
          /\ row.attempts = jobs[c].attempts /\ ~row.live
      BY <1>1 DEF Row
    <3>2. jobs' = [jobs EXCEPT ![c] = row]
      BY <2>1 DEF LeaseExpires
    <3> HIDE DEF row
    <3> QED BY <3>1, <3>2
  <2>2. CASE Due(c)
    <3> DEFINE row == [jobs[c] EXCEPT !.due = TRUE]
    <3>1. row \in Row /\ row.status = jobs[c].status /\ row.owner = jobs[c].owner
          /\ row.attempts = jobs[c].attempts /\ row.live = jobs[c].live
      BY <1>1 DEF Row
    <3>2. jobs' = [jobs EXCEPT ![c] = row]
      BY <2>2 DEF Due
    <3> HIDE DEF row
    <3> QED BY <3>1, <3>2
  <2> QED BY <2>1, <2>2
<1>3. PICK row \in Row : /\ jobs' = [jobs EXCEPT ![c] = row]
                         /\ row.status = jobs[c].status /\ row.owner = jobs[c].owner
                         /\ row.attempts = jobs[c].attempts
                         /\ row.live => jobs[c].live
  BY <1>2
<1>4. UNCHANGED <<skipReason, receipt, run, writes>>
  BY DEF LeaseExpires, Due
<1>5. jobs'[c] = row => RowShape(c)'
  BY <1>3, <1>4 DEF RowShape, Successful, IInv
<1>6. jobs' \in [Customers -> Row] /\ jobs'[c] = row /\ \A b \in Customers : RowShape(b)'
  BY <1>3, <1>4, <1>5, OneRow
<1>7. ASSUME NEW v \in Workers PROVE Carried(v)'
  BY <1>3, <1>4, <1>6, StillCarried DEF IInv, TypeOK
<1> QED BY <1>6, <1>7 DEF Kept

\* The row goes from its owner, or from nobody, to nobody.
LEMMA Releasing ==
    ASSUME IInv, NEW c \in Customers, NEW row \in Row, jobs' = [jobs EXCEPT ![c] = row],
           row.owner = NoWorker, RowShape(c)', ~Successful(c),
           \A b \in Customers : b # c => /\ skipReason'[b] = skipReason[b]
                                         /\ receipt'[b] = receipt[b] /\ writes'[b] = writes[b],
           NEW w \in Workers, \A v \in Workers : v # w => run'[v] = run[v],
           Carried(w)'
    PROVE  Kept
<1>1. jobs' \in [Customers -> Row] /\ jobs'[c] = row /\ \A b \in Customers : RowShape(b)'
  BY OneRow
<1>2. ASSUME NEW v \in Workers, v # w PROVE Carried(v)'
  <2>1. jobs'[c].owner # v
    BY <1>1, LeasedJobAssumption
  <2>2. \A b \in Customers : b # c => jobs'[b] = jobs[b]
    BY DEF IInv, TypeOK
  <2> QED BY <1>2, <2>1, <2>2, StillCarried
<1> QED BY <1>1, <1>2 DEF Kept

RunsTyped == /\ run' \in [Workers -> Run]
             /\ \A w \in Workers : run'[w].pc # "idle" => run'[w].key \in Customers

\* What a claim leaves in the worker's hands.
Started(c) == [Idle EXCEPT !.pc = "load", !.key = c, !.tries = jobs[c].attempts + 1]

LEMMA Starting ==
    ASSUME TypeOK, NEW c \in Customers, jobs[c].attempts < MaxAttempts
    PROVE  /\ Started(c) \in Run /\ Started(c).pc = "load" /\ Started(c).key = c
           /\ Started(c).tries = jobs[c].attempts + 1
<1>1. jobs[c].attempts + 1 \in 0 .. MaxAttempts
  BY RowUpdates, LeasedJobAssumption DEF TypeOK, Row
<1> QED BY <1>1 DEF Started, Idle, Run, Executing, Reason

LEMMA Executes ==
    ASSUME IInv, NEW w \in Workers, NEW c \in Customers, Execute(w, c)
    PROVE  Kept /\ RunsTyped
<1>1. TypeOK /\ jobs[c] \in Row /\ run[w].pc = "idle"
  BY DEF IInv, TypeOK, Execute
<1>2. UNCHANGED <<skipReason, receipt, writes>>
  BY DEF Execute
<1>3. CASE SpentAndFree(jobs[c]) /\ jobs' = [jobs EXCEPT ![c] = Closed(jobs[c], "EXHAUSTED")] /\ run' = run
  <2> DEFINE row == Closed(jobs[c], "EXHAUSTED")
  <2>1. row \in Row /\ row.owner = NoWorker /\ row.status = "EXHAUSTED" /\ ~row.live
    BY <1>1, RowUpdates DEF Closed, FreeRow, Terminal
  <2>2. jobs'[c] = row
    BY <1>1, <1>3 DEF TypeOK
  <2>3. jobs[c].status \in {"QUEUED", "FAILED", "RUNNING"}
    BY <1>3 DEF SpentAndFree
  <2> HIDE DEF row
  <2>4. RowShape(c)'
    BY <1>2, <2>1, <2>2, <2>3 DEF IInv, RowShape, Successful
  <2>5. Carried(w)'
    BY <1>1, <1>3 DEF Carried, Executing
  <2>6. Kept
    BY <1>2, <1>3, <2>1, <2>3, <2>4, <2>5, Releasing DEF Successful, row
  <2> QED BY <1>1, <1>3, <2>6 DEF RunsTyped, TypeOK
<1>4. CASE /\ Claimable(jobs[c]) /\ jobs' = [jobs EXCEPT ![c] = Claimed(jobs[c], w)]
           /\ run' = [run EXCEPT ![w] = Started(c)]
  <2> DEFINE row == Claimed(jobs[c], w)
  <2>1. jobs[c].attempts < MaxAttempts /\ jobs[c].status \in {"QUEUED", "FAILED", "RUNNING"}
    BY <1>4 DEF Claimable, Lapsed
  <2>2. row \in Row /\ row.owner = w /\ row.status = "RUNNING" /\ row.attempts = jobs[c].attempts + 1
    BY <1>1, <2>1, RowUpdates DEF Claimed
  <2>3. Started(c) \in Run /\ Started(c).pc = "load" /\ Started(c).key = c
        /\ Started(c).tries = jobs[c].attempts + 1
    BY <1>1, <2>1, Starting
  <2> HIDE DEF row
  <2>4. jobs'[c] = row => RowShape(c)'
    BY <1>2, <2>1, <2>2, LeasedJobAssumption DEF IInv, RowShape, Successful
  <2>5. jobs' \in [Customers -> Row] /\ jobs'[c] = row /\ \A b \in Customers : RowShape(b)'
    BY <1>2, <1>4, <2>2, <2>4, OneRow DEF row
  <2>6. RunsTyped /\ run'[w] = Started(c) /\ \A v \in Workers : v # w => run'[v] = run[v]
    BY <1>1, <1>4, <2>3, RunWritten DEF RunsTyped
  <2>7. Carried(w)'
    BY <2>2, <2>3, <2>5, <2>6 DEF Carried
  <2>8. ASSUME NEW v \in Workers, v # w PROVE Carried(v)'
    <3>1. jobs'[c].owner # v /\ ~Successful(c)
      BY <2>1, <2>2, <2>5, <2>8 DEF Successful
    <3>2. \A b \in Customers : b # c => jobs'[b] = jobs[b]
      BY <1>1, <1>4 DEF TypeOK
    <3> QED BY <1>2, <2>6, <2>8, <3>1, <3>2, StillCarried
  <2> QED BY <2>5, <2>6, <2>7, <2>8 DEF Kept
<1> QED BY <1>3, <1>4 DEF Execute, ClaimableDue, Started

LEMMA Moves ==
    ASSUME IInv, NEW w \in Workers, MovesOn(w)
    PROVE  Kept /\ RunsTyped
<1>1. TypeOK
  BY DEF IInv
<1>2. PICK e \in Run : /\ run' = [run EXCEPT ![w] = e]
                       /\ e.pc \in Executing /\ e.key = run[w].key /\ e.tries = run[w].tries
  BY <1>1, Moving
<1>3. jobs' = jobs /\ skipReason' = skipReason /\ receipt' = receipt /\ writes' = writes
      /\ run[w].pc \in Executing
  BY <1>1, Moving
<1>4. run[w].key \in Customers
  BY <1>1, <1>3 DEF TypeOK, Executing
<1>5. RunsTyped /\ run'[w] = e /\ \A v \in Workers : v # w => run'[v] = run[v]
  BY <1>1, <1>2, <1>4, RunWritten DEF RunsTyped
<1>6. Carried(w)'
  BY <1>2, <1>3, <1>5 DEF IInv, Carried, Executing
<1> QED BY <1>1, <1>3, <1>5, <1>6, OnlyRuns DEF Kept, TypeOK

\* A run that ends, whatever becomes of its job.
LEMMA Ending ==
    ASSUME TypeOK, NEW w \in Workers, run' = [run EXCEPT ![w] = Idle]
    PROVE  RunsTyped /\ Carried(w)' /\ \A v \in Workers : v # w => run'[v] = run[v]
BY Blanks, RunWritten DEF RunsTyped, Carried, Executing

LEMMA EndsOnly ==
    ASSUME IInv, NEW w \in Workers, run' = [run EXCEPT ![w] = Idle],
           jobs' = jobs, skipReason' = skipReason, receipt' = receipt, writes' = writes
    PROVE  Kept /\ RunsTyped
BY Ending, OnlyRuns DEF Kept, IInv, TypeOK

\* A run that goes to another step of its own.
LEMMA Going ==
    ASSUME IInv, NEW w \in Workers, run[w].pc \in Executing, NEW pc \in Executing \cup {"refresh"},
           run' = [run EXCEPT ![w].pc = pc]
    PROVE  /\ RunsTyped /\ \A v \in Workers : v # w => run'[v] = run[v]
           /\ run'[w].pc = pc /\ run'[w].key = run[w].key /\ run'[w].tries = run[w].tries
<1> DEFINE e == [run[w] EXCEPT !.pc = pc]
<1>1. run[w] \in Run /\ run[w].key \in Customers /\ TypeOK
  BY DEF IInv, TypeOK, Executing
<1>2. e \in Run /\ e.pc = pc /\ e.key = run[w].key /\ e.tries = run[w].tries
  BY <1>1 DEF Run
<1>3. run' = [run EXCEPT ![w] = e]
  OBVIOUS
<1> HIDE DEF e
<1> QED BY <1>1, <1>2, <1>3, RunWritten DEF RunsTyped

LEMMA Applies ==
    ASSUME IInv, NEW w \in Workers, Apply(w), NEW c \in Customers, run[w].key = c
    PROVE  Kept /\ RunsTyped /\ writes' \in [Customers -> Nat]
           /\ customer' \in [Customers -> CustomerRecords]
<1>1. TypeOK /\ run[w].pc = "write" /\ jobs[c] \in Row
      /\ run[w].pc \in Executing /\ UNCHANGED <<skipReason, receipt>>
  BY DEF IInv, TypeOK, Apply, Executing
<1>2. CASE run' = [run EXCEPT ![w] = Idle] /\ UNCHANGED <<customer, writes, jobs>>
  BY <1>1, <1>2, EndsOnly DEF TypeOK, CustomerRecords
<1>3. ASSUME NEW pc \in Executing, Goto(w, pc), UNCHANGED <<customer, writes, jobs>>
      PROVE  Kept /\ RunsTyped /\ writes' \in [Customers -> Nat]
             /\ customer' \in [Customers -> CustomerRecords]
  <2>1. RunsTyped /\ (\A v \in Workers : v # w => run'[v] = run[v])
        /\ run'[w].pc = pc /\ run'[w].key = run[w].key /\ run'[w].tries = run[w].tries
    BY <1>1, <1>3, Going DEF Goto
  <2>2. Carried(w)'
    BY <1>1, <1>3, <2>1 DEF IInv, Carried, Executing
  <2> QED BY <1>1, <1>3, <2>1, <2>2, OnlyRuns DEF Kept, TypeOK, CustomerRecords
<1>4. CASE OwnsLiveLease(jobs[c], w) /\ WriteAndComplete(w, c)
  <2> DEFINE row == Closed(jobs[c], "COMPLETED")
  <2>1. row \in Row /\ row.owner = NoWorker /\ row.status = "COMPLETED" /\ ~row.live
    BY <1>1, RowUpdates DEF Closed, FreeRow, Terminal
  <2>2. jobs' = [jobs EXCEPT ![c] = row]
    BY <1>4 DEF WriteAndComplete
  <2> HIDE DEF row
  <2>3. jobs[c].status = "RUNNING"
    BY <1>4 DEF OwnsLiveLease, OwnsLease
  <2>4. writes[c] = 0 /\ skipReason[c] = "none" /\ ~Successful(c) /\ ~receipt[c]
    BY <1>1, <2>3 DEF IInv, RowShape, Successful
  <2>5. writes' = [writes EXCEPT ![c] = 1]
    BY <1>1, <1>4, <2>4 DEF WriteAndComplete, TypeOK
  <2>6. /\ writes' \in [Customers -> Nat] /\ writes'[c] = 1 /\ jobs'[c] = row
        /\ \A b \in Customers : b # c => writes'[b] = writes[b]
    BY <1>1, <2>2, <2>5 DEF TypeOK
  <2>7. RowShape(c)'
    BY <1>1, <2>1, <2>4, <2>6 DEF RowShape, Successful
  <2>8. RunsTyped /\ (\A v \in Workers : v # w => run'[v] = run[v])
        /\ run'[w].pc = "refresh" /\ run'[w].key = c
    BY <1>1, <1>4, Going DEF WriteAndComplete, Goto
  <2>9. Carried(w)'
    BY <1>1, <2>1, <2>4, <2>6, <2>8 DEF Carried, Successful, Executing
  <2>10. \A b \in Customers : b # c => /\ skipReason'[b] = skipReason[b]
                                       /\ receipt'[b] = receipt[b] /\ writes'[b] = writes[b]
    BY <1>1, <2>6
  <2>11. Kept
    BY <2>1, <2>2, <2>4, <2>7, <2>8, <2>9, <2>10, Releasing
  <2>12. customer' \in [Customers -> CustomerRecords]
    <3> DEFINE new == [field |-> "model", version |-> customer[c].version + 1]
    <3>1. new \in CustomerRecords
      BY <1>1 DEF CustomerRecords, Field, TypeOK
    <3>2. customer' = [customer EXCEPT ![c] = new]
      BY <1>4 DEF WriteAndComplete
    <3> HIDE DEF new
    <3> QED BY <1>1, <3>1, <3>2 DEF TypeOK, CustomerRecords
  <2> QED BY <2>6, <2>8, <2>11, <2>12
<1> QED BY <1>2, <1>3, <1>4 DEF Apply, Executing

LEMMA RecordsSkip ==
    ASSUME IInv, NEW w \in Workers, RecordSkip(w), NEW c \in Customers, run[w].key = c
    PROVE  Kept /\ RunsTyped /\ skipReason' \in [Customers -> Reason]
<1>1. /\ TypeOK /\ run[w].pc = "skip" /\ jobs[c] \in Row /\ run[w] \in Run
      /\ UNCHANGED <<receipt, writes>> /\ run[w].reason \in Reason
  BY DEF IInv, TypeOK, RecordSkip, Run
<1>2. CASE run' = [run EXCEPT ![w] = Idle] /\ UNCHANGED <<jobs, skipReason>>
  BY <1>1, <1>2, EndsOnly DEF TypeOK
<1>3. ASSUME NEW reason \in Reason, reason = run[w].reason,
             OwnsLease(jobs[c], w),
             jobs' = [jobs EXCEPT ![c] = Closed(jobs[c], "SKIPPED")],
             skipReason' = [skipReason EXCEPT ![c] = reason],
             run' = [run EXCEPT ![w] = IF Refreshes(reason)
                                       THEN [run[w] EXCEPT !.pc = "refresh"] ELSE Idle]
      PROVE  Kept /\ RunsTyped /\ skipReason' \in [Customers -> Reason]
  <2> DEFINE row == Closed(jobs[c], "SKIPPED")
  <2>1. row \in Row /\ row.owner = NoWorker /\ row.status = "SKIPPED" /\ ~row.live
    BY <1>1, RowUpdates DEF Closed, FreeRow, Terminal
  <2>2. jobs' = [jobs EXCEPT ![c] = row]
    BY <1>3
  <2> HIDE DEF row
  <2>3. jobs[c].status = "RUNNING"
    BY <1>3 DEF OwnsLease
  <2>4. writes[c] = 0 /\ ~receipt[c] /\ ~Successful(c)
    BY <1>1, <2>3 DEF IInv, RowShape, Successful
  <2>5. /\ jobs'[c] = row /\ skipReason'[c] = reason /\ skipReason' \in [Customers -> Reason]
        /\ \A b \in Customers : b # c => skipReason'[b] = skipReason[b]
    BY <1>1, <1>3, <2>2 DEF TypeOK
  <2>6. \E e \in Run : /\ run' = [run EXCEPT ![w] = e]
                       /\ e.pc \notin Executing
                       /\ (e.pc # "idle" => e.key = c)
                       /\ (e.pc = "refresh" => reason # "CUSTOMER_NOT_FOUND")
    <3>1. CASE Refreshes(reason)
      <4> DEFINE e == [run[w] EXCEPT !.pc = "refresh"]
      <4>1. e \in Run /\ e.pc = "refresh" /\ e.key = c
        BY <1>1 DEF Run
      <4>2. run' = [run EXCEPT ![w] = e]
        BY <1>3, <3>1
      <4> HIDE DEF e
      <4> QED BY <3>1, <4>1, <4>2 DEF Refreshes, Executing
    <3>2. CASE ~Refreshes(reason)
      <4>1. run' = [run EXCEPT ![w] = Idle]
        BY <1>3, <3>2
      <4> QED BY <4>1, Blanks DEF Executing
    <3> QED BY <3>1, <3>2
  <2>7. PICK e \in Run : /\ run' = [run EXCEPT ![w] = e]
                         /\ e.pc \notin Executing
                         /\ (e.pc # "idle" => e.key = c)
                         /\ (e.pc = "refresh" => reason # "CUSTOMER_NOT_FOUND")
    BY <2>6
  <2>8. RunsTyped /\ run'[w] = e /\ \A v \in Workers : v # w => run'[v] = run[v]
    BY <1>1, <2>7, RunWritten DEF RunsTyped
  <2>9. RowShape(c)'
    BY <1>1, <2>1, <2>4, <2>5 DEF RowShape
  <2>10. Carried(w)'
    BY <2>1, <2>5, <2>7, <2>8 DEF Carried, Successful
  <2>11. \A b \in Customers : b # c => /\ skipReason'[b] = skipReason[b]
                                       /\ receipt'[b] = receipt[b] /\ writes'[b] = writes[b]
    BY <1>1, <2>5
  <2>12. Kept
    BY <2>1, <2>2, <2>4, <2>8, <2>9, <2>10, <2>11, Releasing
  <2> QED BY <2>5, <2>8, <2>12
<1> QED BY <1>1, <1>2, <1>3 DEF RecordSkip

LEMMA RecordsFailure ==
    ASSUME IInv, NEW w \in Workers, RecordFailure(w), NEW c \in Customers, run[w].key = c
    PROVE  Kept /\ RunsTyped
<1>1. /\ TypeOK /\ jobs[c] \in Row
      /\ UNCHANGED <<skipReason, receipt, writes>> /\ run' = [run EXCEPT ![w] = Idle]
  BY DEF IInv, TypeOK, RecordFailure
<1>2. CASE jobs' = jobs
  BY <1>1, <1>2, EndsOnly
<1>3. ASSUME OwnsLease(jobs[c], w), NEW row \in {Closed(jobs[c], "EXHAUSTED"), RetryLater(jobs[c])},
             jobs' = [jobs EXCEPT ![c] = row]
      PROVE  Kept /\ RunsTyped
  <2>1. row \in Row /\ row.owner = NoWorker /\ row.status \in {"EXHAUSTED", "FAILED"} /\ ~row.live
    <3>1. CASE row = Closed(jobs[c], "EXHAUSTED")
      BY <1>1, <3>1, RowUpdates DEF Closed, FreeRow, Terminal
    <3>2. CASE row = RetryLater(jobs[c])
      BY <1>1, <3>2, RowUpdates DEF RetryLater, FreeRow
    <3> QED BY <1>3, <3>1, <3>2
  <2>2. jobs[c].status = "RUNNING" /\ jobs'[c] = row
    BY <1>1, <1>3 DEF OwnsLease, TypeOK
  <2>3. RowShape(c)' /\ ~Successful(c)
    BY <1>1, <2>1, <2>2 DEF IInv, RowShape, Successful
  <2>4. RunsTyped /\ Carried(w)' /\ \A v \in Workers : v # w => run'[v] = run[v]
    BY <1>1, Ending
  <2>5. \A b \in Customers : b # c => /\ skipReason'[b] = skipReason[b]
                                      /\ receipt'[b] = receipt[b] /\ writes'[b] = writes[b]
    BY <1>1
  <2>6. Kept
    BY <1>3, <2>1, <2>3, <2>4, <2>5, Releasing
  <2> QED BY <2>4, <2>6
<1> QED BY <1>1, <1>2, <1>3 DEF RecordFailure

LEMMA Refreshing ==
    ASSUME IInv, NEW c \in Customers, Successful(c), jobs' = jobs, skipReason' = skipReason, writes' = writes,
           NEW b \in BOOLEAN, receipt' = [receipt EXCEPT ![c] = receipt[c] \/ b],
           NEW w \in Workers, \A v \in Workers : v # w => run'[v] = run[v], Carried(w)'
    PROVE  Kept /\ receipt' \in [Customers -> BOOLEAN]
<1>1. receipt' \in [Customers -> BOOLEAN] /\ \A d \in Customers : d # c => receipt'[d] = receipt[d]
  BY DEF IInv, TypeOK
<1>2. \A d \in Customers : RowShape(d)'
  BY <1>1 DEF IInv, RowShape, Successful
<1>3. \A v \in Workers : Carried(v)'
  BY DEF IInv, Carried, Successful
<1> QED BY <1>1, <1>2, <1>3 DEF Kept, IInv, TypeOK

LEMMA Registers ==
    ASSUME IInv, NEW w \in Workers, NEW b \in BOOLEAN, RegisterRefresh(w, b)
    PROVE  Kept /\ RunsTyped /\ receipt' \in [Customers -> BOOLEAN]
<1>1. PICK c \in Customers : c = run[w].key
  BY DEF IInv, TypeOK, RegisterRefresh
<1>2. Successful(c)
  BY <1>1 DEF IInv, Carried, RegisterRefresh
<1>3. RunsTyped /\ Carried(w)' /\ \A v \in Workers : v # w => run'[v] = run[v]
  BY Ending DEF RegisterRefresh, IInv
<1>4. receipt' = [receipt EXCEPT ![c] = receipt[c] \/ b]
  BY <1>1 DEF RegisterRefresh
<1>5. jobs' = jobs /\ skipReason' = skipReason /\ writes' = writes
  BY DEF RegisterRefresh
<1> QED BY <1>2, <1>3, <1>4, <1>5, Refreshing

LEMMA Repairs ==
    ASSUME IInv, NEW c \in Customers, RepairReceipt(c)
    PROVE  Kept /\ receipt' \in [Customers -> BOOLEAN]
<1>1. Successful(c) /\ UNCHANGED <<jobs, skipReason, writes, run>>
  BY DEF RepairReceipt, ReceiptDue, Successful
<1>2. receipt' \in [Customers -> BOOLEAN] /\ \A d \in Customers : d # c => receipt'[d] = receipt[d]
  BY DEF RepairReceipt, IInv, TypeOK
<1>3. \A d \in Customers : RowShape(d)'
  BY <1>1, <1>2 DEF IInv, RowShape, Successful
<1>4. \A v \in Workers : Carried(v)'
  BY <1>1 DEF IInv, Carried, Successful
<1> QED BY <1>1, <1>2, <1>3, <1>4 DEF Kept, IInv, TypeOK

\* What the users of the customer record do to it.
UserStep ==
    \E c \in Customers : \/ \E f \in {"missing", "user"} : CreateCustomer(c, f)
                         \/ \E f \in Field : EditCustomer(c, f)
                         \/ DeleteCustomer(c)

LEMMA UsersWrite ==
    ASSUME TypeOK, UserStep
    PROVE  customer' \in [Customers -> CustomerRecords]
<1>1. ASSUME NEW c \in Customers, NEW new \in CustomerRecords, customer' = [customer EXCEPT ![c] = new]
      PROVE  customer' \in [Customers -> CustomerRecords]
  BY <1>1 DEF TypeOK, CustomerRecords
<1>2. ASSUME NEW c \in Customers, NEW f \in Field, customer' = [customer EXCEPT ![c].field = f]
      PROVE  customer' \in [Customers -> CustomerRecords]
  <2> DEFINE new == [customer[c] EXCEPT !.field = f]
  <2>1. new \in CustomerRecords
    BY DEF TypeOK, CustomerRecords
  <2>2. customer' = [customer EXCEPT ![c] = new]
    BY <1>2
  <2> HIDE DEF new
  <2> QED BY <1>1, <2>1, <2>2
<1>3. ASSUME NEW c \in Customers, NEW f \in Field, EditCustomer(c, f)
      PROVE  customer' \in [Customers -> CustomerRecords]
  <2> DEFINE new == [field |-> f, version |-> customer[c].version + 1]
  <2>1. new \in CustomerRecords
    BY DEF TypeOK, CustomerRecords
  <2>2. customer' = [customer EXCEPT ![c] = new]
    BY <1>3 DEF EditCustomer
  <2> HIDE DEF new
  <2> QED BY <1>1, <2>1, <2>2
<1> QED BY <1>2, <1>3 DEF UserStep, CreateCustomer, DeleteCustomer, Field

-----------------------------------------------------------------------------
(* The invariant. *)

LEMMA InitHolds == Init => IInv
<1> SUFFICES ASSUME Init PROVE IInv
  OBVIOUS
<1>1. TypeOK
  BY Blanks, EnrichmentAssumption DEF Init, TypeOK, Field, Reason
<1>2. ASSUME NEW c \in Customers PROVE RowShape(c)
  BY Blanks DEF Init, RowShape, Successful
<1>3. ASSUME NEW w \in Workers PROVE Carried(w)
  BY Blanks DEF Init, Carried, Executing
<1> QED BY <1>1, <1>2, <1>3 DEF IInv

\* What is left to show of a step that keeps the rows and the runs.
LEMMA Inductive ==
    ASSUME Kept, RunsTyped, customer' \in [Customers -> CustomerRecords],
           registering' \in SUBSET Customers, skipReason' \in [Customers -> Reason],
           receipt' \in [Customers -> BOOLEAN], writes' \in [Customers -> Nat],
           crashes' \in 0 .. MaxCrashes
    PROVE  IInv'
BY DEF Kept, RunsTyped, IInv, TypeOK, CustomerRecords

LEMMA NextIInv == IInv /\ [Next]_vars => IInv'
<1> SUFFICES ASSUME IInv, [Next]_vars PROVE IInv'
  OBVIOUS
<1>t. /\ TypeOK
      /\ run' = run => RunsTyped
      /\ customer \in [Customers -> CustomerRecords] /\ registering \in SUBSET Customers
      /\ skipReason \in [Customers -> Reason] /\ receipt \in [Customers -> BOOLEAN]
      /\ writes \in [Customers -> Nat] /\ crashes \in 0 .. MaxCrashes
  BY DEF IInv, TypeOK, CustomerRecords, RunsTyped
<1>k. jobs' = jobs /\ skipReason' = skipReason /\ receipt' = receipt /\ writes' = writes /\ run' = run
      => Kept
  BY NothingHappens DEF Kept, IInv, TypeOK
<1>1. ASSUME NEW c \in Customers, NEW f \in {"missing", "user"}, CreateCustomer(c, f) PROVE IInv'
  <2>1. Kept /\ registering' \in SUBSET Customers
    BY <1>1, <1>t, <1>k, Ensuring DEF CreateCustomer
  <2>2. customer' \in [Customers -> CustomerRecords]
    BY <1>1, <1>t, UsersWrite DEF UserStep
  <2> QED BY <1>1, <1>t, <2>1, <2>2, Inductive DEF CreateCustomer
<1>2. ASSUME NEW c \in Customers, RegisterAfterCommit(c) \/ Backfill(c) PROVE IInv'
  <2>1. Kept
    BY <1>2, Ensuring DEF RegisterAfterCommit, Backfill
  <2> QED BY <1>2, <1>t, <2>1, Inductive DEF RegisterAfterCommit, Backfill
<1>3. ASSUME NEW c \in Customers, Requeue(c) PROVE IInv'
  <2>1. receipt' \in [Customers -> BOOLEAN]
    BY <1>3, <1>t DEF Requeue
  <2> QED BY <1>3, <1>t, <2>1, Requeuing, Inductive DEF Requeue
<1>4. ASSUME NEW c \in Customers, RepairReceipt(c) PROVE IInv'
  BY <1>4, <1>t, Repairs, Inductive DEF RepairReceipt
<1>5. ASSUME NEW c \in Customers, LeaseExpires(c) \/ Due(c) PROVE IInv'
  BY <1>5, <1>t, Ticking, Inductive DEF LeaseExpires, Due
<1>6. ASSUME NEW c \in Customers, (\E f \in Field : EditCustomer(c, f)) \/ DeleteCustomer(c) PROVE IInv'
  <2>1. customer' \in [Customers -> CustomerRecords]
    BY <1>6, <1>t, UsersWrite DEF UserStep
  <2> QED BY <1>6, <1>t, <1>k, <2>1, Inductive DEF EditCustomer, DeleteCustomer
<1>7. ASSUME NEW w \in Workers, NEW c \in Customers, Execute(w, c) PROVE IInv'
  BY <1>7, <1>t, Executes, Inductive DEF Execute
<1>8. ASSUME NEW w \in Workers, MovesOn(w) PROVE IInv'
  <2>1. UNCHANGED <<customer, registering, jobs, skipReason, receipt, writes, crashes>>
    BY <1>8, <1>t, Moving
  <2> QED BY <1>8, <1>t, <2>1, Moves, Inductive
<1>9. ASSUME NEW w \in Workers, Apply(w) PROVE IInv'
  <2>1. PICK c \in Customers : run[w].key = c
    BY <1>9, <1>t DEF Apply, TypeOK
  <2> QED BY <1>9, <1>t, <2>1, Applies, Inductive DEF Apply
<1>10. ASSUME NEW w \in Workers, RecordSkip(w) PROVE IInv'
  <2>1. PICK c \in Customers : run[w].key = c
    BY <1>10, <1>t DEF RecordSkip, TypeOK
  <2> QED BY <1>10, <1>t, <2>1, RecordsSkip, Inductive DEF RecordSkip
<1>11. ASSUME NEW w \in Workers, RecordFailure(w) PROVE IInv'
  <2>1. PICK c \in Customers : run[w].key = c
    BY <1>11, <1>t DEF RecordFailure, TypeOK
  <2> QED BY <1>11, <1>t, <2>1, RecordsFailure, Inductive DEF RecordFailure
<1>12. ASSUME NEW w \in Workers, NEW b \in BOOLEAN, RegisterRefresh(w, b) PROVE IInv'
  BY <1>12, <1>t, Registers, Inductive DEF RegisterRefresh
<1>13. ASSUME NEW w \in Workers, Crash(w) PROVE IInv'
  <2>1. crashes' \in 0 .. MaxCrashes
    BY <1>13, <1>t, EnrichmentAssumption DEF Crash
  <2>2. Kept /\ RunsTyped
    BY <1>13, EndsOnly DEF Crash
  <2> QED BY <1>13, <1>t, <2>1, <2>2, Inductive DEF Crash
<1>14. CASE UNCHANGED vars
  BY <1>14, <1>t, <1>k, Inductive DEF vars
<1> QED
  BY <1>1, <1>2, <1>3, <1>4, <1>5, <1>6, <1>7, <1>8, <1>9, <1>10, <1>11, <1>12, <1>13, <1>14
     DEF Next, Kick, Recover, MovesOn

\* The invariant holds in every reachable state.
THEOREM Invariance == Spec => []IInv
BY InitHolds, NextIInv, PTL DEF Spec

\* Every variable has its type in every reachable state.
THEOREM TypeCorrect == Spec => []TypeOK
BY Invariance, PTL DEF IInv

\* The model's value was written exactly once for a completed job and never for
\* any other, however often executions of it overlapped, failed or died (Apply,
\* RecordSkip, RecordFailure).
THEOREM WrittenOnce == Spec => []CompletedMeansWrittenOnce
<1>1. IInv => CompletedMeansWrittenOnce
  BY DEF IInv, RowShape, CompletedMeansWrittenOnce
<1> QED BY <1>1, Invariance, PTL

\* A refresh receipt stands for a job that ended well, on whichever side of a
\* requeue or of the repair loop it is written (RegisterRefresh, RepairReceipt).
THEOREM ReceiptsStandForSuccess == Spec => []ReceiptOnlyAfterSuccess
<1>1. IInv => ReceiptOnlyAfterSuccess
  BY DEF IInv, RowShape, Successful, ReceiptOnlyAfterSuccess
<1> QED BY <1>1, Invariance, PTL

\* No step of any run replaces a value a user entered: the compare-and-set of
\* Apply asks for a missing value of the version that was read.
THEOREM UserValuesSurvive == Spec => UserValueSurvives
<1> DEFINE Survives == \A c \in Customers : customer[c].field = "user" => customer'[c].field # "model"
<1>1. TypeOK /\ [Next]_vars => Survives
  <2> SUFFICES ASSUME TypeOK, [Next]_vars PROVE Survives
    OBVIOUS
  <2>1. CASE customer' = customer
    BY <2>1
  <2>2. ASSUME NEW d \in Customers, NEW f \in Field, f # "model" \/ f = customer[d].field,
               \A b \in Customers : b # d => customer'[b] = customer[b], customer'[d].field = f
        PROVE  Survives
    BY <2>2
  <2>3. ASSUME NEW d \in Customers, NEW f \in {"missing", "user"}, CreateCustomer(d, f) PROVE Survives
    BY <2>3, <2>2 DEF CreateCustomer, TypeOK, Field
  <2>4. ASSUME NEW d \in Customers, NEW f \in Field, EditCustomer(d, f) PROVE Survives
    BY <2>4, <2>2 DEF EditCustomer, TypeOK, Field
  <2>5. ASSUME NEW d \in Customers, DeleteCustomer(d) PROVE Survives
    BY <2>5, <2>2 DEF DeleteCustomer, TypeOK, Field
  <2>6. ASSUME NEW w \in Workers, Apply(w) PROVE Survives
    <3>1. PICK c \in Customers : run[w].key = c
      BY <2>6 DEF Apply, TypeOK
    <3>2. CASE customer' = customer
      BY <3>2, <2>1
    <3>3. CASE CanApply(c, run[w].version) /\ WriteAndComplete(w, c)
      <4>1. customer[c].field = "missing"
        BY <3>3 DEF CanApply, Missing
      <4>2. \A b \in Customers : b # c => customer'[b] = customer[b]
        BY <3>3 DEF WriteAndComplete, TypeOK
      <4> QED BY <4>1, <4>2
    <3> QED BY <2>6, <3>1, <3>2, <3>3 DEF Apply
  <2>7. CASE UNCHANGED vars
    BY <2>7, <2>1 DEF vars
  <2> HIDE DEF Survives
  <2> QED
    BY <2>1, <2>3, <2>4, <2>5, <2>6, <2>7
       DEF Next, Kick, Recover, Execute, RegisterAfterCommit, Backfill, Requeue, RepairReceipt,
           LeaseExpires, Due, LoadContext, Infer, RegisterRefresh, ClassifyConflict, RecordSkip,
           RecordFailure, Crash
<1> QED BY <1>1, TypeCorrect, PTL DEF Spec, UserValueSurvives

-----------------------------------------------------------------------------
(* Refinement: each step is a step of the abstract job table or a stutter. *)

\* The abstract job a row is mapped to.
Image(row) == [phase |-> AbstractPhase(row), holder |-> row.owner, tries |-> row.attempts]

\* What the mapping makes of rows, of the rows the actions write, and of runs.
LEMMA Images ==
    /\ \A c \in Customers : AbstractJob[c] = Image(jobs[c])
    /\ \A row : /\ Image(row).phase = "none" <=> row.status = "ABSENT"
                /\ Image(row).phase = "open" <=> row.status \in {"QUEUED", "FAILED"}
                /\ Image(row).phase = "held" <=> row.status = "RUNNING"
                /\ Image(row).holder = row.owner /\ Image(row).tries = row.attempts
    /\ Image(AbsentRow) = Durable!Fresh("none")
    /\ \A row, w : Image(Claimed(row, w)) = [phase |-> "held", holder |-> w, tries |-> row.attempts + 1]
    /\ \A row : \A o \in Terminal : Image(Closed(row, o)) =
                     [phase |-> "closed", holder |-> NoWorker, tries |-> row.attempts]
    /\ \A row : Image(RetryLater(row)) =
                     [phase |-> "open", holder |-> NoWorker, tries |-> row.attempts]
BY DEF AbstractJob, Image, AbstractPhase, AbsentRow, FreeRow, Claimed, Closed, RetryLater,
       Terminal, Durable!Fresh

LEMMA FreshImage == \A due \in BOOLEAN : Image(Waiting(due)) = Durable!Fresh("open")
BY Blanks DEF Image, AbstractPhase, Durable!Fresh

LEMMA MappedJob ==
    ASSUME TypeOK, NEW c \in Customers, NEW row, jobs' = [jobs EXCEPT ![c] = row]
    PROVE  AbstractJob' = [AbstractJob EXCEPT ![c] = Image(row)]
BY DEF AbstractJob, TypeOK, Image

LEMMA MappedTicket ==
    ASSUME TypeOK, NEW w \in Workers, NEW e, run' = [run EXCEPT ![w] = e]
    PROVE  AbstractTicket' = [AbstractTicket EXCEPT ![w] = IF e.pc \in Executing THEN e.key ELSE NoCustomer]
BY DEF AbstractTicket, TypeOK

\* A run that ends, or leaves for the refresh, without touching a row.
LEMMA Abandons ==
    ASSUME TypeOK, NEW w \in Workers, NEW e, e.pc \notin Executing,
           jobs' = jobs, run' = [run EXCEPT ![w] = e]
    PROVE  [Durable!Next]_Durable!vars
<1>1. AbstractJob' = AbstractJob
  BY DEF AbstractJob
<1>2. AbstractTicket' = [AbstractTicket EXCEPT ![w] = NoCustomer]
  BY MappedTicket
<1>3. CASE AbstractTicket[w] = NoCustomer
  BY <1>1, <1>2, <1>3 DEF AbstractTicket, Durable!vars
<1>4. CASE AbstractTicket[w] # NoCustomer
  BY <1>1, <1>2, <1>4 DEF Durable!Next, Durable!Abandon
<1> QED BY <1>3, <1>4

\* The holder closes its job or gives it back, and stops executing it.
LEMMA Returns ==
    ASSUME TypeOK, NEW w \in Workers, run[w].pc \in Executing,
           NEW c \in Customers, run[w].key = c, OwnsLease(jobs[c], w),
           NEW p \in {"open", "closed"}, p = "open" => jobs[c].attempts < MaxAttempts,
           NEW row, jobs' = [jobs EXCEPT ![c] = row],
           Image(row) = [phase |-> p, holder |-> NoWorker, tries |-> jobs[c].attempts],
           NEW e, e.pc \notin Executing, run' = [run EXCEPT ![w] = e]
    PROVE  Durable!Next
<1>1. AbstractTicket' = [AbstractTicket EXCEPT ![w] = NoCustomer]
  BY MappedTicket
<1>2. AbstractJob' = [AbstractJob EXCEPT ![c] =
                        [phase |-> p, holder |-> NoWorker, tries |-> jobs[c].attempts]]
  <2>1. AbstractJob' = [AbstractJob EXCEPT ![c] = Image(row)]
    BY MappedJob
  <2> QED BY <2>1
<1>3. /\ AbstractTicket[w] = c /\ c # NoCustomer
      /\ AbstractJob[c].phase = "held" /\ AbstractJob[c].holder = w
      /\ AbstractJob[c].tries = jobs[c].attempts
  <2>1. AbstractTicket[w] = c /\ c # NoCustomer
    BY EnrichmentAssumption DEF AbstractTicket
  <2>2. AbstractJob[c] = Image(jobs[c])
    BY Images
  <2>3. jobs[c].status = "RUNNING" /\ jobs[c].owner = w
    BY DEF OwnsLease
  <2>4. Image(jobs[c]).phase = "held" /\ Image(jobs[c]).holder = w
        /\ Image(jobs[c]).tries = jobs[c].attempts
    BY <2>3 DEF Image, AbstractPhase
  <2> QED BY <2>1, <2>2, <2>4
<1>4. Durable!Return(w, p)
  BY <1>1, <1>2, <1>3 DEF Durable!Return
<1> QED BY <1>4 DEF Durable!Next

LEMMA Accepts ==
    ASSUME TypeOK, NEW c \in Customers, NEW due \in BOOLEAN, Ensure(c, due), run' = run
    PROVE  [Durable!Next]_Durable!vars
<1>1. AbstractTicket' = AbstractTicket
  BY DEF AbstractTicket
<1>2. CASE jobs' = jobs
  BY <1>1, <1>2 DEF AbstractJob, Durable!vars
<1>3. CASE jobs[c].status = "ABSENT" /\ jobs' = [jobs EXCEPT ![c] = Waiting(due)]
  <2>1. AbstractJob[c].phase = "none"
    BY <1>3, Images
  <2>2. AbstractJob' = [AbstractJob EXCEPT ![c] = Durable!Fresh("open")]
    <3>1. AbstractJob' = [AbstractJob EXCEPT ![c] = Image(Waiting(due))]
      BY <1>3, MappedJob
    <3> QED BY <3>1, FreshImage
  <2> QED BY <1>1, <2>1, <2>2 DEF Durable!Next, Durable!Accept
<1> QED BY <1>2, <1>3 DEF Ensure

LEMMA Reopens ==
    ASSUME TypeOK, NEW c \in Customers, Requeue(c)
    PROVE  Durable!Next
<1>1. AbstractTicket' = AbstractTicket
  BY DEF AbstractTicket, Requeue
<1>2. AbstractJob[c].phase # "none"
  BY Images DEF Requeue
<1>3. AbstractJob' = [AbstractJob EXCEPT ![c] = Durable!Fresh("open")]
  <2>1. AbstractJob' = [AbstractJob EXCEPT ![c] = Image(Waiting(TRUE))]
    BY MappedJob DEF Requeue
  <2> QED BY <2>1, FreshImage
<1> QED BY <1>1, <1>2, <1>3 DEF Durable!Next, Durable!Reopen

LEMMA Claims ==
    ASSUME TypeOK, NEW w \in Workers, NEW c \in Customers, Execute(w, c)
    PROVE  Durable!Next
<1>1. jobs[c] \in Row /\ run[w].pc = "idle"
  BY DEF TypeOK, Execute
<1>2. CASE SpentAndFree(jobs[c]) /\ jobs' = [jobs EXCEPT ![c] = Closed(jobs[c], "EXHAUSTED")] /\ run' = run
  <2>1. AbstractTicket' = AbstractTicket
    BY <1>2 DEF AbstractTicket
  <2>2. AbstractJob' = [AbstractJob EXCEPT ![c] =
                          [phase |-> "closed", holder |-> NoWorker, tries |-> jobs[c].attempts]]
    <3>1. AbstractJob' = [AbstractJob EXCEPT ![c] = Image(Closed(jobs[c], "EXHAUSTED"))]
      BY <1>2, MappedJob
    <3> QED BY <3>1, Images DEF Terminal
  <2>3. jobs[c].attempts = MaxAttempts
    BY <1>1, <1>2, LeasedJobAssumption DEF SpentAndFree, Row
  <2>4. AbstractJob[c].phase \in {"open", "held"} /\ AbstractJob[c].tries = jobs[c].attempts
    BY <1>2, Images DEF SpentAndFree
  <2> QED BY <2>1, <2>2, <2>3, <2>4 DEF Durable!Next, Durable!GiveUp
<1>3. CASE /\ Claimable(jobs[c]) /\ jobs' = [jobs EXCEPT ![c] = Claimed(jobs[c], w)]
           /\ run' = [run EXCEPT ![w] = Started(c)]
  <2>1. jobs[c].attempts < MaxAttempts /\ jobs[c].status \in {"QUEUED", "FAILED", "RUNNING"}
    BY <1>3 DEF Claimable, Lapsed
  <2>2. AbstractTicket' = [AbstractTicket EXCEPT ![w] = c]
    <3>1. Started(c).pc \in Executing /\ Started(c).key = c
      BY <2>1, Starting DEF Executing
    <3>2. AbstractTicket' = [AbstractTicket EXCEPT ![w] =
                               IF Started(c).pc \in Executing THEN Started(c).key ELSE NoCustomer]
      BY <1>3, MappedTicket
    <3> QED BY <3>1, <3>2
  <2>3. AbstractJob' = [AbstractJob EXCEPT ![c] =
                          [phase |-> "held", holder |-> w, tries |-> jobs[c].attempts + 1]]
    <3>1. AbstractJob' = [AbstractJob EXCEPT ![c] = Image(Claimed(jobs[c], w))]
      BY <1>3, MappedJob
    <3> QED BY <3>1, Images
  <2>4. AbstractTicket[w] = NoCustomer
    BY <1>1 DEF AbstractTicket, Executing
  <2>5. AbstractJob[c].phase \in {"open", "held"} /\ AbstractJob[c].tries = jobs[c].attempts
    BY <2>1, Images
  <2>6. Durable!Take(w, c)
    BY <2>1, <2>2, <2>3, <2>4, <2>5 DEF Durable!Take
  <2> QED BY <2>6 DEF Durable!Next
<1> QED BY <1>2, <1>3 DEF Execute, ClaimableDue, Started

\* A step that leaves every row its owner, its attempts and its phase, and
\* every run its key.
LEMMA Stutters ==
    ASSUME TypeOK, \A c \in Customers : Image(jobs'[c]) = Image(jobs[c]),
           \A w \in Workers : /\ run'[w].pc \in Executing <=> run[w].pc \in Executing
                              /\ run'[w].key = run[w].key \/ run'[w].pc \notin Executing
    PROVE  UNCHANGED Durable!vars
<1>1. AbstractJob' = AbstractJob
  BY DEF AbstractJob, Image
<1>2. AbstractTicket' = AbstractTicket
  BY DEF AbstractTicket
<1> QED BY <1>1, <1>2 DEF Durable!vars

LEMMA RefinesInit == Init => Durable!Init
<1> SUFFICES ASSUME Init PROVE Durable!Init
  OBVIOUS
<1>1. AbstractJob = [c \in Customers |-> Durable!Fresh("none")]
  BY Images DEF Init, AbstractJob, Image
<1>2. AbstractTicket = [w \in Workers |-> NoCustomer]
  BY Blanks DEF Init, AbstractTicket, Executing
<1> QED BY <1>1, <1>2 DEF Durable!Init

LEMMA RefinesNext == IInv /\ [Next]_vars => [Durable!Next]_Durable!vars
<1> SUFFICES ASSUME IInv, [Next]_vars PROVE [Durable!Next]_Durable!vars
  OBVIOUS
<1>t. TypeOK
  BY DEF IInv
<1>i. Idle.pc \notin Executing
  BY Blanks DEF Executing
<1>0. ASSUME jobs' = jobs, run' = run PROVE [Durable!Next]_Durable!vars
  BY <1>0, <1>t, Stutters
<1>1. ASSUME NEW c \in Customers, NEW due \in BOOLEAN, Ensure(c, due), run' = run
      PROVE  [Durable!Next]_Durable!vars
  BY <1>1, <1>t, Accepts
<1>2. ASSUME NEW c \in Customers, LeaseExpires(c) \/ Due(c) PROVE [Durable!Next]_Durable!vars
  <2>1. \A b \in Customers : /\ jobs'[b].status = jobs[b].status /\ jobs'[b].owner = jobs[b].owner
                             /\ jobs'[b].attempts = jobs[b].attempts
    <3>1. jobs[c] \in Row /\ \A b \in Customers : b # c => jobs'[b] = jobs[b]
      BY <1>2, <1>t DEF LeaseExpires, Due, TypeOK
    <3>2. jobs'[c] = [jobs[c] EXCEPT !.live = FALSE] \/ jobs'[c] = [jobs[c] EXCEPT !.due = TRUE]
      BY <1>2, <1>t DEF LeaseExpires, Due, TypeOK
    <3> QED BY <3>1, <3>2 DEF Row
  <2>2. \A b \in Customers : Image(jobs'[b]) = Image(jobs[b])
    BY <2>1 DEF Image, AbstractPhase
  <2> QED BY <1>2, <1>t, <2>2, Stutters DEF LeaseExpires, Due
<1>3. ASSUME NEW w \in Workers, MovesOn(w) PROVE [Durable!Next]_Durable!vars
  <2>1. PICK e \in Run : /\ run' = [run EXCEPT ![w] = e]
                         /\ e.pc \in Executing /\ e.key = run[w].key /\ e.tries = run[w].tries
    BY <1>3, <1>t, Moving
  <2>2. jobs' = jobs /\ run[w].pc \in Executing
    BY <1>3, <1>t, Moving
  <2>3. \A v \in Workers : /\ run'[v].pc \in Executing <=> run[v].pc \in Executing
                           /\ run'[v].key = run[v].key
    BY <1>t, <2>1, <2>2 DEF TypeOK
  <2> QED BY <1>t, <2>2, <2>3, Stutters
<1>4. ASSUME NEW w \in Workers, Apply(w) PROVE [Durable!Next]_Durable!vars
  <2>1. PICK c \in Customers : run[w].key = c
    BY <1>4, <1>t DEF Apply, TypeOK
  <2>2. run[w].pc \in Executing /\ run[w] \in Run
    BY <1>4, <1>t DEF Apply, Executing, TypeOK
  <2>3. CASE jobs' = jobs /\ run' = [run EXCEPT ![w] = Idle]
    BY <1>t, <1>i, <2>3, Abandons
  <2>4. CASE jobs' = jobs /\ (Goto(w, "conflict") \/ Goto(w, "fail"))
    <3>1. \A v \in Workers : /\ run'[v].pc \in Executing <=> run[v].pc \in Executing
                             /\ run'[v].key = run[v].key
      BY <1>t, <2>2, <2>4 DEF Goto, TypeOK, Run, Executing
    <3> QED BY <1>t, <2>4, <3>1, Stutters
  <2>5. CASE OwnsLiveLease(jobs[c], w) /\ WriteAndComplete(w, c)
    <3> DEFINE e == [run[w] EXCEPT !.pc = "refresh"]
    <3>1. e.pc \notin Executing /\ run' = [run EXCEPT ![w] = e]
      BY <2>2, <2>5 DEF WriteAndComplete, Goto, Run, Executing
    <3> HIDE DEF e
    <3>2. jobs' = [jobs EXCEPT ![c] = Closed(jobs[c], "COMPLETED")] /\ OwnsLease(jobs[c], w)
      BY <2>5 DEF WriteAndComplete, OwnsLiveLease
    <3>3. Image(Closed(jobs[c], "COMPLETED")) =
            [phase |-> "closed", holder |-> NoWorker, tries |-> jobs[c].attempts]
      BY Images DEF Terminal
    <3> QED BY <1>t, <2>1, <2>2, <3>1, <3>2, <3>3, Returns
  <2> QED BY <1>4, <2>1, <2>3, <2>4, <2>5 DEF Apply
<1>5. ASSUME NEW w \in Workers, RecordSkip(w) PROVE [Durable!Next]_Durable!vars
  <2>1. PICK c \in Customers : run[w].key = c
    BY <1>5, <1>t DEF RecordSkip, TypeOK
  <2>2. run[w].pc \in Executing /\ run[w] \in Run
    BY <1>5, <1>t DEF RecordSkip, Executing, TypeOK
  <2>3. CASE jobs' = jobs /\ run' = [run EXCEPT ![w] = Idle]
    BY <1>t, <1>i, <2>3, Abandons
  <2>4. CASE /\ OwnsLease(jobs[c], w) /\ jobs' = [jobs EXCEPT ![c] = Closed(jobs[c], "SKIPPED")]
             /\ run' = [run EXCEPT ![w] = IF Refreshes(run[w].reason)
                                          THEN [run[w] EXCEPT !.pc = "refresh"] ELSE Idle]
    <3> DEFINE e == IF Refreshes(run[w].reason) THEN [run[w] EXCEPT !.pc = "refresh"] ELSE Idle
    <3>1. e.pc \notin Executing /\ run' = [run EXCEPT ![w] = e]
      BY <1>i, <2>2, <2>4 DEF Run, Executing
    <3> HIDE DEF e
    <3>2. Image(Closed(jobs[c], "SKIPPED")) =
            [phase |-> "closed", holder |-> NoWorker, tries |-> jobs[c].attempts]
      BY Images DEF Terminal
    <3> QED BY <1>t, <2>1, <2>2, <2>4, <3>1, <3>2, Returns
  <2> QED BY <1>5, <2>1, <2>3, <2>4 DEF RecordSkip
<1>6. ASSUME NEW w \in Workers, RecordFailure(w) PROVE [Durable!Next]_Durable!vars
  <2>1. PICK c \in Customers : run[w].key = c
    BY <1>6, <1>t DEF RecordFailure, TypeOK
  <2>2. run[w].pc \in Executing /\ jobs[c] \in Row /\ run' = [run EXCEPT ![w] = Idle]
    BY <1>6, <1>t, <2>1 DEF RecordFailure, Executing, TypeOK
  <2>3. CASE jobs' = jobs
    BY <1>t, <1>i, <2>2, <2>3, Abandons
  <2>4. CASE OwnsLease(jobs[c], w) /\ Spent(run[w].tries)
             /\ jobs' = [jobs EXCEPT ![c] = Closed(jobs[c], "EXHAUSTED")]
    <3>1. Image(Closed(jobs[c], "EXHAUSTED")) =
            [phase |-> "closed", holder |-> NoWorker, tries |-> jobs[c].attempts]
      BY Images DEF Terminal
    <3> QED BY <1>t, <1>i, <2>1, <2>2, <2>4, <3>1, Returns
  <2>5. CASE OwnsLease(jobs[c], w) /\ ~Spent(run[w].tries)
             /\ jobs' = [jobs EXCEPT ![c] = RetryLater(jobs[c])]
    <3>1. jobs[c].attempts < MaxAttempts
      <4>1. run[w].tries = jobs[c].attempts
        BY <2>1, <2>2, <2>5 DEF IInv, Carried, OwnsLease
      <4> QED BY <2>2, <2>5, <4>1, LeasedJobAssumption DEF Spent, Row
    <3>2. Image(RetryLater(jobs[c])) = [phase |-> "open", holder |-> NoWorker, tries |-> jobs[c].attempts]
      BY Images
    <3> QED BY <1>t, <1>i, <2>1, <2>2, <2>5, <3>1, <3>2, Returns
  <2> QED BY <1>6, <2>1, <2>3, <2>4, <2>5 DEF RecordFailure
<1>7. ASSUME NEW w \in Workers, jobs' = jobs, run' = [run EXCEPT ![w] = Idle]
      PROVE  [Durable!Next]_Durable!vars
  BY <1>7, <1>t, <1>i, Abandons
<1>8. ASSUME NEW c \in Customers, NEW f \in {"missing", "user"}, CreateCustomer(c, f)
      PROVE  [Durable!Next]_Durable!vars
  BY <1>8, <1>0, <1>1 DEF CreateCustomer
<1>9. ASSUME NEW c \in Customers, RegisterAfterCommit(c) \/ Backfill(c) PROVE [Durable!Next]_Durable!vars
  BY <1>9, <1>1 DEF RegisterAfterCommit, Backfill
<1>10. ASSUME NEW c \in Customers, Requeue(c) PROVE [Durable!Next]_Durable!vars
  BY <1>10, <1>t, Reopens
<1>11. ASSUME NEW c \in Customers,
              RepairReceipt(c) \/ (\E f \in Field : EditCustomer(c, f)) \/ DeleteCustomer(c)
       PROVE  [Durable!Next]_Durable!vars
  BY <1>11, <1>0 DEF RepairReceipt, EditCustomer, DeleteCustomer
<1>12. ASSUME NEW w \in Workers, NEW c \in Customers, Execute(w, c) PROVE [Durable!Next]_Durable!vars
  BY <1>12, <1>t, Claims
<1>13. ASSUME NEW w \in Workers, Crash(w) \/ \E b \in BOOLEAN : RegisterRefresh(w, b)
       PROVE  [Durable!Next]_Durable!vars
  BY <1>13, <1>7 DEF Crash, RegisterRefresh
<1>14. CASE UNCHANGED vars
  BY <1>14, <1>0 DEF vars
<1> QED
  BY <1>2, <1>3, <1>4, <1>5, <1>6, <1>8, <1>9, <1>10, <1>11, <1>12, <1>13, <1>14
     DEF Next, Kick, Recover, MovesOn

\* The enrichment table implements the abstract durable job table: only the
\* execution that holds a job closes it or gives it back, and at most
\* MaxAttempts executions start per opening.
THEOREM Refinement == Spec => ImplementsDurableJob
BY Invariance, RefinesInit, RefinesNext, PTL DEF Spec, ImplementsDurableJob, Durable!Spec

=============================================================================
