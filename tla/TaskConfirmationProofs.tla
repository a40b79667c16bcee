------------------------ MODULE TaskConfirmationProofs ------------------------
(***************************************************************************)
(* Theorems about TaskConfirmation, for any number of activities,          *)
(* revisions, cases, attempts, runs and requests.                          *)
(*                                                                         *)
(* Most steps leave a case as it is or cancel it (Eased): no such step     *)
(* makes a pending case of one that was not, or touches its answer.  What  *)
(* is left is the step that raises a case and the one that answers it.     *)
(***************************************************************************)
EXTENDS TaskConfirmation, FiniteSetTheorems, TLAPS

\* No case becomes pending, changes hands or is answered.
Eased ==
    /\ case' \in [Cases -> CaseRecords]
    /\ \A c \in Cases :
          /\ case'[c].source = case[c].source /\ case'[c].revision = case[c].revision
          /\ case'[c].application = case[c].application /\ case'[c].transitions = case[c].transitions
          /\ case'[c].status # case[c].status => case[c].status = "PENDING" /\ case'[c].status # "PENDING"

LEMMA SomeKeyIsKey == SomeKey \in Keys
<1>1. 1 \in Cases /\ 1 \in Revisions
  BY ConfirmationAssumption DEF Cases, Revisions
<1>2. PICK a \in Activities : TRUE
  BY ConfirmationAssumption
<1>3. [case |-> 1, origin |-> a, source |-> a, revision |-> 1] \in Keys
  BY <1>1, <1>2 DEF Keys
<1> QED BY <1>3 DEF SomeKey

LEMMA KeyFields ==
    ASSUME NEW k \in Keys
    PROVE  k.case \in Cases /\ k.source \in Activities /\ k.revision \in Revisions /\ k.origin \in Activities
BY DEF Keys

LEMMA Blanks ==
    /\ NoCase \in CaseRecords /\ [NoCase EXCEPT !.status = "CANCELLED"] \in CaseRecords
    /\ NoDelivery \in DeliveryRecords
    /\ IdleRun \in RunRecords /\ [IdleRun EXCEPT !.pc = "off"] \in RunRecords
    /\ NoRequest \in RequestRecords /\ [NoRequest EXCEPT !.act = "off"] \in RequestRecords
<1>1. SomeKey.case \in Cases /\ SomeKey.source \in Activities
  BY SomeKeyIsKey, KeyFields
<1>2. 1 \in Revisions /\ 0 \in 0 .. MaxAttempts
  BY ConfirmationAssumption DEF Revisions
<1>3. NoCase \in CaseRecords
  BY <1>1, <1>2 DEF NoCase, CaseRecords
<1>4. [NoCase EXCEPT !.status = "CANCELLED"] \in CaseRecords
  BY <1>3, SMT DEF CaseRecords
<1>5. NoDelivery \in DeliveryRecords
  BY <1>2 DEF NoDelivery, DeliveryRecords, DeliveryStatus
<1>6. IdleRun \in RunRecords
  BY SomeKeyIsKey DEF IdleRun, RunRecords, DeliveryStatus
<1>7. [IdleRun EXCEPT !.pc = "off"] \in RunRecords
  BY <1>6, SMT DEF RunRecords
<1>8. NoRequest \in RequestRecords
  BY <1>1 DEF NoRequest, RequestRecords, Answer
<1>9. [NoRequest EXCEPT !.act = "off"] \in RequestRecords
  BY <1>8, SMT DEF RequestRecords
<1> QED BY <1>3, <1>4, <1>5, <1>6, <1>7, <1>8, <1>9

LEMMA CancelledEffect ==
    ASSUME TypeOK, NEW S
    PROVE  /\ Cancelled(S) \in [Cases -> CaseRecords]
           /\ \A c \in Cases : c \notin S => Cancelled(S)[c] = case[c]
           /\ \A c \in S \cap Cases : Cancelled(S)[c] = [case[c] EXCEPT !.status = "CANCELLED"]
<1>1. \A c \in Cases : case[c] \in CaseRecords
  BY DEF TypeOK
<1>2. \A c \in Cases : [case[c] EXCEPT !.status = "CANCELLED"] \in CaseRecords
  BY <1>1, SMT DEF CaseRecords
<1> QED BY <1>1, <1>2 DEF Cancelled

\* Cancelling pending cases is easing them.
LEMMA CancelEases ==
    ASSUME TypeOK, NEW S, S \subseteq PendingCases, case' = Cancelled(S)
    PROVE  Eased
<1>1. case' \in [Cases -> CaseRecords]
  BY CancelledEffect
<1> SUFFICES ASSUME NEW c \in Cases
             PROVE  /\ case'[c].source = case[c].source /\ case'[c].revision = case[c].revision
                    /\ case'[c].application = case[c].application /\ case'[c].transitions = case[c].transitions
                    /\ case'[c].status # case[c].status => case[c].status = "PENDING" /\ case'[c].status # "PENDING"
  BY <1>1 DEF Eased
<1>2. case[c] \in CaseRecords
  BY DEF TypeOK
<1>3. CASE c \in S
  <2>1. case'[c] = [case[c] EXCEPT !.status = "CANCELLED"] /\ case[c].status = "PENDING"
    BY <1>3, CancelledEffect DEF PendingCases
  <2> QED BY <2>1, <1>2, SMT DEF CaseRecords
<1>4. CASE c \notin S
  BY <1>4, CancelledEffect
<1> QED BY <1>3, <1>4

LEMMA StillEased ==
    ASSUME TypeOK, case' = case
    PROVE  Eased
BY DEF Eased, TypeOK

LEMMA GuardEases ==
    ASSUME TypeOK, NEW k \in Keys, case' = Guarded(k)
    PROVE  Eased
<1>1. k.case \in Cases
  BY KeyFields
<1>2. CASE case' = case
  BY <1>2, StillEased
<1>3. CASE case[k.case].status = "PENDING" /\ case' = Cancelled({k.case})
  <2>1. {k.case} \subseteq PendingCases
    BY <1>1, <1>3 DEF PendingCases
  <2> QED BY <1>3, <2>1, CancelEases
<1> QED BY <1>2, <1>3 DEF Guarded

\* The delivery counts a prompt, and eases the case.
LEMMA SentEases ==
    ASSUME TypeOK, NEW k \in Keys, case' = [Guarded(k) EXCEPT ![k.case].prompts = @ + 1]
    PROVE  Eased
<1> DEFINE guarded == Guarded(k)
<1>1. k.case \in Cases
  BY KeyFields
<1>2. guarded \in [Cases -> CaseRecords]
  <2>1. CASE guarded = case
    BY <2>1 DEF TypeOK
  <2>2. CASE guarded = Cancelled({k.case})
    BY <2>2, CancelledEffect
  <2> QED BY <2>1, <2>2 DEF Guarded
<1>3. \A c \in Cases :
         /\ guarded[c].source = case[c].source /\ guarded[c].revision = case[c].revision
         /\ guarded[c].application = case[c].application /\ guarded[c].transitions = case[c].transitions
         /\ guarded[c].status # case[c].status => case[c].status = "PENDING" /\ guarded[c].status # "PENDING"
  <2>1. CASE guarded = case
    BY <2>1
  <2>2. CASE case[k.case].status = "PENDING" /\ guarded = Cancelled({k.case})
    <3>1. \A c \in Cases : c # k.case => guarded[c] = case[c]
      BY <2>2, CancelledEffect
    <3>2. guarded[k.case] = [case[k.case] EXCEPT !.status = "CANCELLED"]
      BY <2>2, <1>1, CancelledEffect
    <3>3. case[k.case] \in CaseRecords
      BY <1>1 DEF TypeOK
    <3>4. /\ guarded[k.case].source = case[k.case].source
          /\ guarded[k.case].revision = case[k.case].revision
          /\ guarded[k.case].application = case[k.case].application
          /\ guarded[k.case].transitions = case[k.case].transitions
          /\ guarded[k.case].status = "CANCELLED"
      <4> HIDE DEF guarded
      <4> QED BY <3>2, <3>3 DEF CaseRecords
    <3> HIDE DEF guarded
    <3> QED BY <2>2, <3>1, <3>4
  <2> QED BY <2>1, <2>2 DEF Guarded
<1> HIDE DEF guarded
<1> DEFINE new == [guarded[k.case] EXCEPT !.prompts = @ + 1]
<1>4. /\ new \in CaseRecords
      /\ new.source = guarded[k.case].source /\ new.revision = guarded[k.case].revision
      /\ new.application = guarded[k.case].application /\ new.transitions = guarded[k.case].transitions
      /\ new.status = guarded[k.case].status
  BY <1>1, <1>2, SMT DEF CaseRecords
<1>5. case' = [guarded EXCEPT ![k.case] = new]
  BY DEF guarded
<1> HIDE DEF new
<1>6. case' \in [Cases -> CaseRecords]
  BY <1>1, <1>2, <1>4, <1>5
<1>7. case'[k.case] = new /\ \A c \in Cases : c # k.case => case'[c] = guarded[c]
  BY <1>1, <1>2, <1>5
<1> SUFFICES ASSUME NEW c \in Cases
             PROVE  /\ case'[c].source = case[c].source /\ case'[c].revision = case[c].revision
                    /\ case'[c].application = case[c].application /\ case'[c].transitions = case[c].transitions
                    /\ case'[c].status # case[c].status => case[c].status = "PENDING" /\ case'[c].status # "PENDING"
  BY <1>6 DEF Eased
<1>8. CASE c = k.case
  BY <1>3, <1>4, <1>7, <1>8
<1>9. CASE c # k.case
  BY <1>3, <1>7, <1>9
<1> QED BY <1>8, <1>9

\* The other ways in which a case is written.
LEMMA CaseUpdates ==
    ASSUME NEW x \in CaseRecords
    PROVE  /\ [x EXCEPT !.lapsed = TRUE] \in CaseRecords
           /\ \A a \in Activities, n \in Revisions :
                 [x EXCEPT !.status = "PENDING", !.source = a, !.revision = n, !.lapsed = FALSE] \in CaseRecords
           /\ [[x EXCEPT !.status = "RESOLVED"] EXCEPT !.application = "SKIPPED"] \in CaseRecords
           /\ [[x EXCEPT !.status = "RESOLVED"] EXCEPT !.application = "APPLIED", !.transitions = @ + 1]
                \in CaseRecords
<1>1. [x EXCEPT !.lapsed = TRUE] \in CaseRecords
  BY Zenon DEF CaseRecords
<1>2. ASSUME NEW a \in Activities, NEW n \in Revisions
      PROVE  [x EXCEPT !.status = "PENDING", !.source = a, !.revision = n, !.lapsed = FALSE] \in CaseRecords
  BY Zenon DEF CaseRecords
<1>3. [x EXCEPT !.status = "RESOLVED"] \in CaseRecords
  BY SMT DEF CaseRecords
<1>4. \A y \in CaseRecords : [y EXCEPT !.application = "SKIPPED"] \in CaseRecords
  BY SMT DEF CaseRecords
<1>5. ASSUME NEW y \in CaseRecords
      PROVE  [y EXCEPT !.application = "APPLIED", !.transitions = @ + 1] \in CaseRecords
  <2>1. y.transitions + 1 \in Nat
    BY DEF CaseRecords
  <2>2. \A m \in Nat : [y EXCEPT !.application = "APPLIED", !.transitions = m] \in CaseRecords
    BY Zenon DEF CaseRecords
  <2> QED BY <2>1, <2>2
<1> QED BY <1>1, <1>2, <1>3, <1>4, <1>5

\* A case whose time is over.
LEMMA LapseEases ==
    ASSUME TypeOK, NEW c \in Cases, Lapse(c)
    PROVE  Eased
<1> DEFINE new == [case[c] EXCEPT !.lapsed = TRUE]
<1>1. case[c] \in CaseRecords
  BY DEF TypeOK
<1>2. /\ new.status = case[c].status
      /\ new.source = case[c].source /\ new.revision = case[c].revision
      /\ new.application = case[c].application /\ new.transitions = case[c].transitions
  BY <1>1 DEF CaseRecords
<1>4. new \in CaseRecords
  BY <1>1, CaseUpdates
<1>5. case' = [case EXCEPT ![c] = new]
  BY DEF Lapse
<1> HIDE DEF new
<1> QED BY <1>2, <1>4, <1>5 DEF Eased, TypeOK

LEMMA ExpiryEases ==
    ASSUME TypeOK, NEW r \in Requests, ReplyUnresolved(r)
    PROVE  Eased
<1> DEFINE c == request[r].case
           new == [case[c] EXCEPT !.status = "EXPIRED"]
<1>1. c \in Cases
  BY DEF TypeOK, RequestRecords
<1>2. CASE case' = case
  BY <1>2, StillEased
<1>3. CASE case[c].status = "PENDING" /\ case' = [case EXCEPT ![c].status = "EXPIRED"]
  <2>1. case[c] \in CaseRecords
    BY <1>1 DEF TypeOK
  <2>2. /\ new \in CaseRecords /\ new.status = "EXPIRED"
        /\ new.source = case[c].source /\ new.revision = case[c].revision
        /\ new.application = case[c].application /\ new.transitions = case[c].transitions
    BY <2>1, SMT DEF CaseRecords
  <2>3. case' = [case EXCEPT ![c] = new]
    BY <1>3
  <2> HIDE DEF new, c
  <2> QED BY <1>1, <1>3, <2>2, <2>3 DEF Eased, TypeOK
<1> QED BY <1>2, <1>3 DEF ReplyUnresolved, StillPending

\* What an answer to one case does to the others.
LEMMA CasesAfterTyped ==
    ASSUME TypeOK, NEW answer
    PROVE  /\ CasesAfter(answer) \in [Cases -> CaseRecords]
           /\ \A c \in Cases :
                 \/ CasesAfter(answer)[c] = case[c]
                 \/ c \in PendingCases /\ CasesAfter(answer)[c] = [case[c] EXCEPT !.status = "CANCELLED"]
<1>1. CASE answer = "CLOSE"
  <2>1. CasesAfter(answer) = Cancelled(PendingCases)
    BY <1>1 DEF CasesAfter
  <2> QED BY <2>1, CancelledEffect
<1>2. CASE answer # "CLOSE"
  BY <1>2 DEF CasesAfter, TypeOK
<1> QED BY <1>1, <1>2

LEMMA TransitionEases ==
    ASSUME TypeOK, NEW r \in Requests, Transition(r)
    PROVE  Eased
<1>1. CASE case' = case
  BY <1>1, StillEased
<1>2. CASE case' = Cancelled(PendingCases)
  BY <1>2, CancelEases
<1> QED BY <1>1, <1>2 DEF Transition, CasesAfter
-----------------------------------------------------------------------------
(* The two steps that are more than that. *)

LEMMA RaiseEffect ==
    ASSUME TypeOK, NEW a \in Activities, RaiseCase(a)
    PROVE  /\ case' \in [Cases -> CaseRecords]
           /\ activity[a] \in Revisions
           /\ \E c \in Cases :
                 /\ case[c].status \in {"PENDING", "NONE"}
                 /\ case'[c].status = "PENDING" /\ case'[c].source = a /\ case'[c].revision = activity[a]
                 /\ case'[c].application = case[c].application /\ case'[c].transitions = case[c].transitions
                 /\ \A d \in Cases : d # c => case'[d] = case[d]
                 /\ asked' = [asked EXCEPT ![a][activity[a]] = {c}]
<1>1. activity[a] \in Revisions
  BY ConfirmationAssumption DEF RaiseCase, TypeOK, Revisions
<1>2. PICK c \in Cases :
         /\ case[c].status \in {"PENDING", "NONE"}
         /\ case' = [case EXCEPT ![c] = [@ EXCEPT !.status = "PENDING", !.source = a,
                                                  !.revision = activity[a], !.lapsed = FALSE]]
         /\ asked' = [asked EXCEPT ![a][activity[a]] = {c}]
  BY DEF RaiseCase, PendingCases
<1> DEFINE new == [case[c] EXCEPT !.status = "PENDING", !.source = a,
                                  !.revision = activity[a], !.lapsed = FALSE]
<1>3. case[c] \in CaseRecords
  BY DEF TypeOK
<1>4. /\ new \in CaseRecords
      /\ new.status = "PENDING" /\ new.source = a /\ new.revision = activity[a]
      /\ new.application = case[c].application /\ new.transitions = case[c].transitions
  <2>1. new \in CaseRecords
    BY <1>1, <1>3, CaseUpdates
  <2>2. new.status = "PENDING" /\ new.source = a /\ new.revision = activity[a]
        /\ new.application = case[c].application /\ new.transitions = case[c].transitions
    BY <1>3 DEF CaseRecords
  <2> QED BY <2>1, <2>2
<1>5. case' = [case EXCEPT ![c] = new]
  BY <1>2
<1> HIDE DEF new
<1>6. case' \in [Cases -> CaseRecords] /\ case'[c] = new /\ \A d \in Cases : d # c => case'[d] = case[d]
  BY <1>4, <1>5 DEF TypeOK
<1> QED BY <1>1, <1>2, <1>4, <1>6

LEMMA ReplyEffect ==
    ASSUME TypeOK, NEW r \in Requests, Reply(r)
    PROVE  /\ case' \in [Cases -> CaseRecords]
           /\ \E c \in Cases :
                 /\ case[c].status = "PENDING" /\ case'[c].status = "RESOLVED"
                 /\ \/ case'[c].application = "SKIPPED" /\ case'[c].transitions = case[c].transitions
                    \/ case'[c].application = "APPLIED" /\ case'[c].transitions = case[c].transitions + 1
                 /\ \A d \in Cases : d # c =>
                       \/ case'[d] = case[d]
                       \/ d \in PendingCases /\ case'[d] = [case[d] EXCEPT !.status = "CANCELLED"]
<1> DEFINE c == request[r].case
           skipped == [[case[c] EXCEPT !.status = "RESOLVED"] EXCEPT !.application = "SKIPPED"]
           applied == [[case[c] EXCEPT !.status = "RESOLVED"] EXCEPT !.application = "APPLIED",
                                                                     !.transitions = @ + 1]
           after == CasesAfter(request[r].answer)
<1>1. c \in Cases
  BY DEF TypeOK, RequestRecords
<1>2. case[c] \in CaseRecords
  BY <1>1 DEF TypeOK
<1>3. /\ skipped \in CaseRecords /\ skipped.status = "RESOLVED" /\ skipped.application = "SKIPPED"
      /\ skipped.transitions = case[c].transitions
  <2>1. skipped \in CaseRecords
    BY <1>2, CaseUpdates
  <2>2. skipped.status = "RESOLVED" /\ skipped.application = "SKIPPED"
        /\ skipped.transitions = case[c].transitions
    BY <1>2 DEF CaseRecords
  <2> QED BY <2>1, <2>2
<1>4. /\ applied \in CaseRecords /\ applied.status = "RESOLVED" /\ applied.application = "APPLIED"
      /\ applied.transitions = case[c].transitions + 1
  <2>1. applied \in CaseRecords
    BY <1>2, CaseUpdates
  <2>2. applied.status = "RESOLVED" /\ applied.application = "APPLIED"
        /\ applied.transitions = case[c].transitions + 1
    BY <1>2 DEF CaseRecords
  <2> QED BY <2>1, <2>2
<1>5. case[c].status = "PENDING"
  BY DEF Reply, StillPending
<1>6. case' = [case EXCEPT ![c] = skipped] \/ case' = [after EXCEPT ![c] = applied]
  BY DEF Reply
<1>7. after \in [Cases -> CaseRecords]
      /\ \A d \in Cases : \/ after[d] = case[d]
                          \/ d \in PendingCases /\ after[d] = [case[d] EXCEPT !.status = "CANCELLED"]
  BY CasesAfterTyped
<1> HIDE DEF c, skipped, applied, after
<1>8. CASE case' = [case EXCEPT ![c] = skipped]
  <2>1. case' \in [Cases -> CaseRecords] /\ case'[c] = skipped /\ \A d \in Cases : d # c => case'[d] = case[d]
    BY <1>1, <1>3, <1>8 DEF TypeOK
  <2> QED BY <1>1, <1>3, <1>5, <2>1
<1>9. CASE case' = [after EXCEPT ![c] = applied]
  <2>1. case' \in [Cases -> CaseRecords] /\ case'[c] = applied /\ \A d \in Cases : d # c => case'[d] = after[d]
    BY <1>1, <1>4, <1>7, <1>9
  <2> QED BY <1>1, <1>4, <1>5, <1>7, <2>1
<1> QED BY <1>6, <1>8, <1>9

-----------------------------------------------------------------------------
(* Types. *)

LEMMA DeliveryUpdates ==
    ASSUME NEW x \in DeliveryRecords
    PROVE  /\ \A status \in DeliveryStatus : [x EXCEPT !.status = status] \in DeliveryRecords
           /\ \A status \in DeliveryStatus :
                 [x EXCEPT !.status = status, !.owner = NoWorker, !.live = FALSE] \in DeliveryRecords
           /\ \A status \in DeliveryStatus, due \in BOOLEAN :
                 [x EXCEPT !.status = status, !.owner = NoWorker, !.live = FALSE, !.due = due] \in DeliveryRecords
           /\ \A w \in Workers :
                 x.attempts < MaxAttempts =>
                    [x EXCEPT !.attempts = @ + 1, !.owner = w, !.live = TRUE] \in DeliveryRecords
           /\ [x EXCEPT !.live = FALSE] \in DeliveryRecords
           /\ [x EXCEPT !.due = TRUE] \in DeliveryRecords
<1>1. ASSUME NEW status \in DeliveryStatus PROVE [x EXCEPT !.status = status] \in DeliveryRecords
  BY Zenon DEF DeliveryRecords
<1>2. ASSUME NEW status \in DeliveryStatus
      PROVE  [x EXCEPT !.status = status, !.owner = NoWorker, !.live = FALSE] \in DeliveryRecords
  BY Zenon DEF DeliveryRecords
<1>3. ASSUME NEW status \in DeliveryStatus, NEW due \in BOOLEAN
      PROVE  [x EXCEPT !.status = status, !.owner = NoWorker, !.live = FALSE, !.due = due] \in DeliveryRecords
  BY Zenon DEF DeliveryRecords
<1>4. ASSUME NEW w \in Workers, x.attempts < MaxAttempts
      PROVE  [x EXCEPT !.attempts = @ + 1, !.owner = w, !.live = TRUE] \in DeliveryRecords
  <2>1. x.attempts + 1 \in 0 .. MaxAttempts
    BY <1>4, ConfirmationAssumption DEF DeliveryRecords
  <2>2. \A n \in 0 .. MaxAttempts : [x EXCEPT !.attempts = n, !.owner = w, !.live = TRUE] \in DeliveryRecords
    BY Zenon DEF DeliveryRecords
  <2> QED BY <2>1, <2>2
<1>5. [x EXCEPT !.live = FALSE] \in DeliveryRecords
  BY Zenon DEF DeliveryRecords
<1>6. [x EXCEPT !.due = TRUE] \in DeliveryRecords
  BY Zenon DEF DeliveryRecords
<1> QED BY <1>1, <1>2, <1>3, <1>4, <1>5, <1>6

LEMMA AcknowledgedTyped ==
    ASSUME TypeOK, NEW k \in Keys, NEW status \in DeliveryStatus
    PROVE  Acknowledged(k, status) \in [Keys -> DeliveryRecords]
<1>1. delivery[k] \in DeliveryRecords /\ delivery \in [Keys -> DeliveryRecords]
  BY DEF TypeOK
<1>2. (status # "FAILED") \in BOOLEAN
  OBVIOUS
<1> DEFINE new == [delivery[k] EXCEPT !.status = status, !.owner = NoWorker, !.live = FALSE,
                                      !.due = (status # "FAILED")]
<1>3. new \in DeliveryRecords
  BY <1>1, <1>2, DeliveryUpdates
<1>4. Acknowledged(k, status) = [delivery EXCEPT ![k] = new]
  BY DEF Acknowledged
<1> HIDE DEF new
<1> QED BY <1>1, <1>3, <1>4

\* What is not a case keeps its type.
OthersTyped ==
    /\ task' \in {"OPEN", "CLOSED"}
    /\ activity' \in [Activities -> 0 .. MaxRevision]
    /\ asked' \in [Activities -> [Revisions -> SUBSET Cases]]
    /\ delivery' \in [Keys -> DeliveryRecords]
    /\ run' \in [Workers -> RunRecords]
    /\ request' \in [Requests -> RequestRecords]

LEMMA StopTyped ==
    ASSUME TypeOK, NEW w, Stop(w)
    PROVE  run' \in [Workers -> RunRecords]
BY Blanks DEF Stop, TypeOK

LEMMA LookTyped ==
    ASSUME TypeOK, NEW w \in Workers, NEW k \in Keys, Look(w, k)
    PROVE  OthersTyped
<1>1. delivery[k].status \in DeliveryStatus
  BY DEF TypeOK, DeliveryRecords
<1>2. [pc |-> "ensuring", key |-> k, seen |-> delivery[k].status] \in RunRecords
  BY <1>1 DEF RunRecords
<1> QED BY <1>2 DEF Look, OthersTyped, TypeOK

LEMMA CaseStepsTyped ==
    ASSUME TypeOK, NEW a \in Activities,
           \/ RaiseCase(a) \/ WithdrawCase(a) \/ EditActivity(a) \/ DeleteActivity(a)
           \/ \E revision \in Revisions : ScheduleFenced(a, revision)
    PROVE  OthersTyped
<1>1. activity[a] # 0 => activity[a] \in Revisions
  BY ConfirmationAssumption DEF TypeOK, Revisions
<1>2. CASE RaiseCase(a)
  <2>1. PICK c \in Cases : asked' = [asked EXCEPT ![a][activity[a]] = {c}]
    BY <1>2, RaiseEffect
  <2>2. activity[a] \in Revisions
    BY <1>2, RaiseEffect
  <2> QED BY <1>2, <2>1, <2>2 DEF RaiseCase, OthersTyped, TypeOK
<1>3. CASE WithdrawCase(a)
  BY <1>1, <1>3 DEF WithdrawCase, OthersTyped, TypeOK
<1>4. CASE EditActivity(a)
  <2>1. activity[a] + 1 \in 0 .. MaxRevision
    BY <1>4, ConfirmationAssumption DEF EditActivity
  <2> QED BY <1>4, <2>1 DEF EditActivity, OthersTyped, TypeOK
<1>5. CASE DeleteActivity(a)
  <2>1. 0 \in 0 .. MaxRevision
    BY ConfirmationAssumption
  <2> QED BY <1>5, <2>1 DEF DeleteActivity, OthersTyped, TypeOK
<1>6. ASSUME NEW revision \in Revisions, ScheduleFenced(a, revision)
      PROVE  OthersTyped
  BY <1>6 DEF ScheduleFenced, OthersTyped, TypeOK
<1> QED BY <1>2, <1>3, <1>4, <1>5, <1>6

LEMMA RequestStepsTyped ==
    ASSUME TypeOK, NEW r \in Requests,
           \/ \E act \in {"reply", "transition"}, c \in Cases, answer \in Answer : Begin(r, act, c, answer)
           \/ Transition(r) \/ Reply(r) \/ ReplyUnresolved(r)
    PROVE  OthersTyped
<1>1. ASSUME NEW act \in {"reply", "transition"}, NEW c \in Cases, NEW answer \in Answer,
             Begin(r, act, c, answer)
      PROVE  OthersTyped
  <2>1. (task = "OPEN") \in BOOLEAN
    OBVIOUS
  <2>2. \A b \in BOOLEAN : [act |-> act, case |-> c, answer |-> answer, open |-> b] \in RequestRecords
    BY Zenon DEF RequestRecords
  <2>3. [act |-> act, case |-> c, answer |-> answer, open |-> task = "OPEN"] \in RequestRecords
    BY <2>1, <2>2
  <2>4. request' \in [Requests -> RequestRecords]
    BY <1>1, <2>3 DEF Begin, TypeOK
  <2> QED BY <1>1, <2>4 DEF Begin, OthersTyped, TypeOK
<1>2. Return(r) => request' \in [Requests -> RequestRecords]
  BY Blanks DEF Return, TypeOK
<1>3. CASE Transition(r)
  BY <1>2, <1>3 DEF Transition, Written, OthersTyped, TypeOK
<1>4. CASE Reply(r)
  BY <1>2, <1>4 DEF Reply, Written, OthersTyped, TypeOK
<1>5. CASE ReplyUnresolved(r)
  BY <1>2, <1>5 DEF ReplyUnresolved, OthersTyped, TypeOK
<1> QED BY <1>1, <1>3, <1>4, <1>5

LEMMA RunKey ==
    ASSUME TypeOK, NEW w \in Workers
    PROVE  run[w].key \in Keys /\ run[w].key.case \in Cases
<1>1. run[w].key \in Keys
  BY DEF TypeOK, RunRecords
<1> QED BY <1>1, KeyFields

LEMMA EnsureTyped ==
    ASSUME TypeOK, NEW w \in Workers, Ensure(w)
    PROVE  OthersTyped
<1> DEFINE k == run[w].key
<1>1. k \in Keys
  BY RunKey
<1>2. delivery[k] \in DeliveryRecords /\ delivery \in [Keys -> DeliveryRecords]
  BY <1>1 DEF TypeOK
<1>3. "SKIPPED" \in DeliveryStatus /\ "QUEUED" \in DeliveryStatus /\ "NONE" \in DeliveryStatus
  BY DEF DeliveryStatus, Terminal
<1>4. delivery' \in [Keys -> DeliveryRecords]
  <2> DEFINE skipped == [delivery[k] EXCEPT !.status = "SKIPPED", !.owner = NoWorker, !.live = FALSE]
             queued == [delivery[k] EXCEPT !.status = "QUEUED"]
  <2>1. skipped \in DeliveryRecords /\ queued \in DeliveryRecords
    BY <1>2, <1>3, DeliveryUpdates
  <2>2. \/ delivery' = delivery \/ delivery' = [delivery EXCEPT ![k] = skipped]
        \/ delivery' = [delivery EXCEPT ![k] = queued]
    BY DEF Ensure
  <2> HIDE DEF skipped, queued
  <2> QED BY <1>1, <1>2, <2>1, <2>2
<1>5. run' \in [Workers -> RunRecords]
  <2> DEFINE ensured == [run[w] EXCEPT !.pc = "ensured", !.seen = "NONE"]
  <2>1. ensured \in RunRecords
    BY <1>3, Zenon DEF TypeOK, RunRecords
  <2>2. Stop(w) \/ run' = [run EXCEPT ![w] = ensured]
    BY DEF Ensure
  <2> HIDE DEF ensured
  <2> QED BY <2>1, <2>2, StopTyped DEF TypeOK
<1> QED BY <1>4, <1>5 DEF Ensure, OthersTyped, TypeOK

LEMMA ClaimTyped ==
    ASSUME TypeOK, NEW w \in Workers, Claim(w)
    PROVE  OthersTyped
<1> DEFINE k == run[w].key
           claimed == [delivery[k] EXCEPT !.attempts = @ + 1, !.owner = w, !.live = TRUE]
<1>1. k \in Keys
  BY RunKey
<1>2. claimed \in DeliveryRecords
  BY <1>1, DeliveryUpdates DEF Claim, TypeOK
<1>3. delivery' = [delivery EXCEPT ![k] = claimed]
  BY DEF Claim
<1>4. [run[w] EXCEPT !.pc = "claimed"] \in RunRecords
  BY Zenon DEF TypeOK, RunRecords
<1>5. run' \in [Workers -> RunRecords]
  BY <1>4 DEF Claim, TypeOK
<1> HIDE DEF claimed
<1>6. delivery' \in [Keys -> DeliveryRecords]
  BY <1>1, <1>2, <1>3 DEF TypeOK
<1> QED BY <1>5, <1>6 DEF Claim, OthersTyped, TypeOK

LEMMA EndsTyped ==
    ASSUME TypeOK, NEW w \in Workers,
           Decline(w) \/ (\E outcome \in Outcomes : Acknowledge(w, outcome)) \/ AcknowledgeLate(w) \/ Fail(w)
    PROVE  OthersTyped
<1> DEFINE k == run[w].key
<1>1. k \in Keys
  BY RunKey
<1>2. \A status \in Terminal \cup {"FAILED"} : Acknowledged(k, status) \in [Keys -> DeliveryRecords]
  BY <1>1, AcknowledgedTyped DEF DeliveryStatus
<1>3. run' \in [Workers -> RunRecords]
  BY StopTyped DEF Decline, Acknowledge, AcknowledgeLate, Fail
<1>4. CASE Decline(w)
  <2>1. \/ delivery' = delivery \/ delivery' = Acknowledged(k, "SKIPPED")
        \/ delivery' = Acknowledged(k, "EXHAUSTED")
    BY <1>4 DEF Decline
  <2>2. delivery' \in [Keys -> DeliveryRecords]
    BY <1>2, <2>1 DEF TypeOK, Terminal
  <2> QED BY <1>3, <1>4, <2>2 DEF Decline, OthersTyped, TypeOK
<1>5. ASSUME NEW outcome \in Outcomes, Acknowledge(w, outcome)
      PROVE  OthersTyped
  <2>1. StatusOf(k, outcome) \in Terminal \cup {"FAILED"}
    BY ConfirmationAssumption DEF StatusOf, Terminal
  <2>2. delivery' \in [Keys -> DeliveryRecords]
    BY <1>2, <1>5, <2>1 DEF Acknowledge
  <2> QED BY <1>3, <1>5, <2>2 DEF Acknowledge, OthersTyped, TypeOK
<1>6. CASE AcknowledgeLate(w)
  BY <1>3, <1>6 DEF AcknowledgeLate, OthersTyped, TypeOK
<1>7. CASE Fail(w)
  BY <1>3, <1>7 DEF Fail, OthersTyped, TypeOK
<1> QED BY <1>4, <1>5, <1>6, <1>7

LEMMA ClocksTyped ==
    ASSUME TypeOK, NEW k \in Keys, LeaseExpires(k) \/ Due(k)
    PROVE  OthersTyped
<1>1. [delivery[k] EXCEPT !.live = FALSE] \in DeliveryRecords /\ [delivery[k] EXCEPT !.due = TRUE] \in DeliveryRecords
  BY DeliveryUpdates DEF TypeOK
<1>2. \/ delivery' = [delivery EXCEPT ![k] = [delivery[k] EXCEPT !.live = FALSE]]
      \/ delivery' = [delivery EXCEPT ![k] = [delivery[k] EXCEPT !.due = TRUE]]
  BY DEF LeaseExpires, Due
<1>3. delivery' \in [Keys -> DeliveryRecords]
  BY <1>1, <1>2 DEF TypeOK
<1> QED BY <1>3 DEF LeaseExpires, Due, OthersTyped, TypeOK

LEMMA ScheduleTyped ==
    ASSUME TypeOK, NEW w \in Workers, NEW a \in Activities, Schedule(w, a)
    PROVE  OthersTyped
<1>1. activity[a] \in Revisions
  BY ConfirmationAssumption DEF Schedule, TypeOK, Revisions
<1>2. PICK c \in asked[a][activity[a]] :
         Look(w, [case |-> c, origin |-> a, source |-> case[c].source, revision |-> case[c].revision])
  BY DEF Schedule
<1>3. c \in Cases
  BY <1>1 DEF TypeOK
<1>4. case[c].source \in Activities /\ case[c].revision \in Revisions
  BY <1>3 DEF TypeOK, CaseRecords
<1>5. [case |-> c, origin |-> a, source |-> case[c].source, revision |-> case[c].revision] \in Keys
  BY <1>3, <1>4 DEF Keys
<1> QED BY <1>2, <1>5, LookTyped

LEMMA StepTypesOthers ==
    ASSUME TypeOK, Next
    PROVE  OthersTyped
<1>1. ASSUME NEW a \in Activities,
             RaiseCase(a) \/ WithdrawCase(a) \/ EditActivity(a) \/ DeleteActivity(a)
      PROVE  OthersTyped
  BY <1>1, CaseStepsTyped
<1>2. ASSUME NEW a \in Activities, NEW revision \in Revisions, ScheduleFenced(a, revision)
      PROVE  OthersTyped
  BY <1>2, CaseStepsTyped
<1>3. ASSUME NEW c \in Cases, Lapse(c)
      PROVE  OthersTyped
  BY <1>3 DEF Lapse, OthersTyped, TypeOK
<1>4. ASSUME NEW r \in Requests,
             \/ \E act \in {"reply", "transition"}, c \in Cases, answer \in Answer : Begin(r, act, c, answer)
             \/ Transition(r) \/ Reply(r) \/ ReplyUnresolved(r)
      PROVE  OthersTyped
  BY <1>4, RequestStepsTyped
<1>5. ASSUME NEW w \in Workers, NEW a \in Activities, Schedule(w, a)
      PROVE  OthersTyped
  BY <1>5, ScheduleTyped
<1>6. ASSUME NEW w \in Workers, NEW k \in Keys, Recover(w, k)
      PROVE  OthersTyped
  BY <1>6, LookTyped DEF Recover
<1>7. ASSUME NEW w \in Workers, RunProgress(w) \/ Fail(w)
      PROVE  OthersTyped
  BY <1>7, EnsureTyped, ClaimTyped, EndsTyped DEF RunProgress
<1>8. ASSUME NEW k \in Keys, LeaseExpires(k) \/ Due(k)
      PROVE  OthersTyped
  BY <1>8, ClocksTyped
<1> QED BY <1>1, <1>2, <1>3, <1>4, <1>5, <1>6, <1>7, <1>8 DEF Next

-----------------------------------------------------------------------------
(* What a step does to the cases. *)

\* Every step eases the cases but one that raises a case or answers it; apart
\* from edits and deletions it leaves the activities, and these it eases.
LEMMA StepEases ==
    ASSUME TypeOK, Next
    PROVE  \/ Eased /\ activity' = activity
           \/ \E a \in Activities : EditActivity(a) \/ DeleteActivity(a)
           \/ \E a \in Activities : RaiseCase(a)
           \/ \E r \in Requests : Reply(r)
<1> DEFINE Kept == Eased /\ activity' = activity
<1>1. ASSUME NEW a \in Activities, WithdrawCase(a)
      PROVE  Kept
  BY <1>1, CancelEases DEF WithdrawCase, PendingOf
<1>2. ASSUME NEW a \in Activities, NEW revision \in Revisions, ScheduleFenced(a, revision)
      PROVE  Kept
  BY <1>2, CancelEases DEF ScheduleFenced, PendingOf
<1>3. ASSUME NEW c \in Cases, Lapse(c)
      PROVE  Kept
  BY <1>3, LapseEases DEF Lapse
<1>4. ASSUME NEW r \in Requests, NEW act, NEW c, NEW answer, Begin(r, act, c, answer)
      PROVE  Kept
  BY <1>4, StillEased DEF Begin
<1>5. ASSUME NEW r \in Requests, Transition(r)
      PROVE  Kept
  BY <1>5, TransitionEases DEF Transition
<1>6. ASSUME NEW r \in Requests, ReplyUnresolved(r)
      PROVE  Kept
  BY <1>6, ExpiryEases DEF ReplyUnresolved
<1>7. ASSUME NEW w \in Workers, NEW k, Look(w, k)
      PROVE  Kept
  BY <1>7, StillEased DEF Look
<1>8. ASSUME NEW w \in Workers, RunProgress(w) \/ Fail(w)
      PROVE  Kept
  <2> DEFINE k == run[w].key
  <2>1. k \in Keys
    BY RunKey
  <2>2. activity' = activity
    BY <1>8 DEF RunProgress, Ensure, Claim, Decline, Acknowledge, AcknowledgeLate, Fail
  <2>3. \/ case' = case \/ case' = Guarded(k)
        \/ case' = [Guarded(k) EXCEPT ![k.case].prompts = @ + 1]
    BY <1>8 DEF RunProgress, Ensure, Claim, Decline, Acknowledge, AcknowledgeLate, Fail
  <2> QED BY <2>1, <2>2, <2>3, StillEased, GuardEases, SentEases
<1>9. ASSUME NEW k \in Keys, LeaseExpires(k) \/ Due(k)
      PROVE  Kept
  BY <1>9, StillEased DEF LeaseExpires, Due
<1> HIDE DEF Kept
<1>10. Kept \/ (\E a \in Activities : EditActivity(a) \/ DeleteActivity(a) \/ RaiseCase(a))
       \/ \E r \in Requests : Reply(r)
  BY <1>1, <1>2, <1>3, <1>4, <1>5, <1>6, <1>7, <1>8, <1>9 DEF Next, Schedule, Recover
<1> QED BY <1>10 DEF Kept

-----------------------------------------------------------------------------
(* The theorems. *)

LEMMA InitTypeOK == Init => TypeOK
<1> SUFFICES ASSUME Init PROVE TypeOK
  OBVIOUS
<1>1. asked \in [Activities -> [Revisions -> SUBSET Cases]]
  BY DEF Init
<1>2. case \in [Cases -> CaseRecords]
  BY Blanks DEF Init
<1>3. run \in [Workers -> RunRecords] /\ request \in [Requests -> RequestRecords]
  BY Blanks DEF Init
<1>4. delivery \in [Keys -> DeliveryRecords]
  BY Blanks DEF Init
<1> QED BY <1>1, <1>2, <1>3, <1>4 DEF Init, TypeOK

LEMMA EditEases ==
    ASSUME TypeOK, NEW a \in Activities, EditActivity(a) \/ DeleteActivity(a)
    PROVE  Eased
<1>1. CASE EditActivity(a)
  BY <1>1, CancelEases DEF EditActivity, PendingOf
<1>2. CASE DeleteActivity(a)
  BY <1>2, StillEased DEF DeleteActivity
<1> QED BY <1>1, <1>2

LEMMA StepTypeOK == TypeOK /\ [Next]_vars => TypeOK'
<1>1. ASSUME TypeOK, UNCHANGED vars PROVE TypeOK'
  BY <1>1 DEF vars, TypeOK
<1>2. ASSUME TypeOK, Next PROVE TypeOK'
  <2>1. OthersTyped
    BY <1>2, StepTypesOthers
  <2>2. case' \in [Cases -> CaseRecords]
    BY <1>2, StepEases, EditEases, RaiseEffect, ReplyEffect DEF Eased
  <2> QED BY <2>1, <2>2 DEF OthersTyped, TypeOK
<1> QED BY <1>1, <1>2

\* The task, the activities, the cases, their deliveries, the runs of the
\* delivery workflow and the requests are what the code takes them for.
THEOREM TypeCorrect == Spec => []TypeOK
BY InitTypeOK, StepTypeOK, PTL DEF Spec

\* A case that is raised asks for the present revision, and an edit cancels the
\* pending cases of its activity in the transaction that moves the revision on.
LEMMA StepCurrent == TypeOK /\ PendingIsCurrent /\ [Next]_vars => PendingIsCurrent'
<1> SUFFICES ASSUME TypeOK, PendingIsCurrent, [Next]_vars, NEW c \in Cases,
                    case'[c].status = "PENDING", activity'[case'[c].source] # 0
             PROVE  activity'[case'[c].source] = case'[c].revision
  BY DEF PendingIsCurrent, PendingCases
<1>1. case[c].status = "PENDING" /\ activity[case[c].source] # 0 => activity[case[c].source] = case[c].revision
  BY DEF PendingIsCurrent, PendingCases
<1>2. case[c].source \in Activities
  BY DEF TypeOK, CaseRecords
<1>3. CASE UNCHANGED vars
  BY <1>1, <1>3 DEF vars
<1>4. CASE Eased /\ activity' = activity
  BY <1>1, <1>4 DEF Eased
<1>5. ASSUME NEW a \in Activities, EditActivity(a)
      PROVE  activity'[case'[c].source] = case'[c].revision
  <2>1. Eased
    BY <1>5, EditEases
  <2>2. case[c].status = "PENDING" /\ case'[c].source = case[c].source /\ case'[c].revision = case[c].revision
    BY <2>1 DEF Eased
  <2>3. case[c].source # a
    <3>1. ASSUME case[c].source = a PROVE FALSE
      <4>1. c \in PendingOf(a)
        BY <2>2, <3>1 DEF PendingOf, PendingCases
      <4>2. case'[c] = [case[c] EXCEPT !.status = "CANCELLED"]
        BY <1>5, <4>1, CancelledEffect DEF EditActivity
      <4>3. case[c] \in CaseRecords
        BY DEF TypeOK
      <4> QED BY <4>2, <4>3 DEF CaseRecords
    <3> QED BY <3>1
  <2>4. activity'[case[c].source] = activity[case[c].source]
    BY <1>2, <1>5, <2>3 DEF EditActivity, TypeOK
  <2> QED BY <1>1, <2>2, <2>4
<1>6. ASSUME NEW a \in Activities, DeleteActivity(a)
      PROVE  activity'[case'[c].source] = case'[c].revision
  BY <1>1, <1>2, <1>6 DEF DeleteActivity, TypeOK
<1>7. ASSUME NEW a \in Activities, RaiseCase(a)
      PROVE  activity'[case'[c].source] = case'[c].revision
  <2>1. activity' = activity
    BY <1>7 DEF RaiseCase
  <2> QED BY <1>1, <1>7, <2>1, RaiseEffect
<1>8. ASSUME NEW r \in Requests, Reply(r)
      PROVE  activity'[case'[c].source] = case'[c].revision
  <2>1. activity' = activity
    BY <1>8 DEF Reply
  <2>2. case[c] \in CaseRecords
    BY DEF TypeOK
  <2>3. case'[c] # [case[c] EXCEPT !.status = "CANCELLED"]
    BY <2>2 DEF CaseRecords
  <2>4. case'[c] = case[c]
    BY <1>8, <2>3, ReplyEffect
  <2> QED BY <1>1, <2>1, <2>4
<1> QED BY <1>3, <1>4, <1>5, <1>6, <1>7, <1>8, StepEases

\* Whatever overlaps, a pending case of an activity that has not been deleted
\* asks for the text as it is.
THEOREM QuestionsAreCurrent == Spec => []PendingIsCurrent
<1>1. Init => PendingIsCurrent
  <2> SUFFICES ASSUME Init, NEW c \in Cases PROVE case[c].status # "PENDING"
    BY DEF PendingIsCurrent, PendingCases
  <2>1. NoCase.status = "NONE" /\ [NoCase EXCEPT !.status = "CANCELLED"].status = "CANCELLED"
    BY DEF NoCase
  <2> QED BY <2>1 DEF Init
<1> QED BY <1>1, TypeCorrect, StepCurrent, PTL DEF Spec

\* Only a pending case is answered, and then it is not pending any more.
LEMMA StepAnswered == TypeOK /\ AnsweredOnce /\ [Next]_vars => AnsweredOnce'
<1> DEFINE Settled(x) == /\ x.transitions = IF x.application = "APPLIED" THEN 1 ELSE 0
                         /\ x.application # "NONE" => x.status = "RESOLVED"
<1> SUFFICES ASSUME TypeOK, AnsweredOnce, [Next]_vars, NEW c \in Cases
             PROVE  Settled(case'[c])
  BY DEF AnsweredOnce
<1>1. Settled(case[c])
  BY DEF AnsweredOnce
<1>2. case[c] \in CaseRecords
  BY DEF TypeOK
<1>3. CASE UNCHANGED vars
  BY <1>1, <1>3 DEF vars
<1>4. CASE Eased
  BY <1>1, <1>4 DEF Eased
<1>5. ASSUME NEW a \in Activities, RaiseCase(a)
      PROVE  Settled(case'[c])
  BY <1>1, <1>5, RaiseEffect
<1>6. ASSUME NEW r \in Requests, Reply(r)
      PROVE  Settled(case'[c])
  <2>1. PICK d \in Cases :
           /\ case[d].status = "PENDING" /\ case'[d].status = "RESOLVED"
           /\ \/ case'[d].application = "SKIPPED" /\ case'[d].transitions = case[d].transitions
              \/ case'[d].application = "APPLIED" /\ case'[d].transitions = case[d].transitions + 1
           /\ \A e \in Cases : e # d =>
                 \/ case'[e] = case[e]
                 \/ e \in PendingCases /\ case'[e] = [case[e] EXCEPT !.status = "CANCELLED"]
    BY <1>6, ReplyEffect
  <2>2. CASE c = d
    BY <1>1, <2>1, <2>2
  <2>3. CASE case'[c] = case[c]
    BY <1>1, <2>3
  <2>4. CASE case[c].status = "PENDING" /\ case'[c] = [case[c] EXCEPT !.status = "CANCELLED"]
    <3>1. case'[c].application = case[c].application /\ case'[c].transitions = case[c].transitions
      BY <1>2, <2>4 DEF CaseRecords
    <3> QED BY <1>1, <2>4, <3>1
  <2> QED BY <2>1, <2>2, <2>3, <2>4 DEF PendingCases
<1> QED BY <1>3, <1>4, <1>5, <1>6, StepEases, EditEases

\* Two answers to a question, whichever way they come, change the task once, and
\* the case tells.
THEOREM Answers == Spec => []AnsweredOnce
<1>1. Init => AnsweredOnce
  <2> SUFFICES ASSUME Init, NEW c \in Cases
               PROVE  case[c].transitions = 0 /\ case[c].application = "NONE"
    BY DEF AnsweredOnce
  <2>1. /\ NoCase.transitions = 0 /\ NoCase.application = "NONE"
        /\ [NoCase EXCEPT !.status = "CANCELLED"].transitions = 0
        /\ [NoCase EXCEPT !.status = "CANCELLED"].application = "NONE"
    BY DEF NoCase
  <2> QED BY <2>1 DEF Init
<1> QED BY <1>1, TypeCorrect, StepAnswered, PTL DEF Spec

\* An answer that was given to an open task and comes to a closed one writes
\* what it changes, and does not change the status.
LEMMA StepCloses == TypeOK /\ [Next]_vars => (task # "OPEN" => task' # "OPEN")
<1> SUFFICES ASSUME TypeOK, [Next]_vars PROVE task' = task \/ task' = "CLOSED"
  OBVIOUS
<1>1. CASE UNCHANGED vars
  BY <1>1 DEF vars
<1>2. CASE Next
  BY <1>2 DEF Next, RaiseCase, WithdrawCase, EditActivity, DeleteActivity, ScheduleFenced, Lapse, Begin,
              Transition, Reply, ReplyUnresolved, Written, Schedule, Recover, Look, RunProgress, Ensure,
              Claim, Decline, Acknowledge, AcknowledgeLate, Fail, LeaseExpires, Due
<1> QED BY <1>1, <1>2

\* A task that is closed stays closed, however old the task was that an answer
\* or a request saw.
THEOREM Closed == Spec => ClosedStaysClosed
<1>1. TypeOK /\ [Next]_vars => [task # "OPEN" => task' # "OPEN"]_vars
  BY StepCloses
<1> QED BY <1>1, TypeCorrect, PTL DEF Spec, ClosedStaysClosed

-----------------------------------------------------------------------------
(* What the prompt counter of a case counts. *)

Shown(c) == {k \in Keys : k.case = c /\ delivery[k].status = "SENT"}
Finished(c) == {k \in Keys : k.case = c /\ delivery[k].status \in {"SENT", "SKIPPED"}}

\* That the sets are finite is part of the invariant: activities may be many.
Counted ==
    \A c \in Cases :
        /\ IsFiniteSet(Finished(c))
        /\ case[c].prompts >= Cardinality(Shown(c))
        /\ case[c].prompts <= Cardinality(Finished(c))

SamePrompts == \A c \in Cases : case'[c].prompts = case[c].prompts

LEMMA CancelledPrompts ==
    ASSUME TypeOK, NEW S, NEW c \in Cases
    PROVE  Cancelled(S)[c].prompts = case[c].prompts
<1>1. case[c] \in CaseRecords
  BY DEF TypeOK
<1>2. [case[c] EXCEPT !.status = "CANCELLED"].prompts = case[c].prompts
  BY <1>1 DEF CaseRecords
<1> QED BY <1>2 DEF Cancelled

LEMMA GuardedPrompts ==
    ASSUME TypeOK, NEW k \in Keys, NEW c \in Cases
    PROVE  Guarded(k)[c].prompts = case[c].prompts
<1>1. Guarded(k) = case \/ Guarded(k) = Cancelled({k.case})
  BY DEF Guarded
<1> QED BY <1>1, CancelledPrompts

\* No step of a user or of a workflow counts a prompt.
LEMMA CaseStepPrompts ==
    ASSUME TypeOK,
           \/ \E a \in Activities : RaiseCase(a) \/ WithdrawCase(a) \/ EditActivity(a) \/ DeleteActivity(a)
           \/ \E a \in Activities, revision \in Revisions : ScheduleFenced(a, revision)
           \/ \E c \in Cases : Lapse(c)
           \/ \E r \in Requests : Transition(r) \/ Reply(r) \/ ReplyUnresolved(r)
    PROVE  SamePrompts /\ delivery' = delivery
<1> USE DEF SamePrompts
<1>0. \A c \in Cases : case[c] \in CaseRecords
  BY DEF TypeOK
<1>1. ASSUME NEW a \in Activities, RaiseCase(a)
      PROVE  SamePrompts /\ delivery' = delivery
  <2>1. PICK d \in Cases :
          case' = [case EXCEPT ![d] = [@ EXCEPT !.status = "PENDING", !.source = a,
                                                !.revision = activity[a], !.lapsed = FALSE]]
    BY <1>1 DEF RaiseCase
  <2> DEFINE new == [case[d] EXCEPT !.status = "PENDING", !.source = a, !.revision = activity[a], !.lapsed = FALSE]
  <2>2. new.prompts = case[d].prompts
    BY <1>0 DEF CaseRecords
  <2>3. case' = [case EXCEPT ![d] = new]
    BY <2>1
  <2> HIDE DEF new
  <2>4. SamePrompts
    BY <2>2, <2>3 DEF TypeOK
  <2> QED BY <1>1, <2>4 DEF RaiseCase
<1>2. ASSUME NEW a \in Activities, WithdrawCase(a) \/ EditActivity(a) \/ DeleteActivity(a)
      PROVE  SamePrompts /\ delivery' = delivery
  BY <1>2, CancelledPrompts DEF WithdrawCase, EditActivity, DeleteActivity
<1>3. ASSUME NEW a \in Activities, NEW revision \in Revisions, ScheduleFenced(a, revision)
      PROVE  SamePrompts /\ delivery' = delivery
  BY <1>3, CancelledPrompts DEF ScheduleFenced
<1>4. ASSUME NEW d \in Cases, Lapse(d)
      PROVE  SamePrompts /\ delivery' = delivery
  <2>1. [case[d] EXCEPT !.lapsed = TRUE].prompts = case[d].prompts
    BY <1>0 DEF CaseRecords
  <2>2. case' = [case EXCEPT ![d] = [case[d] EXCEPT !.lapsed = TRUE]]
    BY <1>4 DEF Lapse
  <2> QED BY <1>4, <2>1, <2>2 DEF Lapse, TypeOK
<1>5. ASSUME NEW r \in Requests, Transition(r)
      PROVE  SamePrompts /\ delivery' = delivery
  BY <1>5, CancelledPrompts DEF Transition, CasesAfter
<1>6. ASSUME NEW r \in Requests, ReplyUnresolved(r)
      PROVE  SamePrompts /\ delivery' = delivery
  <2> DEFINE d == request[r].case
  <2>1. d \in Cases
    BY DEF TypeOK, RequestRecords
  <2>2. [case[d] EXCEPT !.status = "EXPIRED"].prompts = case[d].prompts
    BY <1>0, <2>1 DEF CaseRecords
  <2>3. case' = case \/ case' = [case EXCEPT ![d] = [case[d] EXCEPT !.status = "EXPIRED"]]
    BY <1>6 DEF ReplyUnresolved
  <2> HIDE DEF d
  <2> QED BY <1>6, <2>1, <2>2, <2>3 DEF ReplyUnresolved, TypeOK
<1>7. ASSUME NEW r \in Requests, Reply(r)
      PROVE  SamePrompts /\ delivery' = delivery
  <2> DEFINE d == request[r].case
             skipped == [[case[d] EXCEPT !.status = "RESOLVED"] EXCEPT !.application = "SKIPPED"]
             applied == [[case[d] EXCEPT !.status = "RESOLVED"] EXCEPT !.application = "APPLIED",
                                                                       !.transitions = @ + 1]
             after == CasesAfter(request[r].answer)
  <2>1. d \in Cases
    BY DEF TypeOK, RequestRecords
  <2>2. skipped.prompts = case[d].prompts /\ applied.prompts = case[d].prompts
    BY <1>0, <2>1 DEF CaseRecords
  <2>3. after \in [Cases -> CaseRecords] /\ \A c \in Cases : after[c].prompts = case[c].prompts
    BY CancelledPrompts, CasesAfterTyped DEF CasesAfter
  <2>4. case' = [case EXCEPT ![d] = skipped] \/ case' = [after EXCEPT ![d] = applied]
    BY <1>7 DEF Reply
  <2> HIDE DEF d, skipped, applied, after
  <2>5. SamePrompts
    BY <2>1, <2>2, <2>3, <2>4 DEF TypeOK
  <2> QED BY <1>7, <2>5 DEF Reply
<1> QED BY <1>1, <1>2, <1>3, <1>4, <1>5, <1>6, <1>7

\* What one delivery may do without a prompt: it may be skipped, whatever it
\* was, and what is sent or skipped remains one or the other.
Unprompted(k) ==
    /\ SamePrompts
    /\ \A j \in Keys : j # k => delivery'[j].status = delivery[j].status
    /\ delivery'[k].status = "SENT" => delivery[k].status = "SENT"
    /\ delivery[k].status \in {"SENT", "SKIPPED"} => delivery'[k].status \in {"SENT", "SKIPPED"}

\* A step that sends: the delivery was neither sent nor skipped before.
Prompted(k) ==
    /\ case'[k.case].prompts = case[k.case].prompts + 1
    /\ \A c \in Cases : c # k.case => case'[c].prompts = case[c].prompts
    /\ \A j \in Keys : j # k => delivery'[j].status = delivery[j].status
    /\ delivery[k].status \notin {"SENT", "SKIPPED"} /\ delivery'[k].status = "SENT"

LEMMA UnpromptedCounts ==
    ASSUME TypeOK, Counted, NEW k \in Keys, Unprompted(k)
    PROVE  Counted'
<1> SUFFICES ASSUME NEW c \in Cases
             PROVE  /\ IsFiniteSet(Finished(c)')
                    /\ case'[c].prompts >= Cardinality(Shown(c)')
                    /\ case'[c].prompts <= Cardinality(Finished(c)')
  BY DEF Counted
<1>1. case'[c].prompts = case[c].prompts /\ case[c].prompts \in Nat
  BY DEF Unprompted, SamePrompts, TypeOK, CaseRecords
<1>2. Shown(c)' \subseteq Shown(c)
  BY DEF Shown, Unprompted
<1>3. Finished(c) \subseteq Finished(c)' /\ Finished(c)' \subseteq Finished(c) \cup {k}
  BY DEF Finished, Unprompted
<1>4. IsFiniteSet(Finished(c)) /\ Shown(c) \subseteq Finished(c)
  BY DEF Counted, Shown, Finished
<1>5. IsFiniteSet(Finished(c) \cup {k}) /\ IsFiniteSet(Shown(c))
  BY <1>4, FS_AddElement, FS_Subset
<1>6. IsFiniteSet(Finished(c)') /\ IsFiniteSet(Shown(c)')
  BY <1>2, <1>3, <1>5, FS_Subset
<1>7. /\ Cardinality(Finished(c)) \in Nat /\ Cardinality(Shown(c)) \in Nat
      /\ Cardinality(Finished(c)') \in Nat /\ Cardinality(Shown(c)') \in Nat
  BY <1>4, <1>5, <1>6, FS_CardinalityType
<1>8. Cardinality(Shown(c)') <= Cardinality(Shown(c)) /\ Cardinality(Finished(c)) <= Cardinality(Finished(c)')
  BY <1>2, <1>3, <1>5, <1>6, FS_Subset
<1>9. case[c].prompts >= Cardinality(Shown(c)) /\ case[c].prompts <= Cardinality(Finished(c))
  BY DEF Counted
<1> QED BY <1>1, <1>6, <1>7, <1>8, <1>9

LEMMA PromptedCounts ==
    ASSUME TypeOK, Counted, NEW k \in Keys, Prompted(k)
    PROVE  Counted'
<1> SUFFICES ASSUME NEW c \in Cases
             PROVE  /\ IsFiniteSet(Finished(c)')
                    /\ case'[c].prompts >= Cardinality(Shown(c)')
                    /\ case'[c].prompts <= Cardinality(Finished(c)')
  BY DEF Counted
<1>0. case[c].prompts \in Nat
  BY DEF TypeOK, CaseRecords
<1>1. IsFiniteSet(Finished(c)) /\ Shown(c) \subseteq Finished(c)
  BY DEF Counted, Shown, Finished
<1>2. IsFiniteSet(Shown(c))
  BY <1>1, FS_Subset
<1>3. Cardinality(Finished(c)) \in Nat /\ Cardinality(Shown(c)) \in Nat
  BY <1>1, <1>2, FS_CardinalityType
<1>4. case[c].prompts >= Cardinality(Shown(c)) /\ case[c].prompts <= Cardinality(Finished(c))
  BY DEF Counted
<1>5. CASE c # k.case
  <2>1. Shown(c)' = Shown(c) /\ Finished(c)' = Finished(c)
    BY <1>5 DEF Shown, Finished, Prompted
  <2>2. case'[c].prompts = case[c].prompts
    BY <1>5 DEF Prompted
  <2> QED BY <1>1, <1>4, <2>1, <2>2
<1>6. CASE c = k.case
  <2>1. Shown(c)' = Shown(c) \cup {k} /\ k \notin Shown(c)
    BY <1>6 DEF Shown, Prompted
  <2>2. Finished(c)' = Finished(c) \cup {k} /\ k \notin Finished(c)
    BY <1>6 DEF Finished, Prompted
  <2>3. /\ IsFiniteSet(Finished(c) \cup {k})
        /\ Cardinality(Finished(c) \cup {k}) = Cardinality(Finished(c)) + 1
    BY <1>1, <2>2, FS_AddElement
  <2>4. Cardinality(Shown(c) \cup {k}) = Cardinality(Shown(c)) + 1
    BY <1>2, <2>1, FS_AddElement
  <2>5. case'[c].prompts = case[c].prompts + 1
    BY <1>6 DEF Prompted
  <2> QED BY <1>0, <1>3, <1>4, <2>1, <2>2, <2>3, <2>4, <2>5
<1> QED BY <1>5, <1>6

\* The delivery is written with its final status, or to be tried again.
LEMMA AcknowledgedStatus ==
    ASSUME TypeOK, NEW k \in Keys, NEW status
    PROVE  /\ Acknowledged(k, status)[k].status = status
           /\ \A j \in Keys : j # k => Acknowledged(k, status)[j] = delivery[j]
<1>1. delivery[k] \in DeliveryRecords
  BY DEF TypeOK
<1> DEFINE new == [delivery[k] EXCEPT !.status = status, !.owner = NoWorker, !.live = FALSE, !.due = (status # "FAILED")]
<1>2. new.status = status
  BY <1>1 DEF DeliveryRecords
<1>3. Acknowledged(k, status) = [delivery EXCEPT ![k] = new]
  BY DEF Acknowledged
<1> HIDE DEF new
<1> QED BY <1>2, <1>3 DEF TypeOK

\* The step that acknowledges a prompt counts it; nothing else does.
LEMMA StepPrompts ==
    ASSUME TypeOK, Next
    PROVE  \E k \in Keys : Unprompted(k) \/ Prompted(k)
<1> DEFINE Counts == \E k \in Keys : Unprompted(k) \/ Prompted(k)
<1>1. ASSUME SamePrompts, delivery' = delivery
      PROVE  Counts
  BY <1>1, SomeKeyIsKey DEF Unprompted
<1>2. ASSUME case' = case, delivery' = delivery
      PROVE  Counts
  BY <1>1, <1>2 DEF SamePrompts
<1>3. ASSUME NEW w \in Workers, Ensure(w)
      PROVE  Counts
  <2> DEFINE k == run[w].key
             skipped == [delivery[k] EXCEPT !.status = "SKIPPED", !.owner = NoWorker, !.live = FALSE]
             queued == [delivery[k] EXCEPT !.status = "QUEUED"]
  <2>1. k \in Keys
    BY RunKey
  <2>2. delivery[k] \in DeliveryRecords
    BY <2>1 DEF TypeOK
  <2>3. skipped.status = "SKIPPED" /\ queued.status = "QUEUED"
    BY <2>2 DEF DeliveryRecords
  <2>4. SamePrompts
    BY <1>3, <2>1, GuardedPrompts DEF Ensure, SamePrompts
  <2>5. \/ delivery' = delivery
        \/ delivery' = [delivery EXCEPT ![k] = skipped]
        \/ delivery[k].status = "NONE" /\ delivery' = [delivery EXCEPT ![k] = queued]
    BY <1>3 DEF Ensure
  <2> HIDE DEF k, skipped, queued
  <2>6. Unprompted(k)
    BY <2>1, <2>3, <2>4, <2>5 DEF Unprompted, TypeOK
  <2> QED BY <2>1, <2>6
<1>4. ASSUME NEW w \in Workers, Claim(w)
      PROVE  Counts
  <2> DEFINE k == run[w].key
             claimed == [delivery[k] EXCEPT !.attempts = delivery[k].attempts + 1, !.owner = w, !.live = TRUE]
  <2>1. k \in Keys
    BY RunKey
  <2>2. claimed.status = delivery[k].status
    BY <2>1 DEF TypeOK, DeliveryRecords
  <2>3. delivery' = [delivery EXCEPT ![k] = claimed] /\ case' = case
    BY <1>4 DEF Claim
  <2> HIDE DEF k, claimed
  <2>4. Unprompted(k)
    BY <2>1, <2>2, <2>3 DEF Unprompted, SamePrompts, TypeOK
  <2> QED BY <2>1, <2>4
<1>5. ASSUME NEW w \in Workers, Decline(w)
      PROVE  Counts
  <2> DEFINE k == run[w].key
  <2>1. k \in Keys
    BY RunKey
  <2>2. SamePrompts
    BY <1>5, <2>1, GuardedPrompts DEF Decline, SamePrompts
  <2>3. \/ delivery' = delivery
        \/ /\ delivery[k].status \notin Terminal
           /\ delivery' = Acknowledged(k, "SKIPPED") \/ delivery' = Acknowledged(k, "EXHAUSTED")
    BY <1>5 DEF Decline
  <2> HIDE DEF k
  <2>4. Unprompted(k)
    BY <2>1, <2>2, <2>3, AcknowledgedStatus DEF Unprompted, Terminal
  <2> QED BY <2>1, <2>4
<1>6. ASSUME NEW w \in Workers, NEW outcome \in Outcomes, Acknowledge(w, outcome)
      PROVE  Counts
  <2> DEFINE k == run[w].key
  <2>1. k \in Keys /\ k.case \in Cases
    BY RunKey, KeyFields
  <2>2. delivery[k].status \notin Terminal /\ delivery' = Acknowledged(k, StatusOf(k, outcome))
    BY <1>6 DEF Acknowledge, OwnsLease
  <2>3. CASE outcome = "sent"
    <3> DEFINE guarded == Guarded(k)
               new == [guarded[k.case] EXCEPT !.prompts = @ + 1]
    <3>1. guarded \in [Cases -> CaseRecords]
      BY CancelledEffect DEF Guarded, TypeOK
    <3>2. \A c \in Cases : guarded[c].prompts = case[c].prompts
      BY <2>1, GuardedPrompts
    <3>3. case' = [guarded EXCEPT ![k.case] = new]
      BY <1>6, <2>3 DEF Acknowledge
    <3>4. StatusOf(k, outcome) = "SENT"
      BY <2>3 DEF StatusOf
    <3> HIDE DEF guarded, k
    <3>5. new.prompts = guarded[k.case].prompts + 1
      BY <2>1, <3>1 DEF CaseRecords
    <3> HIDE DEF new
    <3>6. /\ case'[k.case].prompts = case[k.case].prompts + 1
          /\ \A c \in Cases : c # k.case => case'[c].prompts = case[c].prompts
      BY <2>1, <3>1, <3>2, <3>3, <3>5
    <3>7. Prompted(k)
      BY <2>1, <2>2, <3>4, <3>6, AcknowledgedStatus DEF Prompted, Terminal
    <3> QED BY <2>1, <3>7
  <2>4. CASE outcome # "sent"
    <3>1. SamePrompts
      BY <1>6, <2>1, <2>4, GuardedPrompts DEF Acknowledge, SamePrompts
    <3>2. StatusOf(k, outcome) # "SENT"
      BY <2>4, ConfirmationAssumption DEF StatusOf
    <3> HIDE DEF k
    <3>3. Unprompted(k)
      BY <2>1, <2>2, <3>1, <3>2, AcknowledgedStatus DEF Unprompted, Terminal
    <3> QED BY <2>1, <3>3
  <2> QED BY <2>3, <2>4
<1>7. ASSUME NEW w \in Workers, AcknowledgeLate(w) \/ Fail(w)
      PROVE  Counts
  <2>1. SamePrompts
    BY <1>7, RunKey, GuardedPrompts DEF AcknowledgeLate, Fail, SamePrompts
  <2> QED BY <1>1, <1>7, <2>1 DEF AcknowledgeLate, Fail
<1>8. ASSUME NEW k \in Keys, LeaseExpires(k) \/ Due(k)
      PROVE  Counts
  <2> DEFINE expired == [delivery[k] EXCEPT !.live = FALSE]
             due == [delivery[k] EXCEPT !.due = TRUE]
  <2>1. expired.status = delivery[k].status /\ due.status = delivery[k].status
    BY DEF TypeOK, DeliveryRecords
  <2>2. delivery' = [delivery EXCEPT ![k] = expired] \/ delivery' = [delivery EXCEPT ![k] = due]
    BY <1>8 DEF LeaseExpires, Due
  <2>3. case' = case
    BY <1>8 DEF LeaseExpires, Due
  <2> HIDE DEF expired, due
  <2>4. Unprompted(k)
    BY <2>1, <2>2, <2>3 DEF Unprompted, SamePrompts, TypeOK
  <2> QED BY <2>4
<1>9. ASSUME \/ \E r \in Requests : \E act \in {"reply", "transition"}, c \in Cases, answer \in Answer :
                   Begin(r, act, c, answer)
             \/ \E w \in Workers : (\E a \in Activities : Schedule(w, a)) \/ (\E k \in Keys : Recover(w, k))
      PROVE  Counts
  BY <1>2, <1>9 DEF Begin, Schedule, Recover, Look
<1> HIDE DEF Counts
<1>10. Counts
  BY <1>1, <1>3, <1>4, <1>5, <1>6, <1>7, <1>8, <1>9, CaseStepPrompts DEF Next, RunProgress
<1> QED BY <1>10 DEF Counts

LEMMA StepCounted == TypeOK /\ Counted /\ [Next]_vars => Counted'
<1>1. ASSUME TypeOK, Counted, UNCHANGED vars PROVE Counted'
  BY <1>1 DEF vars, Counted, Shown, Finished
<1>2. ASSUME TypeOK, Counted, Next PROVE Counted'
  BY <1>2, StepPrompts, UnpromptedCounts, PromptedCounts
<1> QED BY <1>1, <1>2

LEMMA InitCounted == Init => Counted
<1> SUFFICES ASSUME Init, NEW c \in Cases
             PROVE  /\ IsFiniteSet(Finished(c))
                    /\ case[c].prompts >= Cardinality(Shown(c))
                    /\ case[c].prompts <= Cardinality(Finished(c))
  BY DEF Counted
<1>1. Shown(c) = {} /\ Finished(c) = {}
  BY DEF Init, NoDelivery, Shown, Finished
<1>2. case[c].prompts = 0
  <2>1. NoCase.prompts = 0 /\ [NoCase EXCEPT !.status = "CANCELLED"].prompts = 0
    BY DEF NoCase
  <2> QED BY <2>1 DEF Init
<1> QED BY <1>1, <1>2, FS_EmptySet

\* A prompt that is sent is counted, and one that two workers have dispatched is
\* counted once: the counter lies between the deliveries that are sent and those
\* that are sent or, seen in an old snapshot, overwritten as skipped.
THEOREM PromptsAreCounted == Spec => []PromptsCounted
<1>1. Counted => PromptsCounted
  BY DEF Counted, PromptsCounted, Shown, Finished
<1> QED BY <1>1, TypeCorrect, InitCounted, StepCounted, PTL DEF Spec
=============================================================================
