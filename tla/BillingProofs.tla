----------------------------- MODULE BillingProofs -----------------------------
(***************************************************************************)
(* Theorems about InvoiceIssuing and, further below, about PaymentLedger.  *)
(*                                                                         *)
(* InvoiceIssuing: for any number of requests, reissue applications, edits *)
(* and submissions, and whatever overlaps.                                 *)
(*                                                                         *)
(* The invariant ties the three places where the fate of the application   *)
(* is written, its status, its approval_phase and its approval, and keeps  *)
(* the content that the approval was asked for while it waits (Reviewed).  *)
(***************************************************************************)
EXTENDS InvoiceIssuing, PaymentBooks, FiniteSetTheorems, WellFoundedInduction, TLAPS


\* Reissues are revised and completed, not the application.
Addressed == \A r \in Requests : request[r].act \in {"revise", "complete"} => request[r].doc # 0

Reviewed ==
    /\ doc[0].status \in {"APPROVED", "DONE"} =>
          /\ doc[0].approval_phase = "APPROVED"
          /\ approval[0].status = "APPROVED"
          /\ approval[0].content = doc[0].content
    /\ approval[0].status = "PENDING" /\ Exists(0) =>
          /\ doc[0].status = "PENDING_REVIEW"
          /\ approval[0].content = doc[0].content

IInv == TypeOK /\ Addressed /\ Reviewed

LEMMA ZeroIsDoc == 0 \in Docs
BY InvoiceAssumption DEF Docs

LEMMA CreatedTyped == Created \in [Docs -> Doc] /\ NoDoc \in Doc /\ Draft \in Doc
<1>1. Draft \in Doc
  BY InvoiceAssumption DEF Draft, Doc
<1>2. NoDoc \in Doc
  BY InvoiceAssumption DEF NoDoc, Draft, Doc
<1> QED
  BY <1>1, <1>2 DEF Created

LEMMA IdleTyped == Idle \in [act : Acts \cup {"none"}, doc : Docs, seen : Seen]
<1>1. NoApproval \in Approval
  BY InvoiceAssumption DEF NoApproval, Approval
<1>2. [d \in Docs |-> NoApproval] \in [Docs -> Approval]
  BY <1>1
<1>3. <<>> \in Seq(Docs)
  OBVIOUS
<1>4. Idle.seen \in Seen
  BY <1>2, <1>3, CreatedTyped DEF Idle, Seen
<1> QED
  BY <1>4, ZeroIsDoc DEF Idle

\* The end of a request keeps what is said about requests.
LEMMA EndKeeps ==
    ASSUME TypeOK, Addressed, NEW r \in Requests, End(r)
    PROVE  /\ request' \in [Requests -> [act : Acts \cup {"none"}, doc : Docs, seen : Seen]]
           /\ Addressed'
<1>1. request' \in [Requests -> [act : Acts \cup {"none"}, doc : Docs, seen : Seen]]
  BY IdleTyped DEF End, TypeOK
<1>2. Addressed'
  <2> SUFFICES ASSUME NEW q \in Requests, request'[q].act \in {"revise", "complete"}
               PROVE  request'[q].doc # 0
    BY DEF Addressed
  <2>1. CASE q = r
    BY <2>1 DEF End, TypeOK, Idle
  <2>2. CASE q # r
    BY <2>2 DEF End, TypeOK, Addressed
  <2> QED
    BY <2>1, <2>2
<1> QED
  BY <1>1, <1>2

\* A document's row is replaced by a row.
LEMMA DocReplaced ==
    ASSUME TypeOK, NEW d \in Docs, NEW row \in Doc, doc' = [doc EXCEPT ![d] = row]
    PROVE  /\ doc' \in [Docs -> Doc]
           /\ d # 0 => doc'[0] = doc[0]
           /\ d = 0 => doc'[0] = row
BY ZeroIsDoc DEF TypeOK

\* A row with another content is a row.
LEMMA EditedTyped ==
    ASSUME TypeOK, NEW d \in Docs, doc[d].content < MaxEdits, doc' = [doc EXCEPT ![d].content = @ + 1]
    PROVE  /\ doc' \in [Docs -> Doc]
           /\ doc'[0].status = doc[0].status
           /\ d # 0 => doc'[0] = doc[0]
<1> DEFINE row == [doc[d] EXCEPT !.content = @ + 1]
<1>1. doc[d] \in Doc
  BY DEF TypeOK
<1>2. row \in Doc
  BY <1>1, InvoiceAssumption DEF Doc
<1>3. doc' = [doc EXCEPT ![d] = row]
  BY DEF TypeOK
<1>4. row.status = doc[d].status
  BY <1>1 DEF Doc
<1> HIDE DEF row
<1> QED
  BY <1>2, <1>3, <1>4, ZeroIsDoc DEF TypeOK

LEMMA EnteredTyped ==
    ASSUME TypeOK, NEW d \in Docs, NEW phase \in {"DRAFT", "PENDING_REVIEW", "APPROVED", "REJECTED"}
    PROVE  /\ Entered(d, phase) \in Doc
           /\ Entered(d, phase).status = phase
           /\ Entered(d, phase).approval_phase = phase
           /\ Entered(d, phase).content = doc[d].content
<1>1. doc[d] \in Doc
  BY DEF TypeOK
<1> QED
  BY <1>1 DEF Entered, Doc

-----------------------------------------------------------------------------
LEMMA InitIInv == Init => IInv
<1> SUFFICES ASSUME Init PROVE IInv
  OBVIOUS
<1>1. TypeOK
  <2>1. approval \in [Docs -> Approval]
    BY InvoiceAssumption DEF Init, NoApproval, Approval
  <2>2. request \in [Requests -> [act : Acts \cup {"none"}, doc : Docs, seen : Seen]]
    BY IdleTyped DEF Init
  <2> QED
    BY <2>1, <2>2, CreatedTyped DEF Init, TypeOK
<1>2. Addressed
  BY DEF Init, Addressed, Idle
<1>3. Reviewed
  BY ZeroIsDoc DEF Init, Reviewed, Created, Draft, NoApproval
<1> QED
  BY <1>1, <1>2, <1>3 DEF IInv

LEMMA BeginKeeps ==
    ASSUME IInv, NEW r \in Requests, NEW act \in Acts, NEW d \in Docs, Begin(r, act, d)
    PROVE  IInv'
<1> DEFINE seen == [doc |-> doc, approval |-> approval, offsets |-> offsets]
           now == [act |-> act, doc |-> d, seen |-> seen]
<1> USE DEF IInv
<1>1. request' = [request EXCEPT ![r] = now] /\ UNCHANGED <<doc, approval, offsets>>
  BY DEF Begin
<1>2. seen \in Seen
  BY DEF TypeOK, Seen
<1>3. now \in [act : Acts \cup {"none"}, doc : Docs, seen : Seen]
  BY <1>2
<1>4. act \in {"revise", "complete"} => d # 0
  BY DEF Begin, Admissible
<1>5. now.act = act /\ now.doc = d
  OBVIOUS
<1> HIDE DEF now
<1>6. TypeOK'
  BY <1>1, <1>3 DEF TypeOK
<1>7. Addressed'
  <2> SUFFICES ASSUME NEW q \in Requests, request'[q].act \in {"revise", "complete"}
               PROVE  request'[q].doc # 0
    BY DEF Addressed
  <2>1. CASE q = r
    BY <2>1, <1>1, <1>4, <1>5 DEF TypeOK
  <2>2. CASE q # r
    BY <2>2, <1>1 DEF TypeOK, Addressed
  <2> QED
    BY <2>1, <2>2
<1>8. Reviewed'
  BY <1>1 DEF Reviewed, Exists
<1> QED
  BY <1>6, <1>7, <1>8

LEMMA UpdateKeeps ==
    ASSUME IInv, NEW r \in Requests, Update(r)
    PROVE  IInv'
<1> USE DEF IInv
<1>1. End(r) /\ UNCHANGED <<approval, offsets>> /\ Editable
  BY DEF Update
<1>2. doc' \in [Docs -> Doc] /\ doc'[0].status = doc[0].status
  BY EditedTyped, ZeroIsDoc DEF Update
<1>3. TypeOK' /\ Addressed'
  BY <1>1, <1>2, EndKeeps DEF TypeOK
<1>4. Reviewed'
  BY <1>1, <1>2 DEF Reviewed, Exists, Editable
<1> QED
  BY <1>3, <1>4

LEMMA ReviseKeeps ==
    ASSUME IInv, NEW r \in Requests, Revise(r)
    PROVE  IInv' /\ doc'[0] = doc[0]
<1> USE DEF IInv
<1>1. End(r) /\ UNCHANGED <<approval, offsets>>
  BY DEF Revise
<1>2. request[r].doc \in Docs /\ request[r].doc # 0
  BY DEF TypeOK, Addressed, Revise
<1>3. doc' \in [Docs -> Doc] /\ doc'[0] = doc[0]
  BY <1>2, EditedTyped DEF Revise
<1>4. TypeOK' /\ Addressed'
  BY <1>1, <1>3, EndKeeps DEF TypeOK
<1>5. Reviewed'
  BY <1>1, <1>3 DEF Reviewed, Exists
<1> QED
  BY <1>3, <1>4, <1>5

LEMMA SubmitKeeps ==
    ASSUME IInv, NEW r \in Requests, Submit(r)
    PROVE  IInv' /\ (doc[0].status = "DONE" => doc'[0] = doc[0])
<1> DEFINE d == request[r].doc
           new == [status |-> "PENDING", round |-> approval[d].round + 1, content |-> doc[d].content]
           row == Entered(d, "PENDING_REVIEW")
<1> USE DEF IInv
<1>1. d \in Docs
  BY DEF TypeOK
<1>2. /\ End(r) /\ UNCHANGED offsets
      /\ doc' = [doc EXCEPT ![d] = row]
      /\ approval' = [approval EXCEPT ![d] = new]
      /\ doc[d].approval_phase \in {"DRAFT", "REJECTED"}
      /\ approval[d].round < MaxRounds
  BY DEF Submit
<1>3. approval[d] \in Approval /\ doc[d] \in Doc
  BY <1>1 DEF TypeOK
<1>4. new \in Approval /\ new.status = "PENDING" /\ new.content = doc[d].content
  BY <1>2, <1>3, InvoiceAssumption DEF Approval, Doc
<1>5. row \in Doc /\ row.status = "PENDING_REVIEW" /\ row.content = doc[d].content
  BY <1>1, EnteredTyped
<1> HIDE DEF d, new, row
<1>6. doc' \in [Docs -> Doc] /\ (d # 0 => doc'[0] = doc[0]) /\ (d = 0 => doc'[0] = row)
  BY <1>1, <1>2, <1>5, DocReplaced
<1>7. approval' \in [Docs -> Approval] /\ (d # 0 => approval'[0] = approval[0])
      /\ (d = 0 => approval'[0] = new)
  BY <1>1, <1>2, <1>4, ZeroIsDoc DEF TypeOK
<1>8. TypeOK' /\ Addressed'
  BY <1>2, <1>6, <1>7, EndKeeps DEF TypeOK
<1>9. Reviewed'
  BY <1>4, <1>5, <1>6, <1>7 DEF Reviewed, Exists
<1>10. doc[0].status = "DONE" => d # 0
  BY <1>2 DEF Reviewed
<1> QED
  BY <1>6, <1>8, <1>9, <1>10

LEMMA DecideKeeps ==
    ASSUME IInv, NEW r \in Requests, Decide(r)
    PROVE  IInv' /\ (doc[0].status = "DONE" => doc'[0] = doc[0])
<1> DEFINE d == request[r].doc
           phase == Decided(request[r].act)
           row == Entered(d, phase)
           outcome == IF phase = "DRAFT" THEN "CANCELLED" ELSE phase
           decided == [approval[d] EXCEPT !.status = outcome]
<1> USE DEF IInv
<1>1. d \in Docs
  BY DEF TypeOK
<1>2. /\ End(r) /\ UNCHANGED offsets
      /\ doc' = [doc EXCEPT ![d] = row]
      /\ approval' = [approval EXCEPT ![d] = decided]
      /\ approval[d].status = "PENDING"
      /\ Exists(d)
  BY <1>1 DEF Decide, StillPending, TypeOK
<1>3. approval[d] \in Approval /\ doc[d] \in Doc
  BY <1>1 DEF TypeOK
<1>4. phase \in {"APPROVED", "REJECTED", "DRAFT"}
  BY DEF Decide, Decided
<1>5. decided \in Approval /\ decided.status = outcome /\ decided.content = approval[d].content
  BY <1>3, <1>4 DEF Approval
<1>6. /\ row \in Doc /\ row.status = phase /\ row.approval_phase = phase
      /\ row.content = doc[d].content
  BY <1>1, <1>4, EnteredTyped
<1>7. outcome # "PENDING" /\ (phase = "APPROVED" => outcome = "APPROVED")
  BY <1>4
<1> HIDE DEF d, phase, row, outcome, decided
<1>8. doc' \in [Docs -> Doc] /\ (d # 0 => doc'[0] = doc[0]) /\ (d = 0 => doc'[0] = row)
  BY <1>1, <1>2, <1>6, DocReplaced
<1>9. approval' \in [Docs -> Approval] /\ (d # 0 => approval'[0] = approval[0])
      /\ (d = 0 => approval'[0] = decided)
  BY <1>1, <1>2, <1>5, ZeroIsDoc DEF TypeOK
<1>10. TypeOK' /\ Addressed'
  BY <1>2, <1>8, <1>9, EndKeeps DEF TypeOK
<1>11. Reviewed'
  BY <1>2, <1>4, <1>5, <1>6, <1>7, <1>8, <1>9 DEF Reviewed, Exists
<1>12. doc[0].status = "DONE" => d # 0
  BY <1>2 DEF Reviewed
<1> QED
  BY <1>8, <1>10, <1>11, <1>12

LEMMA IssueKeeps ==
    ASSUME IInv, NEW r \in Requests, Issue(r)
    PROVE  IInv' /\ doc[0].status # "DONE"
<1> DEFINE row == [status |-> "DONE", approval_phase |-> doc[0].approval_phase,
                   content |-> doc[0].content, number |-> r]
<1> USE DEF IInv
<1>1. /\ End(r) /\ UNCHANGED <<approval, offsets>>
      /\ doc' = [doc EXCEPT ![0] = row]
      /\ doc[0].status = "APPROVED"
  BY DEF Issue, Issuable
<1>2. doc[0] \in Doc
  BY ZeroIsDoc DEF TypeOK
<1>3. /\ row \in Doc /\ row.status = "DONE" /\ row.approval_phase = doc[0].approval_phase
      /\ row.content = doc[0].content
  BY <1>2 DEF Doc
<1> HIDE DEF row
<1>4. doc' \in [Docs -> Doc] /\ doc'[0] = row
  BY <1>1, <1>3, DocReplaced, ZeroIsDoc
<1>5. TypeOK' /\ Addressed'
  BY <1>1, <1>4, EndKeeps DEF TypeOK
<1>6. Reviewed'
  BY <1>1, <1>3, <1>4 DEF Reviewed, Exists
<1> QED
  BY <1>1, <1>5, <1>6

LEMMA DeleteKeeps ==
    ASSUME IInv, NEW r \in Requests, Delete(r)
    PROVE  IInv' /\ doc'[0].status = "GONE"
<1> DEFINE gone == [NoDoc EXCEPT !.status = "GONE"]
<1> USE DEF IInv
<1>1. /\ End(r) /\ UNCHANGED approval /\ offsets' = <<>>
      /\ doc' = [d \in Docs |-> IF Exists(d) THEN gone ELSE doc[d]]
      /\ Exists(0)
  BY DEF Delete, Deleted
<1>2. gone \in Doc /\ gone.status = "GONE"
  BY CreatedTyped DEF Doc
<1> HIDE DEF gone
<1>3. doc' \in [Docs -> Doc] /\ doc'[0] = gone
  BY <1>1, <1>2, ZeroIsDoc DEF TypeOK
<1>4. offsets' \in Seq(Docs)
  BY <1>1
<1>5. TypeOK' /\ Addressed'
  BY <1>1, <1>3, <1>4, EndKeeps DEF TypeOK
<1>6. Reviewed'
  BY <1>2, <1>3 DEF Reviewed, Exists
<1> QED
  BY <1>2, <1>3, <1>5, <1>6

LEMMA CreateReissueKeeps ==
    ASSUME IInv, NEW r \in Requests, CreateReissue(r)
    PROVE  IInv' /\ doc'[0] = doc[0]
<1> USE DEF IInv
<1>1. End(r) /\ UNCHANGED <<approval, offsets>>
  BY DEF CreateReissue
<1>2. PICK d \in Docs \ {0} : doc' = [doc EXCEPT ![d] = Draft]
  BY DEF CreateReissue
<1>3. doc' \in [Docs -> Doc] /\ doc'[0] = doc[0]
  BY <1>2, CreatedTyped, DocReplaced
<1>4. TypeOK' /\ Addressed'
  BY <1>1, <1>3, EndKeeps DEF TypeOK
<1>5. Reviewed'
  BY <1>1, <1>3 DEF Reviewed, Exists
<1> QED
  BY <1>3, <1>4, <1>5

LEMMA CompleteKeeps ==
    ASSUME IInv, NEW r \in Requests, Complete(r)
    PROVE  IInv' /\ doc'[0] = doc[0]
<1> DEFINE d == request[r].doc
           row == CompletedDoc(r)
<1> USE DEF IInv
<1>1. d \in Docs /\ d # 0
  BY DEF TypeOK, Addressed, Complete
<1>2. /\ End(r) /\ UNCHANGED approval
      /\ doc' = [doc EXCEPT ![d] = row]
      /\ offsets' \in {offsets, Append(offsets, d)}
  BY DEF Complete
<1>3. doc[d] \in Doc
  BY <1>1 DEF TypeOK
<1>4. row \in Doc
  BY <1>3 DEF CompletedDoc, Doc
<1> HIDE DEF d, row
<1>5. doc' \in [Docs -> Doc] /\ doc'[0] = doc[0]
  BY <1>1, <1>2, <1>4, DocReplaced
<1>6. offsets' \in Seq(Docs)
  BY <1>1, <1>2 DEF TypeOK
<1>7. TypeOK' /\ Addressed'
  BY <1>2, <1>5, <1>6, EndKeeps DEF TypeOK
<1>8. Reviewed'
  BY <1>2, <1>5 DEF Reviewed, Exists
<1> QED
  BY <1>5, <1>7, <1>8

LEMMA OffsetKeeps ==
    ASSUME IInv, NEW r \in Requests, Offset(r)
    PROVE  IInv' /\ doc' = doc
<1> USE DEF IInv
<1>1. End(r) /\ UNCHANGED <<doc, approval>> /\ offsets' = Append(offsets, 0)
  BY DEF Offset, Manual
<1>2. offsets' \in Seq(Docs)
  BY <1>1, ZeroIsDoc DEF TypeOK
<1>3. TypeOK' /\ Addressed'
  BY <1>1, <1>2, EndKeeps DEF TypeOK
<1>4. Reviewed'
  BY <1>1 DEF Reviewed, Exists
<1> QED
  BY <1>1, <1>3, <1>4

LEMMA RefuseKeeps ==
    ASSUME IInv, NEW r \in Requests, Refuse(r)
    PROVE  IInv' /\ doc' = doc
<1> USE DEF IInv
<1>1. End(r) /\ UNCHANGED <<doc, approval, offsets>>
  BY DEF Refuse
<1>2. TypeOK' /\ Addressed'
  BY <1>1, EndKeeps DEF TypeOK
<1>3. Reviewed'
  BY <1>1 DEF Reviewed, Exists
<1> QED
  BY <1>1, <1>2, <1>3

\* A step keeps the invariant, and an issued application as it is.
LEMMA Step ==
    ASSUME IInv, [Next]_vars
    PROVE  IInv' /\ (doc[0].status = "DONE" => doc'[0] = doc[0] \/ doc'[0].status = "GONE")
<1> DEFINE Goal == IInv' /\ (doc[0].status = "DONE" => doc'[0] = doc[0] \/ doc'[0].status = "GONE")
<1>1. CASE UNCHANGED vars
  BY <1>1 DEF vars, IInv, TypeOK, Addressed, Reviewed, Exists
<1>2. ASSUME NEW r \in Requests, NEW act \in Acts, NEW d \in Docs, Begin(r, act, d)
      PROVE  Goal
  BY <1>2, BeginKeeps DEF Begin
<1>3. ASSUME NEW r \in Requests, Finish(r)
      PROVE  Goal
  <2>1. CASE Update(r)
    <3>1. doc[0].status # "DONE"
      BY <2>1 DEF Update, Editable
    <3> QED
      BY <2>1, <3>1, UpdateKeeps
  <2>2. CASE Revise(r)
    BY <2>2, ReviseKeeps
  <2>3. CASE Submit(r)
    BY <2>3, SubmitKeeps
  <2>4. CASE Decide(r)
    BY <2>4, DecideKeeps
  <2>5. CASE Issue(r)
    BY <2>5, IssueKeeps
  <2>6. CASE Delete(r)
    BY <2>6, DeleteKeeps
  <2>7. CASE CreateReissue(r)
    BY <2>7, CreateReissueKeeps
  <2>8. CASE Complete(r)
    BY <2>8, CompleteKeeps
  <2>9. CASE Offset(r)
    BY <2>9, OffsetKeeps
  <2>10. CASE Refuse(r)
    BY <2>10, RefuseKeeps
  <2> HIDE DEF Goal
  <2> QED
    BY <1>3, <2>1, <2>2, <2>3, <2>4, <2>5, <2>6, <2>7, <2>8, <2>9, <2>10 DEF Finish
<1> HIDE DEF Goal
<1>4. ASSUME Next PROVE Goal
  <2>1. PICK r \in Requests : (\E act \in Acts, d \in Docs : Begin(r, act, d)) \/ Finish(r)
    BY <1>4 DEF Next
  <2>2. CASE Finish(r)
    BY <2>2, <1>3
  <2>3. CASE \E act \in Acts, d \in Docs : Begin(r, act, d)
    <3>1. PICK act \in Acts, d \in Docs : Begin(r, act, d)
      BY <2>3
    <3> QED
      BY <3>1, <1>2
  <2> QED
    BY <2>1, <2>2, <2>3
<1>5. Goal
  BY <1>1, <1>4 DEF Goal
<1> QED
  BY <1>5 DEF Goal

LEMMA Inductive == Spec => []IInv
<1>1. IInv /\ [Next]_vars => IInv'
  BY Step
<1> QED
  BY InitIInv, <1>1, PTL DEF Spec

\* Every document, approval, offset and request stays of its type.
THEOREM TypeCorrect == Spec => []TypeOK
<1>1. IInv => TypeOK
  BY DEF IInv
<1> QED
  BY Inductive, <1>1, PTL

\* Whatever edits, submissions and decisions overlap, an application is approved
\* and issued with the content that its approval was asked for.
THEOREM IssuesTheReviewed == Spec => []IssuedAsReviewed
<1>1. IInv => IssuedAsReviewed
  BY DEF IInv, Reviewed, IssuedAsReviewed
<1> QED
  BY Inductive, <1>1, PTL

\* No request changes an issued application or its number; a deletion that
\* began before it was issued, or of what it belongs to, may take it away.
THEOREM IssuesOnce == Spec => IssuedOnce
<1>1. IInv /\ [Next]_vars => [doc[0].status = "DONE" => doc'[0] = doc[0] \/ doc'[0].status = "GONE"]_vars
  BY Step
<1> QED
  BY Inductive, <1>1, PTL DEF Spec, IssuedOnce

-----------------------------------------------------------------------------
(* The red offsets.  A document that is approved, completed or gone never   *)
(* goes back (Onward), so what a completion was let in for still holds when *)
(* it is carried out, however long its files took (Ready).                  *)

\* Every document's status and its approval agree.
Phased ==
    \A d \in Docs :
        /\ doc[d].status \in {"APPROVED", "DONE"} => doc[d].approval_phase = "APPROVED"
        /\ approval[d].status = "PENDING" /\ doc[d].status # "GONE" => doc[d].status = "PENDING_REVIEW"

Passed == {"APPROVED", "DONE", "GONE"}

Onward == \A d \in Docs : doc[d].status \in Passed => doc'[d].status \in Passed

\* A completion saw no offset of its reissue.
Ready ==
    \A r \in Requests : request[r].act = "complete" =>
        /\ ~Contains(request[r].seen.offsets, request[r].doc)
        /\ doc[request[r].doc].status \in Passed

OInv == IInv /\ Phased /\ Ready /\ OffsetsFollowCompletion

LEMMA ContainsAppended ==
    ASSUME NEW seq \in Seq(Docs), NEW e \in Docs, NEW d \in Docs
    PROVE  Contains(Append(seq, e), d) <=> Contains(seq, d) \/ e = d
<1>1. Append(seq, e) \in Seq(Docs) /\ Len(Append(seq, e)) = Len(seq) + 1
  OBVIOUS
<1>2. \A i \in 1 .. Len(seq) : Append(seq, e)[i] = seq[i]
  OBVIOUS
<1>3. Append(seq, e)[Len(seq) + 1] = e
  OBVIOUS
<1>4. CASE e = d
  BY <1>1, <1>3, <1>4 DEF Contains
<1>5. CASE e # d
  BY <1>1, <1>2, <1>3, <1>5 DEF Contains
<1> QED
  BY <1>4, <1>5

LEMMA InitOInv == Init => OInv
<1> SUFFICES ASSUME Init PROVE OInv
  OBVIOUS
<1>1. Phased
  BY DEF Init, Phased, Created, NoDoc, Draft, NoApproval
<1>2. Ready
  BY DEF Init, Ready, Idle
<1>3. \A d \in Docs : ~Contains(offsets, d) /\ doc[d].status # "DONE"
  BY DEF Init, Contains, Created, NoDoc, Draft
<1> QED
  BY <1>1, <1>2, <1>3, InitIInv DEF OInv, OffsetsFollowCompletion

\* The completions that go on after the end of a request are still ready.
LEMMA EndReady ==
    ASSUME OInv, NEW r \in Requests, End(r), Onward
    PROVE  Ready'
<1> SUFFICES ASSUME NEW q \in Requests, request'[q].act = "complete"
             PROVE  /\ ~Contains(request'[q].seen.offsets, request'[q].doc)
                    /\ doc'[request'[q].doc].status \in Passed
  BY DEF Ready
<1>1. q # r
  BY DEF End, OInv, IInv, TypeOK, Idle
<1>2. request'[q] = request[q] /\ request[q].doc \in Docs
  BY <1>1 DEF End, OInv, IInv, TypeOK
<1> QED
  BY <1>2 DEF OInv, Ready, Onward

\* One document is written, DONE neither before nor after; the offsets stay.
LEMMA OneDocWritten ==
    ASSUME OInv, NEW d \in Docs, offsets' = offsets,
           \A other \in Docs \ {d} : doc'[other] = doc[other] /\ approval'[other] = approval[other],
           doc'[d].status \in {"APPROVED", "DONE"} => doc'[d].approval_phase = "APPROVED",
           approval'[d].status = "PENDING" /\ doc'[d].status # "GONE" => doc'[d].status = "PENDING_REVIEW",
           d # 0 => (doc[d].status = "DONE" <=> doc'[d].status = "DONE"),
           doc[d].status \in Passed => doc'[d].status \in Passed
    PROVE  Phased' /\ OffsetsFollowCompletion' /\ Onward
<1>1. Phased'
  <2> SUFFICES ASSUME NEW e \in Docs
               PROVE  /\ doc'[e].status \in {"APPROVED", "DONE"} => doc'[e].approval_phase = "APPROVED"
                      /\ approval'[e].status = "PENDING" /\ doc'[e].status # "GONE"
                           => doc'[e].status = "PENDING_REVIEW"
    BY DEF Phased
  <2>1. CASE e = d
    BY <2>1
  <2>2. CASE e # d
    BY <2>2 DEF OInv, Phased
  <2> QED
    BY <2>1, <2>2
<1>2. \A e \in Docs \ {0} : doc[e].status = "DONE" <=> doc'[e].status = "DONE"
  OBVIOUS
<1>3. OffsetsFollowCompletion'
  BY <1>2 DEF OInv, OffsetsFollowCompletion
<1>4. Onward
  BY DEF Onward
<1> QED
  BY <1>1, <1>3, <1>4

LEMMA CompleteFollows ==
    ASSUME OInv, NEW r \in Requests, Complete(r)
    PROVE  Phased' /\ OffsetsFollowCompletion' /\ Onward
<1> DEFINE d == request[r].doc
           row == CompletedDoc(r)
<1>1. d \in Docs /\ d # 0
  BY DEF OInv, IInv, TypeOK, Addressed, Complete
<1>2. /\ UNCHANGED approval
      /\ doc' = [doc EXCEPT ![d] = row]
      /\ offsets' = Append(offsets, d)
      /\ doc[d].status \in {"APPROVED", "DONE"}
  BY DEF Complete, Exists, OInv, Ready, Passed
<1>3. doc \in [Docs -> Doc] /\ offsets \in Seq(Docs) /\ doc[d] \in Doc
  BY <1>1 DEF OInv, IInv, TypeOK
<1>4. row.status = "DONE" /\ row.approval_phase = doc[d].approval_phase
  BY <1>3 DEF CompletedDoc, Doc
<1>5. doc[d].approval_phase = "APPROVED" /\ approval[d].status # "PENDING"
  BY <1>1, <1>2 DEF OInv, Phased
<1> HIDE DEF d, row
<1>6. doc'[d] = row /\ \A e \in Docs \ {d} : doc'[e] = doc[e]
  BY <1>1, <1>2, <1>3
<1>7. Phased'
  BY <1>2, <1>4, <1>5, <1>6 DEF OInv, Phased
<1>8. OffsetsFollowCompletion'
  <2> SUFFICES ASSUME NEW e \in Docs \ {0}
               PROVE  Contains(offsets', e) <=> doc'[e].status = "DONE"
    BY DEF OffsetsFollowCompletion
  <2>1. Contains(offsets', e) <=> Contains(offsets, e) \/ e = d
    BY <1>1, <1>2, <1>3, ContainsAppended
  <2>2. CASE e = d
    BY <2>1, <2>2, <1>4, <1>6
  <2>3. CASE e # d
    BY <2>1, <2>3, <1>6 DEF OInv, OffsetsFollowCompletion
  <2> QED
    BY <2>2, <2>3
<1>9. Onward
  BY <1>4, <1>6 DEF Onward, Passed
<1> QED
  BY <1>7, <1>8, <1>9

LEMMA OffsetFollows ==
    ASSUME OInv, NEW r \in Requests, Offset(r)
    PROVE  Phased' /\ OffsetsFollowCompletion' /\ Onward
<1>1. UNCHANGED <<doc, approval>> /\ offsets' = Append(offsets, 0)
  BY DEF Offset, Manual
<1>2. offsets \in Seq(Docs)
  BY DEF OInv, IInv, TypeOK
<1>3. \A d \in Docs \ {0} : Contains(offsets', d) <=> Contains(offsets, d)
  BY <1>1, <1>2, ZeroIsDoc, ContainsAppended
<1>4. OffsetsFollowCompletion'
  BY <1>1, <1>3 DEF OInv, OffsetsFollowCompletion
<1> QED
  BY <1>1, <1>4 DEF OInv, Phased, Onward

LEMMA DeleteFollows ==
    ASSUME OInv, NEW r \in Requests, Delete(r)
    PROVE  Phased' /\ OffsetsFollowCompletion' /\ Onward
<1>1. /\ UNCHANGED approval /\ offsets' = <<>>
      /\ doc' = [d \in Docs |-> IF Exists(d) THEN [NoDoc EXCEPT !.status = "GONE"] ELSE doc[d]]
  BY DEF Delete, Deleted
<1>2. \A d \in Docs : doc'[d].status = "GONE" \/ (doc'[d].status = "NONE" /\ doc[d].status = "NONE")
  <2> SUFFICES ASSUME NEW d \in Docs
               PROVE  doc'[d].status = "GONE" \/ (doc'[d].status = "NONE" /\ doc[d].status = "NONE")
    OBVIOUS
  <2>1. CASE Exists(d)
    BY <1>1, <2>1 DEF NoDoc, Draft
  <2>2. CASE ~Exists(d)
    <3>1. doc'[d] = doc[d]
      BY <1>1, <2>2
    <3> QED
      BY <2>2, <3>1 DEF Exists
  <2> QED
    BY <2>1, <2>2
<1>3. \A d \in Docs : ~Contains(offsets', d)
  BY <1>1 DEF Contains
<1>4. OffsetsFollowCompletion'
  BY <1>2, <1>3 DEF OffsetsFollowCompletion
<1>5. Phased' /\ Onward
  BY <1>1, <1>2 DEF OInv, Phased, Onward, Passed
<1> QED
  BY <1>4, <1>5

LEMMA BeginReady ==
    ASSUME OInv, NEW r \in Requests, NEW act \in Acts, NEW d \in Docs, Begin(r, act, d)
    PROVE  Phased' /\ Ready' /\ OffsetsFollowCompletion'
<1> DEFINE now == [act |-> act, doc |-> d,
                   seen |-> [doc |-> doc, approval |-> approval, offsets |-> offsets]]
<1>1. request' = [request EXCEPT ![r] = now] /\ UNCHANGED <<doc, approval, offsets>>
  BY DEF Begin
<1>2. now.act = act /\ now.doc = d /\ now.seen.offsets = offsets
  OBVIOUS
<1> HIDE DEF now
<1>3. Phased' /\ OffsetsFollowCompletion'
  BY <1>1 DEF OInv, Phased, OffsetsFollowCompletion
<1>4. request'[r] = now /\ \A q \in Requests \ {r} : request'[q] = request[q]
  BY <1>1 DEF OInv, IInv, TypeOK
<1>5. act = "complete" => d # 0 /\ doc[d].status = "APPROVED"
  BY DEF Begin, Admissible
<1>6. act = "complete" => ~Contains(offsets, d)
  BY <1>5 DEF OInv, OffsetsFollowCompletion
<1>7. Ready'
  <2> SUFFICES ASSUME NEW q \in Requests, request'[q].act = "complete"
               PROVE  /\ ~Contains(request'[q].seen.offsets, request'[q].doc)
                      /\ doc[request'[q].doc].status \in Passed
    BY <1>1 DEF Ready
  <2>1. CASE q = r
    BY <2>1, <1>2, <1>4, <1>5, <1>6 DEF Passed
  <2>2. CASE q # r
    BY <2>2, <1>4 DEF OInv, Ready
  <2> QED
    BY <2>1, <2>2
<1> QED
  BY <1>3, <1>7

\* The requests that write at most one row and no offset.
LEMMA RowFollows ==
    ASSUME OInv, NEW r \in Requests,
           Update(r) \/ Revise(r) \/ Submit(r) \/ Decide(r) \/ Issue(r) \/ CreateReissue(r) \/ Refuse(r)
    PROVE  Phased' /\ OffsetsFollowCompletion' /\ Onward
<1> DEFINE d == request[r].doc
<1>0. /\ doc \in [Docs -> Doc] /\ approval \in [Docs -> Approval] /\ d \in Docs
      /\ request[r].act \in {"revise", "complete"} => d # 0
  BY DEF OInv, IInv, TypeOK, Addressed
<1>00. \A e \in Docs : doc[e] \in Doc /\ approval[e] \in Approval
  BY <1>0
<1>1. CASE Update(r)
  <2>1. /\ UNCHANGED <<approval, offsets>> /\ Editable
        /\ doc' = [doc EXCEPT ![0] = [doc[0] EXCEPT !.content = doc[0].content + 1]]
    BY <1>0, <1>1, ZeroIsDoc DEF Update
  <2>2. \A e \in Docs : doc'[e].status = doc[e].status /\ doc'[e].approval_phase = doc[e].approval_phase
    BY <2>1, <1>0, <1>00, ZeroIsDoc DEF Doc
  <2> QED
    BY <2>1, <2>2 DEF OInv, Phased, OffsetsFollowCompletion, Onward
<1>2. CASE Revise(r)
  <2>1. /\ UNCHANGED <<approval, offsets>>
        /\ doc' = [doc EXCEPT ![d] = [doc[d] EXCEPT !.content = doc[d].content + 1]]
    BY <1>0, <1>2 DEF Revise
  <2>2. \A e \in Docs : doc'[e].status = doc[e].status /\ doc'[e].approval_phase = doc[e].approval_phase
    BY <2>1, <1>0, <1>00 DEF Doc
  <2> QED
    BY <2>1, <2>2 DEF OInv, Phased, OffsetsFollowCompletion, Onward
<1>3. CASE Submit(r)
  <2> DEFINE row == Entered(d, "PENDING_REVIEW")
             new == [status |-> "PENDING", round |-> approval[d].round + 1, content |-> doc[d].content]
  <2>1. /\ offsets' = offsets
        /\ doc' = [doc EXCEPT ![d] = row]
        /\ approval' = [approval EXCEPT ![d] = new]
        /\ doc[d].approval_phase \in {"DRAFT", "REJECTED"}
    BY <1>3 DEF Submit
  <2>2. row.status = "PENDING_REVIEW"
    BY DEF Entered
  <2> HIDE DEF d, row, new
  <2>3. doc'[d] = row /\ \A e \in Docs \ {d} : doc'[e] = doc[e] /\ approval'[e] = approval[e]
    BY <2>1, <1>0
  <2>4. doc[d].status \notin {"NONE", "APPROVED", "DONE", "GONE"}
    BY <1>3, <2>1, <1>0 DEF OInv, Phased, Submit, Exists, d
  <2> QED
    BY <2>1, <2>2, <2>3, <2>4, <1>0, OneDocWritten DEF Passed
<1>4. CASE Decide(r)
  <2> DEFINE phase == Decided(request[r].act)
             row == Entered(d, phase)
             outcome == IF phase = "DRAFT" THEN "CANCELLED" ELSE phase
             decided == [approval[d] EXCEPT !.status = outcome]
  <2>1. /\ offsets' = offsets
        /\ doc' = [doc EXCEPT ![d] = row]
        /\ approval' = [approval EXCEPT ![d] = decided]
        /\ approval[d].status = "PENDING"
        /\ Exists(d)
    BY <1>0, <1>4 DEF Decide, StillPending
  <2>2. phase \in {"APPROVED", "REJECTED", "DRAFT"}
    BY <1>4 DEF Decide, Decided
  <2>3. row.status = phase /\ row.approval_phase = phase
    BY DEF Entered
  <2>4. decided.status = outcome /\ outcome # "PENDING"
    BY <2>2, <1>0, <1>00 DEF Approval
  <2> HIDE DEF d, phase, row, outcome, decided
  <2>5. /\ doc'[d] = row /\ approval'[d] = decided
        /\ \A e \in Docs \ {d} : doc'[e] = doc[e] /\ approval'[e] = approval[e]
    BY <2>1, <1>0
  <2>6. doc[d].status = "PENDING_REVIEW"
    BY <2>1, <1>0 DEF OInv, Phased, Exists
  <2> QED
    BY <2>1, <2>2, <2>3, <2>4, <2>5, <2>6, <1>0, OneDocWritten DEF Passed
<1>5. CASE Issue(r)
  <2>1. /\ UNCHANGED <<approval, offsets>> /\ doc[0].status = "APPROVED"
        /\ doc' = [doc EXCEPT ![0] = [status |-> "DONE", approval_phase |-> doc[0].approval_phase,
                                      content |-> doc[0].content, number |-> r]]
    BY <1>5 DEF Issue, Issuable
  <2>2. /\ doc'[0].status = "DONE" /\ doc'[0].approval_phase = doc[0].approval_phase
        /\ \A e \in Docs \ {0} : doc'[e] = doc[e] /\ approval'[e] = approval[e]
    BY <2>1, <1>0, ZeroIsDoc
  <2>3. doc[0].approval_phase = "APPROVED" /\ approval[0].status # "PENDING"
    BY <2>1, ZeroIsDoc DEF OInv, Phased, Exists
  <2> QED
    BY <2>1, <2>2, <2>3, ZeroIsDoc, OneDocWritten DEF Passed
<1>6. CASE CreateReissue(r)
  <2>1. PICK e \in Docs \ {0} : doc[e].status = "NONE" /\ doc' = [doc EXCEPT ![e] = Draft]
    BY <1>6 DEF CreateReissue
  <2>2. UNCHANGED <<approval, offsets>>
    BY <1>6 DEF CreateReissue
  <2>3. /\ doc'[e] = Draft /\ doc[e].status \notin Passed
        /\ \A f \in Docs \ {e} : doc'[f] = doc[f] /\ approval'[f] = approval[f]
    BY <2>1, <2>2, <1>0 DEF Passed
  <2>4. approval[e].status # "PENDING"
    BY <2>1 DEF OInv, Phased
  <2> QED
    BY <2>1, <2>2, <2>3, <2>4, OneDocWritten DEF Draft, Passed
<1>7. CASE Refuse(r)
  BY <1>7 DEF Refuse, OInv, Phased, OffsetsFollowCompletion, Onward
<1> QED
  BY <1>1, <1>2, <1>3, <1>4, <1>5, <1>6, <1>7

LEMMA OffsetsStep == OInv /\ [Next]_vars => OInv'
<1> SUFFICES ASSUME OInv, [Next]_vars PROVE OInv'
  OBVIOUS
<1>1. IInv'
  BY Step DEF OInv
<1>2. CASE UNCHANGED vars
  BY <1>1, <1>2 DEF vars, OInv, Phased, Ready, OffsetsFollowCompletion
<1>3. ASSUME NEW r \in Requests, NEW act \in Acts, NEW d \in Docs, Begin(r, act, d)
      PROVE  OInv'
  BY <1>1, <1>3, BeginReady DEF OInv
<1>4. ASSUME NEW r \in Requests, Finish(r)
      PROVE  OInv'
  <2>1. End(r)
    BY <1>4 DEF Finish, Update, Revise, Submit, Decide, Issue, Delete, CreateReissue, Complete,
                Offset, Refuse
  <2>2. Phased' /\ OffsetsFollowCompletion' /\ Onward
    BY <1>4, RowFollows, CompleteFollows, OffsetFollows, DeleteFollows DEF Finish
  <2> QED
    BY <1>1, <2>1, <2>2, EndReady DEF OInv
<1>5. ASSUME Next PROVE OInv'
  <2>1. PICK r \in Requests : (\E act \in Acts, d \in Docs : Begin(r, act, d)) \/ Finish(r)
    BY <1>5 DEF Next
  <2> QED
    BY <2>1, <1>3, <1>4
<1> QED
  BY <1>2, <1>5

\* A reissue has a red offset exactly while it is completed, however many requests overlap and however late they are
\* carried out: no decision reopens a completed reissue, and no completion comes to a reissue that is open again.
THEOREM OffsetsAreOfTheCompleted == Spec => []OffsetsFollowCompletion
<1>1. OInv => OffsetsFollowCompletion
  BY DEF OInv
<1> QED
  BY InitOInv, OffsetsStep, <1>1, PTL DEF Spec

-----------------------------------------------------------------------------
(***************************************************************************)
(* Sums.  What a payment plan holds and what a contract has been paid are  *)
(* sums over finite sets, which the model takes with MapThenSumSet, a fold *)
(* that no prover can look into.  The facts about it that the ledger needs *)
(* are proved here from its definition, by induction over the subsets of a *)
(* finite set, stated for a set of subsets instead of a predicate.         *)
(***************************************************************************)

\* A set of numbers that is not empty has a least one.
LEMMA LeastElement ==
    ASSUME NEW T, T \subseteq Nat, T # {}
    PROVE  \E n \in T : \A m \in T : n <= m
<1> DEFINE R == OpToRel(<, Nat)
<1>1. IsWellFoundedOn(R, Nat)
  BY NatLessThanWellFounded
<1>2. \A m, n \in Nat : m < n => <<m, n>> \in R
  BY DEF OpToRel
<1> HIDE DEF R
<1>3. PICK n \in T : \A m \in T : ~ (<<m, n>> \in R)
  BY <1>1, WFMin
<1>4. n \in Nat /\ \A m \in T : m \in Nat
  OBVIOUS
<1>5. \A m \in T : ~(m < n)
  BY <1>2, <1>3, <1>4
<1>6. \A m \in T : n <= m
  BY <1>4, <1>5
<1> QED BY <1>6

\* Induction over the subsets of a finite set, for a set of them.
LEMMA SubsetInduction ==
    ASSUME NEW T, IsFiniteSet(T), NEW Good,
           \A S \in SUBSET T : (\A x \in S : S \ {x} \in Good) => S \in Good
    PROVE  \A S \in SUBSET T : S \in Good
<1> SUFFICES ASSUME NEW B \in SUBSET T, B \notin Good PROVE FALSE
  OBVIOUS
<1> DEFINE Bad == {S \in SUBSET T : S \notin Good}
           Sizes == {Cardinality(S) : S \in Bad}
<1>1. \A S \in SUBSET T : IsFiniteSet(S) /\ Cardinality(S) \in Nat
  BY FS_Subset, FS_CardinalityType
<1>2. Sizes \subseteq Nat /\ Sizes # {}
  BY <1>1
<1>3. PICK n \in Sizes : \A m \in Sizes : n <= m
  <2> HIDE DEF Sizes
  <2> QED BY <1>2, LeastElement
<1>4. PICK S \in Bad : n = Cardinality(S)
  BY <1>3
<1>5. ASSUME NEW x \in S PROVE S \ {x} \in Good
  <2>1. Cardinality(S \ {x}) = Cardinality(S) - 1
    BY <1>1, <1>4, FS_RemoveElement
  <2>2. ~ (Cardinality(S) <= Cardinality(S \ {x}))
    BY <1>1, <1>4, <2>1
  <2>3. Cardinality(S \ {x}) \notin Sizes
    BY <1>3, <1>4, <2>2
  <2>4. S \ {x} \in SUBSET T
    BY <1>4
  <2> QED BY <2>3, <2>4
<1> QED BY <1>4, <1>5

\* The element that is taken out of a set.
Pick(s) == CHOOSE x \in s : TRUE

\* it adds up g over the subsets of T, element by element.
Adds(it, g, T) ==
    it = [s \in SUBSET T |-> IF s = {} THEN 0 ELSE g[Pick(s)] + it[s \ {Pick(s)}]]

\* The sum of g over T.
SumOf(g, T) == (CHOOSE it : Adds(it, g, T))[T]

\* The element that Pick takes of a set is one of its elements.
LEMMA PickIsIn ==
    ASSUME NEW s, s # {}
    PROVE  Pick(s) \in s
BY DEF Pick

\* What an adding function yields for a subset, one element taken out.
LEMMA AddsValue ==
    ASSUME NEW it, NEW g, NEW T, Adds(it, g, T), NEW s \in SUBSET T
    PROVE  it[s] = IF s = {} THEN 0 ELSE g[Pick(s)] + it[s \ {Pick(s)}]
BY DEF Adds

\* A function that adds up the subsets of T exists: it is built for the subsets
\* of up to n elements, and least n without one would have a predecessor with one.
LEMMA AddsExists ==
    ASSUME NEW T, IsFiniteSet(T), NEW g
    PROVE  \E it : Adds(it, g, T)
<1> DEFINE Further(it) == [s \in SUBSET T |-> IF s = {} THEN 0 ELSE g[Pick(s)] + it[s \ {Pick(s)}]]
           \* it is right for the subsets of up to n elements
           Right(it, n) == \A s \in SUBSET T : Cardinality(s) <= n => it[s] = Further(it)[s]
           Missed == {n \in Nat : ~ \E it : Right(it, n)}
<1>0. \A s \in SUBSET T : IsFiniteSet(s) /\ Cardinality(s) \in Nat
  BY FS_Subset, FS_CardinalityType
<1>1. Right(Further([s \in {} |-> 0]), 0)
  <2>1. \A s \in SUBSET T : Cardinality(s) <= 0 => s = {}
    BY <1>0, FS_EmptySet
  <2> QED BY <2>1
<1>2. ASSUME NEW n \in Nat, NEW it, Right(it, n)
      PROVE  Right(Further(it), n + 1)
  <2> SUFFICES ASSUME NEW s \in SUBSET T, Cardinality(s) <= n + 1, s # {}
               PROVE  Further(it)[s] = Further(Further(it))[s]
    OBVIOUS
  <2>1. Pick(s) \in s /\ s \ {Pick(s)} \in SUBSET T
    BY PickIsIn
  <2>2. Cardinality(s \ {Pick(s)}) <= n
    <3>1. Cardinality(s \ {Pick(s)}) = Cardinality(s) - 1
      BY <1>0, <2>1, FS_RemoveElement
    <3> QED BY <1>0, <3>1
  <2>3. it[s \ {Pick(s)}] = Further(it)[s \ {Pick(s)}]
    BY <1>2, <2>1, <2>2
  <2> QED BY <2>1, <2>3
<1> HIDE DEF Further, Right
<1>3. Missed = {}
  <2> SUFFICES ASSUME Missed # {} PROVE FALSE
    OBVIOUS
  <2>1. PICK n \in Missed : \A m \in Missed : n <= m
    <3>1. Missed \subseteq Nat
      OBVIOUS
    <3> HIDE DEF Missed
    <3> QED BY <3>1, LeastElement
  <2>2. n # 0
    BY <1>1
  <2>3. n - 1 \in Nat /\ ~(n <= n - 1)
    BY <2>2
  <2>4. n - 1 \notin Missed
    <3> HIDE DEF Missed
    <3> QED BY <2>1, <2>3
  <2>5. PICK it : Right(it, n - 1)
    BY <2>3, <2>4
  <2>6. Right(Further(it), (n - 1) + 1)
    BY <1>2, <2>3, <2>5
  <2>7. (n - 1) + 1 = n
    OBVIOUS
  <2> QED BY <2>6, <2>7
<1>4. PICK it : Right(it, Cardinality(T))
  BY <1>0, <1>3
<1>5. ASSUME NEW s \in SUBSET T PROVE it[s] = Further(it)[s]
  <2>1. Cardinality(s) <= Cardinality(T)
    BY FS_Subset
  <2> QED BY <1>4, <2>1 DEF Right
<1>6. Adds(Further(it), g, T)
  <2>1. Further(it) = Further(Further(it))
    BY <1>5, PickIsIn DEF Further
  <2> QED BY <2>1 DEF Adds, Further
<1> QED BY <1>6

\* There is but one way to add up.
LEMMA AddsUnique ==
    ASSUME NEW T, IsFiniteSet(T), NEW g, NEW a, NEW b, Adds(a, g, T), Adds(b, g, T)
    PROVE  a = b
<1> DEFINE Good == {s \in SUBSET T : a[s] = b[s]}
<1>1. ASSUME NEW s \in SUBSET T, \A x \in s : s \ {x} \in Good
      PROVE  s \in Good
  <2>1. CASE s = {}
    BY <2>1, AddsValue
  <2>2. CASE s # {}
    <3>1. a[s \ {Pick(s)}] = b[s \ {Pick(s)}]
      BY <1>1, <2>2, PickIsIn
    <3> QED BY <2>2, <3>1, AddsValue
  <2> QED BY <2>1, <2>2
<1>2. \A s \in SUBSET T : s \in Good
  <2> HIDE DEF Good
  <2> QED BY <1>1, SubsetInduction
<1>3. DOMAIN a = SUBSET T /\ a = [s \in SUBSET T |-> a[s]]
      /\ DOMAIN b = SUBSET T /\ b = [s \in SUBSET T |-> b[s]]
  BY DEF Adds
<1> QED BY <1>2, <1>3

\* Whichever function adds up T, the sum is its value for T.
LEMMA SumIsAdded ==
    ASSUME NEW T, IsFiniteSet(T), NEW g, NEW it, Adds(it, g, T)
    PROVE  SumOf(g, T) = it[T]
<1>1. Adds(CHOOSE a : Adds(a, g, T), g, T)
  BY AddsExists
<1> QED BY <1>1, AddsUnique DEF SumOf

\* What adds up T adds up its parts.
LEMMA SumOfPart ==
    ASSUME NEW T, IsFiniteSet(T), NEW g, NEW it, Adds(it, g, T), NEW S \in SUBSET T
    PROVE  SumOf(g, S) = it[S]
<1> DEFINE part == [s \in SUBSET S |-> it[s]]
<1>1. IsFiniteSet(S)
  BY FS_Subset
<1>2. \A s \in SUBSET S : part[s] = IF s = {} THEN 0 ELSE g[Pick(s)] + part[s \ {Pick(s)}]
  BY AddsValue
<1>3. Adds(part, g, S)
  BY <1>2 DEF Adds
<1>4. part[S] = it[S]
  OBVIOUS
<1> HIDE DEF part
<1> QED BY <1>1, <1>3, <1>4, SumIsAdded

\* Nothing adds up to zero.
LEMMA SumEmpty ==
    ASSUME NEW g
    PROVE  SumOf(g, {}) = 0
<1>1. PICK it : Adds(it, g, {})
  BY AddsExists, FS_EmptySet
<1> QED BY <1>1, SumIsAdded, AddsValue, FS_EmptySet

\* A sum is what Pick takes out and the sum of the rest.
LEMMA SumPicked ==
    ASSUME NEW T, IsFiniteSet(T), T # {}, NEW g
    PROVE  SumOf(g, T) = g[Pick(T)] + SumOf(g, T \ {Pick(T)})
<1>1. PICK it : Adds(it, g, T)
  BY AddsExists
<1> QED BY <1>1, SumOfPart, AddsValue

\* Natural numbers add up to one.
LEMMA SumType ==
    ASSUME NEW T, IsFiniteSet(T), NEW g, \A x \in T : g[x] \in Nat
    PROVE  SumOf(g, T) \in Nat
<1> DEFINE Good == {S \in SUBSET T : SumOf(g, S) \in Nat}
<1>1. ASSUME NEW S \in SUBSET T, \A x \in S : S \ {x} \in Good
      PROVE  S \in Good
  <2>1. CASE S = {}
    BY <2>1, SumEmpty
  <2>2. CASE S # {}
    <3>1. Pick(S) \in S
      BY <2>2, PickIsIn
    <3>2. SumOf(g, S) = g[Pick(S)] + SumOf(g, S \ {Pick(S)})
      BY <2>2, SumPicked, FS_Subset
    <3>3. g[Pick(S)] \in Nat /\ SumOf(g, S \ {Pick(S)}) \in Nat
      BY <1>1, <3>1
    <3> QED BY <3>2, <3>3
  <2> QED BY <2>1, <2>2
<1>2. \A S \in SUBSET T : (\A x \in S : S \ {x} \in Good) => S \in Good
  BY <1>1
<1> HIDE DEF Good
<1>3. \A S \in SUBSET T : S \in Good
  BY <1>2, SubsetInduction
<1> QED BY <1>3 DEF Good

\* The order does not matter: any element may be taken out.
LEMMA SumRemove ==
    ASSUME NEW T, IsFiniteSet(T), NEW g, \A x \in T : g[x] \in Nat, NEW x \in T
    PROVE  SumOf(g, T) = g[x] + SumOf(g, T \ {x})
<1> DEFINE Good == {S \in SUBSET T : \A y \in S : SumOf(g, S) = g[y] + SumOf(g, S \ {y})}
<1>0. \A S \in SUBSET T : IsFiniteSet(S) /\ SumOf(g, S) \in Nat
  BY SumType, FS_Subset
<1>1. ASSUME NEW S \in SUBSET T, \A y \in S : S \ {y} \in Good, NEW z \in S
      PROVE  SumOf(g, S) = g[z] + SumOf(g, S \ {z})
  <2> DEFINE y == Pick(S)
  <2>1. y \in S /\ SumOf(g, S) = g[y] + SumOf(g, S \ {y})
    BY <1>0, SumPicked, PickIsIn
  <2> HIDE DEF y
  <2>2. CASE z = y
    BY <2>1, <2>2
  <2>3. CASE z # y
    <3> DEFINE both == S \ {y, z}
    <3>1. SumOf(g, S \ {y}) = g[z] + SumOf(g, both)
      <4>1. S \ {y} \in Good /\ z \in S \ {y} /\ (S \ {y}) \ {z} = both
        BY <1>1, <2>1, <2>3
      <4> QED BY <4>1
    <3>2. SumOf(g, S \ {z}) = g[y] + SumOf(g, both)
      <4>1. S \ {z} \in Good /\ y \in S \ {z} /\ (S \ {z}) \ {y} = both
        BY <1>1, <2>1, <2>3
      <4> QED BY <4>1
    <3>3. SumOf(g, both) \in Nat /\ g[y] \in Nat /\ g[z] \in Nat
      BY <1>0, <2>1
    <3> HIDE DEF both
    <3> QED BY <2>1, <3>1, <3>2, <3>3
  <2> QED BY <2>2, <2>3
<1>2. \A S \in SUBSET T : (\A y \in S : S \ {y} \in Good) => S \in Good
  BY <1>1
<1> HIDE DEF Good
<1>3. \A S \in SUBSET T : S \in Good
  BY <1>2, SubsetInduction
<1> QED BY <1>3 DEF Good

\* More and larger amounts add up to more.
LEMMA SumMonotone ==
    ASSUME NEW T, IsFiniteSet(T), NEW g, NEW h, NEW U, U \subseteq T,
           \A x \in T : h[x] \in Nat, \A x \in U : g[x] \in Nat /\ g[x] <= h[x]
    PROVE  SumOf(g, U) <= SumOf(h, T)
<1> DEFINE Good == {S \in SUBSET T : SumOf(g, S \cap U) <= SumOf(h, S)}
<1>0. \A S \in SUBSET T : /\ IsFiniteSet(S) /\ IsFiniteSet(S \cap U) /\ SumOf(h, S) \in Nat
                          /\ SumOf(g, S \cap U) \in Nat
  <2> TAKE S \in SUBSET T
  <2>1. IsFiniteSet(S) /\ IsFiniteSet(S \cap U)
    BY FS_Subset
  <2>2. SumOf(g, S \cap U) \in Nat
    BY <2>1, SumType
  <2> QED BY <2>1, <2>2, SumType
<1>1. ASSUME NEW S \in SUBSET T, \A x \in S : S \ {x} \in Good
      PROVE  SumOf(g, S \cap U) <= SumOf(h, S)
  <2>1. CASE S = {}
    BY <2>1, SumEmpty
  <2>2. CASE S # {}
    <3>1. PICK x \in S : TRUE
      BY <2>2
    <3>2. SumOf(h, S) = h[x] + SumOf(h, S \ {x})
      BY <1>0, <3>1, SumRemove
    <3>3. SumOf(g, (S \ {x}) \cap U) <= SumOf(h, S \ {x})
      BY <1>1, <3>1
    <3>4. /\ h[x] \in Nat /\ SumOf(h, S \ {x}) \in Nat
          /\ SumOf(g, (S \ {x}) \cap U) \in Nat
      BY <1>0, <3>1
    <3>5. CASE x \notin U
      <4>1. S \cap U = (S \ {x}) \cap U
        BY <3>5
      <4>2. SumOf(g, S \cap U) <= SumOf(h, S \ {x})
        BY <3>3, <4>1
      <4>3. SumOf(g, S \cap U) \in Nat
        BY <3>4, <4>1
      <4> QED BY <3>2, <3>4, <4>2, <4>3
    <3>6. CASE x \in U
      <4>1. x \in S \cap U /\ (S \cap U) \ {x} = (S \ {x}) \cap U
        BY <3>1, <3>6
      <4>2. SumOf(g, S \cap U) = g[x] + SumOf(g, (S \cap U) \ {x})
        BY <1>0, <4>1, SumRemove
      <4>3. g[x] \in Nat /\ g[x] <= h[x]
        BY <3>6
      <4> QED BY <3>2, <3>3, <3>4, <4>1, <4>2, <4>3
    <3> QED BY <3>5, <3>6
  <2> QED BY <2>1, <2>2
<1>2. \A S \in SUBSET T : (\A x \in S : S \ {x} \in Good) => S \in Good
  BY <1>1
<1> HIDE DEF Good
<1>3. T \in Good
  BY <1>2, SubsetInduction
<1>4. T \cap U = U
  OBVIOUS
<1> QED BY <1>3, <1>4 DEF Good

-----------------------------------------------------------------------------
(***************************************************************************)
(* The ledger of a contract, PaymentLedger, for any number of requests,    *)
(* plans and idempotency keys.                                             *)
(*                                                                         *)
(* LedgerInv holds whatever overlaps.  That payments stay within their     *)
(* plan needs one thing more: nothing else is on its way while a plan's    *)
(* amount is changed (Bare).  That nothing is claimed before it is         *)
(* approved needs that what a request has seen is Below what is there now: *)
(* then a sum derived from an old snapshot is at most the present one, and *)
(* the acts that take something away have to run alone, as they derive     *)
(* from a snapshot that must not be ahead.                                 *)
(***************************************************************************)

CONSTANTS Payers, LedgerActs, LedgerAlone

L == INSTANCE PaymentLedger WITH Requests <- Payers, Acts <- LedgerActs, Alone <- LedgerAlone

-----------------------------------------------------------------------------
(* The sums of PaymentLedger. *)

\* The amounts of payments, and the approved payments of a plan.
Amounts(records) == [k \in Keys |-> records[k].amount]

ApprovedOf(records, p) == {k \in L!RecordsOf(records, p) : records[k].phase = "APPROVED"}

\* What is registered for a plan is a sum over its payments that are not deleted.
LEMMA RegisteredIsSum ==
    ASSUME IsFiniteSet(Keys), NEW records, NEW p
    PROVE  L!Registered(records, p) = SumOf(Amounts(records), L!RecordsOf(records, p))
<1> DEFINE S == L!RecordsOf(records, p)
           it == CHOOSE iter : iter = [s \in SUBSET S |->
                    IF s = {} THEN 0 ELSE records[Pick(s)].amount + iter[s \ {Pick(s)}]]
<1>1. L!Registered(records, p) = it[S]
  BY DEF L!Registered, L!MapThenSumSet, L!MapThenFoldSet, Pick
<1>2. S \in SUBSET Keys /\ IsFiniteSet(S)
  BY FS_Subset DEF L!RecordsOf
<1> HIDE DEF S
<1>3. \A s \in SUBSET S : s # {} => Amounts(records)[Pick(s)] = records[Pick(s)].amount
  BY <1>2, PickIsIn DEF Amounts
<1>4. \A iter : Adds(iter, Amounts(records), S) <=>
         iter = [s \in SUBSET S |-> IF s = {} THEN 0 ELSE records[Pick(s)].amount + iter[s \ {Pick(s)}]]
  BY <1>3 DEF Adds
<1>5. \E iter : Adds(iter, Amounts(records), S)
  BY <1>2, AddsExists
<1>6. Adds(it, Amounts(records), S)
  BY <1>4, <1>5
<1> HIDE DEF it
<1> QED BY <1>1, <1>2, <1>6, SumIsAdded DEF S

\* What is approved for a plan (sum_approved_payment_amount) is a sum over its
\* approved payments.
LEMMA ApprovedIsSum ==
    ASSUME IsFiniteSet(Keys), NEW records, NEW p
    PROVE  L!Approved(records, p) = SumOf(Amounts(records), ApprovedOf(records, p))
<1> DEFINE S == ApprovedOf(records, p)
           it == CHOOSE iter : iter = [s \in SUBSET S |->
                    IF s = {} THEN 0 ELSE records[Pick(s)].amount + iter[s \ {Pick(s)}]]
<1>1. L!Approved(records, p) = it[S]
  BY DEF L!Approved, L!MapThenSumSet, L!MapThenFoldSet, Pick, ApprovedOf
<1>2. S \in SUBSET Keys /\ IsFiniteSet(S)
  BY FS_Subset DEF L!RecordsOf, ApprovedOf
<1> HIDE DEF S
<1>3. \A s \in SUBSET S : s # {} => Amounts(records)[Pick(s)] = records[Pick(s)].amount
  BY <1>2, PickIsIn DEF Amounts
<1>4. \A iter : Adds(iter, Amounts(records), S) <=>
         iter = [s \in SUBSET S |-> IF s = {} THEN 0 ELSE records[Pick(s)].amount + iter[s \ {Pick(s)}]]
  BY <1>3 DEF Adds
<1>5. \E iter : Adds(iter, Amounts(records), S)
  BY <1>2, AddsExists
<1>6. Adds(it, Amounts(records), S)
  BY <1>4, <1>5
<1> HIDE DEF it
<1> QED BY <1>1, <1>2, <1>6, SumIsAdded DEF S

ApprovedPer(records) == [p \in Plans |-> L!Approved(records, p)]

\* What a contract has been paid is a sum over its plans of what is approved.
LEMMA PaidIsSum ==
    ASSUME IsFiniteSet(Plans), NEW plans, NEW records
    PROVE  L!Paid(plans, records) = SumOf(ApprovedPer(records), L!PlansIn(plans))
<1> DEFINE S == L!PlansIn(plans)
           it == CHOOSE iter : iter = [s \in SUBSET S |->
                    IF s = {} THEN 0 ELSE L!Approved(records, Pick(s)) + iter[s \ {Pick(s)}]]
<1>1. L!Paid(plans, records) = it[S]
  BY DEF L!Paid, L!MapThenSumSet, L!MapThenFoldSet, Pick
<1>2. S \in SUBSET Plans /\ IsFiniteSet(S)
  BY FS_Subset DEF L!PlansIn
<1> HIDE DEF S
<1>3. \A s \in SUBSET S : s # {} => ApprovedPer(records)[Pick(s)] = L!Approved(records, Pick(s))
  BY <1>2, PickIsIn DEF ApprovedPer
<1>4. \A iter : Adds(iter, ApprovedPer(records), S) <=>
         iter = [s \in SUBSET S |-> IF s = {} THEN 0 ELSE L!Approved(records, Pick(s)) + iter[s \ {Pick(s)}]]
  BY <1>3 DEF Adds
<1>5. \E iter : Adds(iter, ApprovedPer(records), S)
  BY <1>2, AddsExists
<1>6. Adds(it, ApprovedPer(records), S)
  BY <1>4, <1>5
<1> HIDE DEF it
<1> QED BY <1>1, <1>2, <1>6, SumIsAdded DEF S

\* The sums range over finite sets of natural numbers.
LEMMA AmountsTyped ==
    ASSUME NEW records \in [Keys -> L!Record], NEW p
    PROVE  /\ IsFiniteSet(Keys) /\ IsFiniteSet(Plans)
           /\ \A k \in Keys : Amounts(records)[k] = records[k].amount /\ records[k].amount \in Nat
           /\ L!RecordsOf(records, p) \subseteq Keys /\ IsFiniteSet(L!RecordsOf(records, p))
           /\ ApprovedOf(records, p) \subseteq L!RecordsOf(records, p)
           /\ IsFiniteSet(ApprovedOf(records, p))
<1>1. IsFiniteSet(Keys) /\ IsFiniteSet(Plans) /\ Total \in Nat
  BY BooksAssumption DEF BooksAssumption
<1>2. \A k \in Keys : records[k].amount \in Nat
  BY <1>1 DEF L!Record
<1>3. L!RecordsOf(records, p) \subseteq Keys /\ ApprovedOf(records, p) \subseteq L!RecordsOf(records, p)
  BY DEF L!RecordsOf, ApprovedOf
<1>4. IsFiniteSet(L!RecordsOf(records, p)) /\ IsFiniteSet(ApprovedOf(records, p))
  BY <1>1, <1>3, FS_Subset
<1> QED BY <1>1, <1>2, <1>3, <1>4 DEF Amounts

\* Sums for a plan are natural numbers, zero for a plan without payments.
LEMMA RegisteredTyped ==
    ASSUME NEW records \in [Keys -> L!Record], NEW p
    PROVE  /\ L!Registered(records, p) \in Nat /\ L!Approved(records, p) \in Nat
           /\ L!RecordsOf(records, p) = {} => L!Registered(records, p) = 0
<1>1. /\ L!Registered(records, p) = SumOf(Amounts(records), L!RecordsOf(records, p))
      /\ L!Approved(records, p) = SumOf(Amounts(records), ApprovedOf(records, p))
  BY AmountsTyped, RegisteredIsSum, ApprovedIsSum
<1>2. /\ SumOf(Amounts(records), L!RecordsOf(records, p)) \in Nat
      /\ SumOf(Amounts(records), ApprovedOf(records, p)) \in Nat
  BY AmountsTyped, SumType
<1>3. SumOf(Amounts(records), {}) = 0
  BY SumEmpty
<1> QED BY <1>1, <1>2, <1>3

\* The paid amount of a contract is a natural number.
LEMMA PaidTyped ==
    ASSUME NEW records \in [Keys -> L!Record], NEW plans
    PROVE  L!Paid(plans, records) \in Nat
<1>1. L!PlansIn(plans) \subseteq Plans /\ IsFiniteSet(Plans)
  BY AmountsTyped DEF L!PlansIn
<1>2. \A p \in L!PlansIn(plans) : ApprovedPer(records)[p] \in Nat
  BY <1>1, RegisteredTyped DEF ApprovedPer
<1>3. IsFiniteSet(L!PlansIn(plans))
  BY <1>1, FS_Subset
<1> QED BY <1>1, <1>2, <1>3, SumType, PaidIsSum

\* Fewer payments of smaller amounts add up to less.
LEMMA RegisteredLess ==
    ASSUME NEW a \in [Keys -> L!Record], NEW b \in [Keys -> L!Record], NEW p,
           \A k \in L!RecordsOf(b, p) : k \in L!RecordsOf(a, p) /\ b[k].amount <= a[k].amount
    PROVE  L!Registered(b, p) <= L!Registered(a, p)
<1>1. L!RecordsOf(b, p) \subseteq L!RecordsOf(a, p)
  OBVIOUS
<1>2. \A k \in L!RecordsOf(a, p) : Amounts(a)[k] \in Nat
  BY AmountsTyped
<1>3. \A k \in L!RecordsOf(b, p) : Amounts(b)[k] \in Nat /\ Amounts(b)[k] <= Amounts(a)[k]
  BY AmountsTyped
<1>4. SumOf(Amounts(b), L!RecordsOf(b, p)) <= SumOf(Amounts(a), L!RecordsOf(a, p))
  BY <1>1, <1>2, <1>3, AmountsTyped, SumMonotone
<1> QED BY <1>4, RegisteredIsSum, AmountsTyped

\* With fewer approved payments, or smaller ones, less is approved.
LEMMA ApprovedLess ==
    ASSUME NEW a \in [Keys -> L!Record], NEW b \in [Keys -> L!Record], NEW p,
           \A k \in ApprovedOf(b, p) : k \in ApprovedOf(a, p) /\ b[k].amount <= a[k].amount
    PROVE  L!Approved(b, p) <= L!Approved(a, p)
<1>1. ApprovedOf(b, p) \subseteq ApprovedOf(a, p)
  OBVIOUS
<1>2. \A k \in ApprovedOf(a, p) : Amounts(a)[k] \in Nat
  BY AmountsTyped
<1>3. \A k \in ApprovedOf(b, p) : Amounts(b)[k] \in Nat /\ Amounts(b)[k] <= Amounts(a)[k]
  BY AmountsTyped
<1>4. SumOf(Amounts(b), ApprovedOf(b, p)) <= SumOf(Amounts(a), ApprovedOf(a, p))
  BY <1>1, <1>2, <1>3, AmountsTyped, SumMonotone
<1> QED BY <1>4, ApprovedIsSum, AmountsTyped

\* With fewer plans, or less approved for them, less is paid.
LEMMA PaidLess ==
    ASSUME NEW a \in [Keys -> L!Record], NEW b \in [Keys -> L!Record],
           NEW x, NEW y,
           \A p \in L!PlansIn(y) : p \in L!PlansIn(x) /\ L!Approved(b, p) <= L!Approved(a, p)
    PROVE  L!Paid(y, b) <= L!Paid(x, a)
<1>1. L!PlansIn(y) \subseteq L!PlansIn(x) /\ L!PlansIn(x) \subseteq Plans /\ IsFiniteSet(Plans)
  BY AmountsTyped DEF L!PlansIn
<1>2. IsFiniteSet(L!PlansIn(x))
  BY <1>1, FS_Subset
<1>3. \A p \in L!PlansIn(x) : ApprovedPer(a)[p] \in Nat
  BY <1>1, RegisteredTyped DEF ApprovedPer
<1>4. \A p \in L!PlansIn(y) : ApprovedPer(b)[p] \in Nat /\ ApprovedPer(b)[p] <= ApprovedPer(a)[p]
  BY <1>1, RegisteredTyped DEF ApprovedPer
<1>5. SumOf(ApprovedPer(b), L!PlansIn(y)) <= SumOf(ApprovedPer(a), L!PlansIn(x))
  BY <1>1, <1>2, <1>3, <1>4, SumMonotone
<1> QED BY <1>1, <1>5, PaidIsSum

\* What one payment adds to the others: the sum that Room compares with.
LEMMA RegisteredWithOne ==
    ASSUME NEW a \in [Keys -> L!Record], NEW b \in [Keys -> L!Record],
           NEW p, NEW k \in L!RecordsOf(b, p),
           \A j \in L!RecordsOf(b, p) \ {k} : j \in L!RecordsOf(a, p) /\ b[j].amount = a[j].amount
    PROVE  L!Registered(b, p) <= L!Registered([a EXCEPT ![k].amount = 0], p) + b[k].amount
<1> DEFINE others == L!RecordsOf(b, p) \ {k}
           zero == [a EXCEPT ![k].amount = 0]
<1>0. k \in Keys
  BY DEF L!RecordsOf
<1>1. zero \in [Keys -> L!Record]
  <2>1. [a[k] EXCEPT !.amount = 0] \in L!Record
    <3>1. 0 \in 0 .. Total /\ a[k] \in L!Record
      BY <1>0, BooksAssumption DEF BooksAssumption
    <3> QED BY <3>1, Zenon DEF L!Record
  <2> QED BY <1>0, <2>1
<1>2. \A j \in others : j \in L!RecordsOf(zero, p) /\ zero[j].amount = b[j].amount
  BY DEF L!RecordsOf
<1>3. SumOf(Amounts(b), L!RecordsOf(b, p)) = b[k].amount + SumOf(Amounts(b), others)
  BY <1>0, AmountsTyped, SumRemove
<1>4. SumOf(Amounts(b), others) <= SumOf(Amounts(zero), L!RecordsOf(zero, p))
  <2>1. \A j \in L!RecordsOf(zero, p) : Amounts(zero)[j] \in Nat
    BY <1>1, AmountsTyped
  <2>2. \A j \in others : /\ Amounts(b)[j] \in Nat
                          /\ Amounts(b)[j] <= Amounts(zero)[j]
    <3>1. \A j \in others : Amounts(b)[j] = b[j].amount /\ b[j].amount \in Nat
      BY AmountsTyped
    <3>2. \A j \in others : Amounts(zero)[j] = zero[j].amount
      BY <1>1, AmountsTyped
    <3> HIDE DEF zero, others
    <3> QED BY <1>2, <3>1, <3>2
  <2>3. others \subseteq L!RecordsOf(zero, p)
    BY <1>2
  <2>4. IsFiniteSet(L!RecordsOf(zero, p))
    BY <1>1, AmountsTyped
  <2> HIDE DEF zero, others
  <2> QED BY <2>1, <2>2, <2>3, <2>4, SumMonotone
<1>5. SumOf(Amounts(b), others) \in Nat /\ b[k].amount \in Nat
  <2>1. IsFiniteSet(others) /\ \A j \in others : Amounts(b)[j] \in Nat
    BY AmountsTyped, FS_Subset
  <2> QED BY <1>0, <2>1, AmountsTyped, SumType
<1>6. L!Registered(b, p) = SumOf(Amounts(b), L!RecordsOf(b, p))
      /\ L!Registered(zero, p) = SumOf(Amounts(zero), L!RecordsOf(zero, p))
      /\ L!Registered(zero, p) \in Nat
  BY <1>1, AmountsTyped, RegisteredIsSum, RegisteredTyped
<1> HIDE DEF others, zero
<1>7. L!Registered(b, p) <= L!Registered(zero, p) + b[k].amount
  BY <1>3, <1>4, <1>5, <1>6
<1> QED BY <1>7 DEF zero

\* The sums that the ledger's requests compute are those of the books.
LEMMA LedgerSumsAreTheBooks ==
    /\ L!Phase = Phase /\ L!PlanStatus = PlanStatus
    /\ \A plans : L!PlansIn(plans) = PlansIn(plans)
    /\ \A records, p : L!Registered(records, p) = Registered(records, p)
    /\ \A records, p : L!Approved(records, p) = Approved(records, p)
    /\ \A plans, records : L!Paid(plans, records) = Paid(plans, records)
<1>1. L!Phase = Phase /\ L!PlanStatus = PlanStatus
  BY DEF L!Phase, Phase, L!PlanStatus, PlanStatus
<1>2. \A plans : L!PlansIn(plans) = PlansIn(plans)
  BY <1>1 DEF L!PlansIn, PlansIn
<1>3. \A records, p : L!RecordsOf(records, p) = RecordsOf(records, p)
  BY <1>1 DEF L!RecordsOf, RecordsOf
<1>4. ASSUME NEW records, NEW p PROVE L!Registered(records, p) = Registered(records, p)
  BY <1>3 DEF L!Registered, Registered, L!MapThenSumSet, MapThenSumSet, L!MapThenFoldSet, MapThenFoldSet
<1>5. ASSUME NEW records, NEW p PROVE L!Approved(records, p) = Approved(records, p)
  BY <1>3 DEF L!Approved, Approved, L!MapThenSumSet, MapThenSumSet, L!MapThenFoldSet, MapThenFoldSet
<1>6. ASSUME NEW plans, NEW records PROVE L!Paid(plans, records) = Paid(plans, records)
  BY <1>2, <1>5 DEF L!Paid, Paid, L!MapThenSumSet, MapThenSumSet, L!MapThenFoldSet, MapThenFoldSet
<1> QED BY <1>1, <1>2, <1>4, <1>5, <1>6

\* What is to hold of the ledger is what is to hold of its books.
LEMMA LedgerKeepsTheBooks ==
    /\ L!RecordsWithinPlan <=> RecordsWithinPlan
    /\ L!NeverOverstated <=> NeverOverstated
    /\ L!ReceiptTellsTheTruth <=> ReceiptTellsTheTruth
<1>1. L!RecordsWithinPlan <=> RecordsWithinPlan
  BY LedgerSumsAreTheBooks DEF L!RecordsWithinPlan, RecordsWithinPlan
<1>2. L!NeverOverstated <=> NeverOverstated
  BY LedgerSumsAreTheBooks DEF L!NeverOverstated, NeverOverstated
<1>3. L!ReceiptTellsTheTruth <=> ReceiptTellsTheTruth
  BY DEF L!ReceiptTellsTheTruth, ReceiptTellsTheTruth
<1> QED BY <1>1, <1>2, <1>3

-----------------------------------------------------------------------------
(* The invariant of the requests: what holds whatever overlaps. *)

\* A payment in the books belongs to a plan that is there.
PaymentsPlanned ==
    \A k \in Keys : record[k].phase \in L!Phase => plan[record[k].plan].status \in L!PlanStatus

\* The requests about a payment that was registered before.
Follows == {"correct", "remove", "submit", "approve", "reject", "cancel"}

\* A request about a payment is about one that was made, and about its plan.
Aimed ==
    \A r \in Payers : request[r].act \in Follows =>
        /\ record[request[r].key].phase # "NONE"
        /\ record[request[r].key].plan = request[r].plan

\* Such a request, and one that registers, has seen the plan.
PlanSeen ==
    \A r \in Payers : request[r].act \in Follows \cup {"register"} =>
        request[r].seen.plan[request[r].plan].status \in L!PlanStatus

\* What does not overlap is alone, and what it has seen is what there is.
Solitary ==
    \A r, q \in Payers : r # q /\ request[r].act \in LedgerAlone => request[q].act = "none"

\* What a request that begins now would see.
Rows == [contract |-> contract, plan |-> plan, record |-> record]

\* What runs alone sees what there is, to its end.
SeesRows ==
    \A r \in Payers : request[r].act \in LedgerAlone => request[r].seen = Rows

\* The invariant that holds whatever overlaps.
LedgerInv ==
    /\ L!LedgerAssumption
    /\ L!TypeOK
    /\ L!ReceiptTellsTheTruth
    /\ PaymentsPlanned
    /\ Aimed
    /\ PlanSeen
    /\ Solitary
    /\ SeesRows

-----------------------------------------------------------------------------
(* Types. *)

\* The values that Init uses have their types.
LEMMA LedgerIdleTyped ==
    ASSUME L!LedgerAssumption
    PROVE  L!Idle \in L!Call /\ L!Unpaid \in L!Contract /\ L!NoPlan \in L!Plan
           /\ L!NoRecord \in L!Record /\ L!Idle.act = "none"
<1>1. L!Unpaid \in L!Contract
  BY DEF L!Unpaid, L!Contract
<1>2. L!NoPlan \in L!Plan
  BY BooksAssumption DEF L!NoPlan, L!Plan, BooksAssumption
<1>3. (CHOOSE p \in Plans : TRUE) \in Plans /\ (CHOOSE k \in Keys : TRUE) \in Keys
  BY BooksAssumption DEF BooksAssumption
<1>4. 0 \in 0 .. Total
  BY BooksAssumption DEF BooksAssumption
<1>5. L!NoRecord \in L!Record
  BY <1>3, <1>4 DEF L!NoRecord, L!Record
<1>6. L!Idle.seen \in L!Seen
  BY <1>1, <1>2, <1>5 DEF L!Idle, L!Seen
<1>7. L!Idle \in L!Call
  BY <1>3, <1>4, <1>6 DEF L!Idle, L!Call
<1> QED BY <1>1, <1>2, <1>5, <1>7 DEF L!Idle

\* A payment keeps its type when its phase or its amount is set.
LEMMA RecordUpdates ==
    ASSUME NEW x \in L!Record
    PROVE  /\ \A phase \in L!Phase \cup {"NONE", "DELETED"} : [x EXCEPT !.phase = phase] \in L!Record
           /\ \A a \in 0 .. Total : [x EXCEPT !.amount = a] \in L!Record
BY Zenon DEF L!Record

\* What the fields of a payment are once one of them is set.
LEMMA RecordFields ==
    ASSUME NEW x \in L!Record, NEW phase, NEW a
    PROVE  /\ [x EXCEPT !.phase = phase].phase = phase
           /\ [x EXCEPT !.phase = phase].plan = x.plan
           /\ [x EXCEPT !.phase = phase].amount = x.amount
           /\ [x EXCEPT !.amount = a].phase = x.phase
           /\ [x EXCEPT !.amount = a].plan = x.plan
           /\ [x EXCEPT !.amount = a].amount = a
BY DEF L!Record

\* A plan keeps its type when its status or its amount is set.
LEMMA PlanUpdates ==
    ASSUME NEW x \in L!Plan
    PROVE  /\ \A s \in L!PlanStatus \cup {"NONE", "DELETED"} :
                 /\ [x EXCEPT !.status = s] \in L!Plan
                 /\ [x EXCEPT !.status = s].status = s
                 /\ [x EXCEPT !.status = s].amount = x.amount
           /\ \A a \in 0 .. Total :
                 /\ [x EXCEPT !.amount = a] \in L!Plan
                 /\ [x EXCEPT !.amount = a].status = x.status
                 /\ [x EXCEPT !.amount = a].amount = a
<1>1. /\ \A s \in L!PlanStatus \cup {"NONE", "DELETED"} : [x EXCEPT !.status = s] \in L!Plan
      /\ \A a \in 0 .. Total : [x EXCEPT !.amount = a] \in L!Plan
  BY Zenon DEF L!Plan
<1>2. /\ \A s : [x EXCEPT !.status = s].status = s /\ [x EXCEPT !.status = s].amount = x.amount
      /\ \A a : [x EXCEPT !.amount = a].status = x.status /\ [x EXCEPT !.amount = a].amount = a
  BY DEF L!Plan
<1> QED BY <1>1, <1>2

\* The types of the fields of a request.
LEMMA CallTyped ==
    ASSUME L!TypeOK, NEW r \in Payers
    PROVE  /\ request[r] \in L!Call
           /\ request[r].plan \in Plans /\ request[r].key \in Keys /\ request[r].amount \in 0 .. Total
           /\ request[r].seen.contract \in L!Contract
           /\ request[r].seen.plan \in [Plans -> L!Plan]
           /\ request[r].seen.record \in [Keys -> L!Record]
<1>1. request[r] \in L!Call
  BY DEF L!TypeOK
<1> QED BY <1>1 DEF L!Call, L!Seen

\* Columns that differ from what was loaded are written.
LEMMA ContractWritten ==
    ASSUME L!LedgerAssumption, L!TypeOK, NEW r \in Payers, NEW derived \in L!Contract,
           L!WriteContract(r, derived)
    PROVE  /\ contract' \in L!Contract
           /\ contract'.total_paid_amount \in {contract.total_paid_amount, derived.total_paid_amount}
           /\ request[r].seen.contract = contract =>
                 contract'.total_paid_amount = derived.total_paid_amount
<1>1. contract \in L!Contract
  BY DEF L!TypeOK
<1>2. DOMAIN contract = {"total_paid_amount", "payment_status"}
  BY <1>1 DEF L!Contract
<1>3. contract' = [f \in {"total_paid_amount", "payment_status"} |->
                      IF derived[f] = request[r].seen.contract[f] THEN contract[f] ELSE derived[f]]
  BY <1>2 DEF L!WriteContract
<1>4. contract' = [total_paid_amount |-> contract'["total_paid_amount"],
                   payment_status |-> contract'["payment_status"]]
  BY <1>3
<1>5. /\ contract'["total_paid_amount"] \in {contract["total_paid_amount"], derived["total_paid_amount"]}
      /\ contract'["payment_status"] \in {contract["payment_status"], derived["payment_status"]}
  BY <1>3
<1>6. contract' \in L!Contract
  BY <1>1, <1>4, <1>5 DEF L!Contract
<1>7. request[r].seen.contract = contract => contract'["total_paid_amount"] = derived["total_paid_amount"]
  BY <1>3
<1> QED BY <1>5, <1>6, <1>7

\* The status that is derived for plan p, and the paid amount of its contract.
DerivedPaid(p, plans, records) ==
    L!Paid([plans EXCEPT ![p].status = L!StatusOf(plans, records, p)], records)

\* The status derived for a plan is one of PlanStatus.
LEMMA StatusIsOne ==
    ASSUME NEW plans, NEW records, NEW p
    PROVE  L!StatusOf(plans, records, p) \in L!PlanStatus
BY DEF L!StatusOf, L!PlanStatus

\* The contract that is derived from plans and payments carries their paid amount.
LEMMA ContractOfTyped ==
    ASSUME L!LedgerAssumption, NEW plans, NEW records \in [Keys -> L!Record]
    PROVE  L!ContractOf(plans, records) \in L!Contract
           /\ L!ContractOf(plans, records).total_paid_amount = L!Paid(plans, records)
<1>1. L!Paid(plans, records) \in Nat
  BY PaidTyped
<1>2. L!ContractOf(plans, records).payment_status \in {"UNPAID", "PARTIAL", "COMPLETED", "OVERDUE"}
  BY DEF L!ContractOf
<1> QED BY <1>1, <1>2 DEF L!ContractOf, L!Contract

\* What deriving writes.  A column is written only where it differs from the
\* snapshot of the request, so the row keeps the present value or takes the derived
\* one, and takes the derived one if the snapshot was of the present value.
LEMMA DeriveDoes ==
    ASSUME L!LedgerAssumption, L!TypeOK, NEW r \in Payers, NEW p \in Plans, NEW plans,
           NEW records \in [Keys -> L!Record], NEW base \in [Plans -> L!Plan],
           base[p].status \in L!PlanStatus,
           L!Derive(r, p, plans, records, base)
    PROVE  /\ contract' \in L!Contract
           /\ contract'.total_paid_amount
                 \in {contract.total_paid_amount, DerivedPaid(p, plans, records)}
           /\ request[r].seen.contract = contract =>
                 contract'.total_paid_amount = DerivedPaid(p, plans, records)
           /\ plan' \in [Plans -> L!Plan]
           /\ \A q \in Plans : plan'[q].amount = base[q].amount /\ (q # p => plan'[q] = base[q])
           /\ plan'[p].status \in {base[p].status, L!StatusOf(plans, records, p)}
           /\ plan'[p].status \in L!PlanStatus
           /\ request[r].seen.plan[p].status = base[p].status =>
                 plan'[p].status = L!StatusOf(plans, records, p)
<1> DEFINE status == L!StatusOf(plans, records, p)
           derived == L!ContractOf([plans EXCEPT ![p].status = status], records)
<1>1. /\ plan' = IF status = request[r].seen.plan[p].status THEN base
                 ELSE [base EXCEPT ![p].status = status]
      /\ L!WriteContract(r, derived)
  BY DEF L!Derive
<1>2. status \in L!PlanStatus
  BY StatusIsOne
<1>3. derived \in L!Contract /\ derived.total_paid_amount = DerivedPaid(p, plans, records)
  BY ContractOfTyped DEF DerivedPaid
<1> HIDE DEF status, derived
<1>4. /\ contract' \in L!Contract
      /\ contract'.total_paid_amount \in {contract.total_paid_amount, derived.total_paid_amount}
      /\ request[r].seen.contract = contract =>
            contract'.total_paid_amount = derived.total_paid_amount
  BY <1>1, <1>3, ContractWritten
<1>5. /\ [base[p] EXCEPT !.status = status] \in L!Plan
      /\ [base[p] EXCEPT !.status = status].status = status
      /\ [base[p] EXCEPT !.status = status].amount = base[p].amount
  BY <1>2, PlanUpdates
<1>6. plan' = base \/ plan' = [base EXCEPT ![p] = [base[p] EXCEPT !.status = status]]
  BY <1>1
<1>7. plan' \in [Plans -> L!Plan]
      /\ \A q \in Plans : plan'[q].amount = base[q].amount /\ (q # p => plan'[q] = base[q])
      /\ plan'[p].status \in {base[p].status, status}
  BY <1>5, <1>6
<1>8. request[r].seen.plan[p].status = base[p].status => plan'[p].status = status
  BY <1>1, <1>5
<1> QED BY <1>2, <1>3, <1>4, <1>7, <1>8 DEF status

-----------------------------------------------------------------------------
(* What the steps do. *)

\* How a step leaves the request it ends.
Ended(r) ==
    /\ request' \in [Payers -> L!Call]
    /\ \A q \in Payers \ {r} : request'[q] = request[q]
    /\ \/ request'[r].act = "none"
       \/ /\ request'[r].act \in {"failed", "unknown"} /\ request[r].act = "register"
          /\ request'[r].seen = request[r].seen

\* A request that ends leaves the others as they are.
LEMMA EndEnds ==
    ASSUME L!LedgerAssumption, L!TypeOK, NEW r \in Payers, L!End(r)
    PROVE  Ended(r)
BY LedgerIdleTyped DEF L!End, L!TypeOK, Ended

\* Every step of a request but its beginning ends it, or leaves a registration to
\* the writing of its receipt.
LEMMA FinishEnds ==
    ASSUME LedgerInv, NEW r \in Payers, L!Finish(r)
    PROVE  Ended(r) /\ request[r].act # "none"
<1>0. L!LedgerAssumption /\ L!TypeOK
  BY DEF LedgerInv
<1>1. ASSUME L!End(r) PROVE Ended(r)
  BY <1>0, <1>1, EndEnds
<1>2. ASSUME NEW outcome \in {"failed", "unknown"}, request[r].act = "register",
             request' = [request EXCEPT ![r].act = outcome]
      PROVE  Ended(r)
  <2>1. request[r] \in L!Call
    BY <1>0 DEF L!TypeOK
  <2>2. [request[r] EXCEPT !.act = outcome] \in L!Call
    BY <2>1, Zenon DEF L!Call
  <2>3. [request[r] EXCEPT !.act = outcome].act = outcome
        /\ [request[r] EXCEPT !.act = outcome].seen = request[r].seen
    BY <2>1 DEF L!Call
  <2>4. request' = [request EXCEPT ![r] = [request[r] EXCEPT !.act = outcome]]
    BY <1>2
  <2> QED BY <1>0, <1>2, <2>2, <2>3, <2>4 DEF L!TypeOK, Ended
<1>3. CASE L!Register(r)
  BY <1>1, <1>2, <1>3 DEF L!Register
<1>4. CASE L!RegisterFails(r)
  BY <1>2, <1>4 DEF L!RegisterFails
<1>5. CASE L!CreatePlan(r) \/ L!UpdatePlan(r) \/ L!DeletePlan(r)
  BY <1>1, <1>5 DEF L!CreatePlan, L!UpdatePlan, L!DeletePlan
<1>6. CASE L!PersistFailure(r) \/ L!Refuse(r) \/ L!Submit(r)
  BY <1>1, <1>6 DEF L!PersistFailure, L!Refuse, L!Submit
<1>7. CASE L!Correct(r) \/ L!Remove(r) \/ L!Decide(r)
  BY <1>1, <1>7 DEF L!Correct, L!Remove, L!Decide
<1> QED BY <1>3, <1>4, <1>5, <1>6, <1>7 DEF L!Finish

\* One payment is written.
Written(k, x) ==
    /\ record' = [record EXCEPT ![k] = x]
    /\ record' \in [Keys -> L!Record]
    /\ record'[k] = x
    /\ \A j \in Keys \ {k} : record'[j] = record[j]

\* Setting one payment leaves the others as they are.
LEMMA WritesOne ==
    ASSUME L!TypeOK, NEW k \in Keys, NEW x \in L!Record, record' = [record EXCEPT ![k] = x]
    PROVE  Written(k, x)
BY DEF L!TypeOK, Written

\* What registering a payment does, in terms of the payment written and of the
\* payments that the sums are derived from.
LEMMA RegisterDoes ==
    ASSUME LedgerInv, NEW r \in Payers, L!Register(r)
    PROVE  \E x, new \in L!Record :
              /\ Written(request[r].key, x)
              /\ x.phase = "PENDING_REVIEW" /\ new.phase = "DRAFT"
              /\ x.plan = request[r].plan /\ new.plan = request[r].plan
              /\ x.amount = request[r].amount
              /\ record[request[r].key].phase = "NONE"
              /\ command' = [command EXCEPT ![request[r].key] = "SUCCEEDED"]
              /\ plan[request[r].plan].status \in L!PlanStatus
              /\ L!Room(r, request[r].key)
              /\ [request[r].seen.record EXCEPT ![request[r].key] = new] \in [Keys -> L!Record]
              /\ L!Derive(r, request[r].plan, request[r].seen.plan,
                          [request[r].seen.record EXCEPT ![request[r].key] = new], plan)
<1> DEFINE k == request[r].key
           new == [phase |-> "DRAFT", plan |-> request[r].plan, amount |-> request[r].amount]
           x == [new EXCEPT !.phase = "PENDING_REVIEW"]
<1>0. L!TypeOK /\ L!ReceiptTellsTheTruth
  BY DEF LedgerInv
<1>1. new \in L!Record
  BY <1>0, CallTyped DEF L!Record, L!Phase
<1>2. x \in L!Record
  BY <1>1, RecordUpdates DEF L!Phase
<1>3. /\ x.phase = "PENDING_REVIEW" /\ new.phase = "DRAFT"
      /\ x.plan = request[r].plan /\ new.plan = request[r].plan
      /\ x.amount = request[r].amount
  OBVIOUS
<1>4. /\ L!Fresh(k)
      /\ command' = [command EXCEPT ![k] = "SUCCEEDED"]
      /\ plan[request[r].plan].status \in L!PlanStatus
      /\ L!Room(r, k)
      /\ record' = [record EXCEPT ![k] = x]
      /\ L!Derive(r, request[r].plan, request[r].seen.plan, [request[r].seen.record EXCEPT ![k] = new], plan)
  BY DEF L!Register
<1> HIDE DEF x, new
<1>5. k \in Keys
  BY <1>0, CallTyped
<1>6. record[k].phase = "NONE"
  BY <1>0, <1>4, <1>5 DEF L!ReceiptTellsTheTruth, L!Fresh
<1>7. Written(k, x)
  BY <1>0, <1>2, <1>4, <1>5, WritesOne
<1>8. [request[r].seen.record EXCEPT ![k] = new] \in [Keys -> L!Record]
  BY <1>0, <1>1, <1>5, CallTyped
<1> QED BY <1>1, <1>2, <1>3, <1>4, <1>6, <1>7, <1>8

\* The payment a request follows up on.
LEMMA FollowedUp ==
    ASSUME LedgerInv, NEW r \in Payers, request[r].act \in Follows,
           record[request[r].key].phase \in L!Phase
    PROVE  /\ request[r].key \in Keys /\ request[r].plan \in Plans
           /\ record[request[r].key] \in L!Record
           /\ record[request[r].key].plan = request[r].plan
           /\ plan[request[r].plan].status \in L!PlanStatus
           /\ request[r].seen.plan[request[r].plan].status \in L!PlanStatus
<1>1. L!TypeOK /\ Aimed /\ PlanSeen /\ PaymentsPlanned
  BY DEF LedgerInv
<1>2. request[r].key \in Keys /\ request[r].plan \in Plans
  BY <1>1, CallTyped
<1> QED BY <1>1, <1>2 DEF Aimed, PlanSeen, PaymentsPlanned, L!TypeOK

\* What correcting a payment does.
LEMMA CorrectDoes ==
    ASSUME LedgerInv, NEW r \in Payers, L!Correct(r)
    PROVE  /\ request[r].act = "correct" /\ record[request[r].key].phase \in L!Phase
           /\ L!Room(r, request[r].key)
           /\ \E x \in L!Record :
                 /\ Written(request[r].key, x)
                 /\ x.phase = record[request[r].key].phase /\ x.plan = record[request[r].key].plan
                 /\ x.amount = request[r].amount
           /\ [request[r].seen.record EXCEPT ![request[r].key].amount = request[r].amount]
                 \in [Keys -> L!Record]
           /\ L!Derive(r, request[r].plan, request[r].seen.plan,
                       [request[r].seen.record EXCEPT ![request[r].key].amount = request[r].amount], plan)
           /\ command' = command
           /\ request[r].seen.record = record =>
                 [request[r].seen.record EXCEPT ![request[r].key].amount = request[r].amount] = record'
<1> DEFINE k == request[r].key
           a == request[r].amount
           x == [record[k] EXCEPT !.amount = a]
           y == [request[r].seen.record[k] EXCEPT !.amount = a]
<1>0. L!TypeOK
  BY DEF LedgerInv
<1>1. /\ request[r].act = "correct" /\ record[k].phase \in L!Phase /\ L!Room(r, k)
      /\ record' = [record EXCEPT ![k].amount = a] /\ command' = command
      /\ L!Derive(r, request[r].plan, request[r].seen.plan, [request[r].seen.record EXCEPT ![k].amount = a], plan)
  BY DEF L!Correct
<1>2. k \in Keys /\ a \in 0 .. Total /\ record[k] \in L!Record /\ request[r].seen.record \in [Keys -> L!Record]
  BY <1>0, CallTyped DEF L!TypeOK
<1>3. x \in L!Record /\ y \in L!Record
  BY <1>2, RecordUpdates
<1>4. x.phase = record[k].phase /\ x.plan = record[k].plan /\ x.amount = a
  BY <1>2, RecordFields
<1>5. Written(k, x)
  BY <1>0, <1>1, <1>2, <1>3, WritesOne
<1>6. [request[r].seen.record EXCEPT ![k].amount = a] \in [Keys -> L!Record]
  BY <1>2, <1>3
<1> HIDE DEF x
<1> QED BY <1>1, <1>3, <1>4, <1>5, <1>6

\* What removing a payment does.
LEMMA RemoveDoes ==
    ASSUME LedgerInv, NEW r \in Payers, L!Remove(r)
    PROVE  /\ request[r].act = "remove" /\ record[request[r].key].phase \in L!Phase
           /\ \E x \in L!Record :
                 /\ Written(request[r].key, x)
                 /\ x.phase = "DELETED" /\ x.plan = record[request[r].key].plan
           /\ [request[r].seen.record EXCEPT ![request[r].key].phase = "DELETED"] \in [Keys -> L!Record]
           /\ L!Derive(r, request[r].plan, request[r].seen.plan,
                       [request[r].seen.record EXCEPT ![request[r].key].phase = "DELETED"], plan)
           /\ command' = command
           /\ request[r].seen.record = record =>
                 [request[r].seen.record EXCEPT ![request[r].key].phase = "DELETED"] = record'
<1> DEFINE k == request[r].key
           x == [record[k] EXCEPT !.phase = "DELETED"]
           y == [request[r].seen.record[k] EXCEPT !.phase = "DELETED"]
<1>0. L!TypeOK
  BY DEF LedgerInv
<1>1. /\ request[r].act = "remove" /\ record[k].phase \in L!Phase
      /\ record' = [record EXCEPT ![k].phase = "DELETED"] /\ command' = command
      /\ L!Derive(r, request[r].plan, request[r].seen.plan, [request[r].seen.record EXCEPT ![k].phase = "DELETED"], plan)
  BY DEF L!Remove
<1>2. k \in Keys /\ record[k] \in L!Record /\ request[r].seen.record \in [Keys -> L!Record]
  BY <1>0, CallTyped DEF L!TypeOK
<1>3. x \in L!Record /\ y \in L!Record
  BY <1>2, RecordUpdates
<1>4. x.phase = "DELETED" /\ x.plan = record[k].plan
  BY <1>2, RecordFields
<1>5. Written(k, x)
  BY <1>0, <1>1, <1>2, <1>3, WritesOne
<1>6. [request[r].seen.record EXCEPT ![k].phase = "DELETED"] \in [Keys -> L!Record]
  BY <1>2, <1>3
<1> HIDE DEF x
<1> QED BY <1>1, <1>3, <1>4, <1>5, <1>6

\* What submitting a payment does: nothing is derived.
LEMMA SubmitDoes ==
    ASSUME LedgerInv, NEW r \in Payers, L!Submit(r)
    PROVE  /\ request[r].act = "submit" /\ record[request[r].key].phase \in {"DRAFT", "REJECTED"}
           /\ \E x \in L!Record :
                 /\ Written(request[r].key, x)
                 /\ x.phase = "PENDING_REVIEW" /\ x.plan = record[request[r].key].plan
                 /\ x.amount = record[request[r].key].amount
           /\ contract' = contract /\ plan' = plan /\ command' = command
<1> DEFINE k == request[r].key
           x == [record[k] EXCEPT !.phase = "PENDING_REVIEW"]
<1>0. L!TypeOK
  BY DEF LedgerInv
<1>1. /\ request[r].act = "submit" /\ record[k].phase \in {"DRAFT", "REJECTED"}
      /\ record' = [record EXCEPT ![k].phase = "PENDING_REVIEW"]
      /\ contract' = contract /\ plan' = plan /\ command' = command
  BY DEF L!Submit
<1>2. k \in Keys /\ record[k] \in L!Record
  BY <1>0, CallTyped DEF L!TypeOK
<1>3. x \in L!Record
  BY <1>2, RecordUpdates DEF L!Phase
<1>4. x.phase = "PENDING_REVIEW" /\ x.plan = record[k].plan /\ x.amount = record[k].amount
  BY <1>2, RecordFields
<1>5. Written(k, x)
  BY <1>0, <1>1, <1>2, <1>3, WritesOne
<1> HIDE DEF x
<1> QED BY <1>1, <1>3, <1>4, <1>5

\* What approving, rejecting or cancelling a payment does.
LEMMA DecideDoes ==
    ASSUME LedgerInv, NEW r \in Payers, L!Decide(r)
    PROVE  /\ request[r].act \in {"approve", "reject", "cancel"}
           /\ record[request[r].key].phase = "PENDING_REVIEW"
           /\ \E x \in L!Record :
                 /\ Written(request[r].key, x)
                 /\ x.phase \in {"APPROVED", "REJECTED", "DRAFT"}
                 /\ x.plan = record[request[r].key].plan
                 /\ x.amount = record[request[r].key].amount
                 /\ [request[r].seen.record EXCEPT ![request[r].key] = x] \in [Keys -> L!Record]
                 /\ L!Derive(r, request[r].plan, request[r].seen.plan,
                             [request[r].seen.record EXCEPT ![request[r].key] = x], plan)
           /\ command' = command
<1> DEFINE k == request[r].key
           x == [record[k] EXCEPT !.phase = L!Decided(request[r].act)]
<1>0. L!TypeOK
  BY DEF LedgerInv
<1>1. /\ request[r].act \in {"approve", "reject", "cancel"} /\ record[k].phase = "PENDING_REVIEW"
      /\ record' = [record EXCEPT ![k] = x]
      /\ L!Derive(r, request[r].plan, request[r].seen.plan, [request[r].seen.record EXCEPT ![k] = x], plan)
      /\ command' = command
  BY DEF L!Decide
<1>2. k \in Keys /\ record[k] \in L!Record /\ request[r].seen.record \in [Keys -> L!Record]
  BY <1>0, CallTyped DEF L!TypeOK
<1>3. L!Decided(request[r].act) \in {"APPROVED", "REJECTED", "DRAFT"}
  BY <1>1 DEF L!Decided
<1>4. x \in L!Record
  BY <1>2, <1>3, RecordUpdates DEF L!Phase
<1>5. /\ x.phase \in {"APPROVED", "REJECTED", "DRAFT"}
      /\ x.plan = record[k].plan /\ x.amount = record[k].amount
  BY <1>2, <1>3, RecordFields
<1> HIDE DEF x
<1>6. Written(k, x)
  BY <1>0, <1>1, <1>2, <1>4, WritesOne
<1>7. [request[r].seen.record EXCEPT ![k] = x] \in [Keys -> L!Record]
  BY <1>2, <1>4
<1> QED BY <1>1, <1>4, <1>5, <1>6, <1>7

\* What creating a plan does.
LEMMA CreatePlanDoes ==
    ASSUME LedgerInv, NEW r \in Payers, L!CreatePlan(r)
    PROVE  /\ plan[request[r].plan].status = "NONE"
           /\ plan' \in [Plans -> L!Plan] /\ plan'[request[r].plan].status = "PENDING"
           /\ \A q \in Plans \ {request[r].plan} : plan'[q] = plan[q]
           /\ contract' = contract /\ record' = record /\ command' = command
<1>0. L!TypeOK
  BY DEF LedgerInv
<1> DEFINE new == [status |-> "PENDING", amount |-> request[r].amount]
<1>1. /\ plan[request[r].plan].status = "NONE" /\ plan' = [plan EXCEPT ![request[r].plan] = new]
      /\ contract' = contract /\ record' = record /\ command' = command
  BY DEF L!CreatePlan
<1>2. request[r].plan \in Plans /\ new \in L!Plan /\ new.status = "PENDING"
  BY <1>0, CallTyped DEF L!Plan, L!PlanStatus
<1> HIDE DEF new
<1> QED BY <1>0, <1>1, <1>2 DEF L!TypeOK

\* What updating a plan does.
LEMMA UpdatePlanDoes ==
    ASSUME LedgerInv, NEW r \in Payers, L!UpdatePlan(r)
    PROVE  /\ request[r].act = "updatePlan" /\ record' = record /\ command' = command
           /\ \E base \in [Plans -> L!Plan] :
                 /\ plan[request[r].plan].status \in L!PlanStatus
                 /\ \A q \in Plans : base[q].status = plan[q].status /\ (q # request[r].plan => base[q] = plan[q])
                 /\ base[request[r].plan].amount = request[r].amount
                 /\ L!Derive(r, request[r].plan,
                             [request[r].seen.plan EXCEPT ![request[r].plan].amount = request[r].amount],
                             request[r].seen.record, base)
                 /\ request[r].seen.plan = plan =>
                       base = [request[r].seen.plan EXCEPT ![request[r].plan].amount = request[r].amount]
<1> DEFINE p == request[r].plan
           a == request[r].amount
           base == [plan EXCEPT ![p].amount = a]
<1>0. L!TypeOK
  BY DEF LedgerInv
<1>1. /\ request[r].act = "updatePlan" /\ record' = record /\ command' = command
      /\ plan[p].status \in L!PlanStatus
      /\ L!Derive(r, p, [request[r].seen.plan EXCEPT ![p].amount = a], request[r].seen.record, base)
  BY DEF L!UpdatePlan
<1>2. p \in Plans /\ a \in 0 .. Total /\ plan \in [Plans -> L!Plan]
  BY <1>0, CallTyped DEF L!TypeOK
<1>3. [plan[p] EXCEPT !.amount = a] \in L!Plan
      /\ [plan[p] EXCEPT !.amount = a].status = plan[p].status
      /\ [plan[p] EXCEPT !.amount = a].amount = a
  BY <1>2, PlanUpdates
<1>4. base = [plan EXCEPT ![p] = [plan[p] EXCEPT !.amount = a]]
  OBVIOUS
<1>5. /\ base \in [Plans -> L!Plan] /\ base[p].amount = a
      /\ \A q \in Plans : base[q].status = plan[q].status /\ (q # p => base[q] = plan[q])
  BY <1>2, <1>3, <1>4
<1>6. request[r].seen.plan = plan => base = [request[r].seen.plan EXCEPT ![p].amount = a]
  OBVIOUS
<1> HIDE DEF base
<1> QED BY <1>1, <1>5, <1>6

\* What deleting a plan does: its payments go with it.
LEMMA DeletePlanDoes ==
    ASSUME LedgerInv, NEW r \in Payers, L!DeletePlan(r)
    PROVE  /\ request[r].act = "deletePlan" /\ command' = command
           /\ plan' \in [Plans -> L!Plan] /\ plan'[request[r].plan].status = "DELETED"
           /\ \A q \in Plans \ {request[r].plan} : plan'[q] = plan[q]
           /\ record' \in [Keys -> L!Record]
           /\ \A k \in Keys :
                 IF k \in L!RecordsOf(record, request[r].plan)
                 THEN record'[k].phase = "DELETED" /\ record'[k].plan = record[k].plan
                 ELSE record'[k] = record[k]
           /\ contract' \in L!Contract
           /\ request[r].seen.contract = contract =>
                 contract'.total_paid_amount =
                    L!Paid([request[r].seen.plan EXCEPT ![request[r].plan].status = "DELETED"],
                           request[r].seen.record)
<1> DEFINE p == request[r].plan
           derived == L!ContractOf([request[r].seen.plan EXCEPT ![p].status = "DELETED"], request[r].seen.record)
<1>0. L!LedgerAssumption /\ L!TypeOK
  BY DEF LedgerInv
<1>1. /\ request[r].act = "deletePlan" /\ command' = command
      /\ plan' = [plan EXCEPT ![p].status = "DELETED"]
      /\ record' = [k \in Keys |-> IF k \in L!RecordsOf(record, p)
                                   THEN [record[k] EXCEPT !.phase = "DELETED"] ELSE record[k]]
      /\ L!WriteContract(r, derived)
  BY DEF L!DeletePlan
<1>2. p \in Plans /\ plan \in [Plans -> L!Plan] /\ record \in [Keys -> L!Record]
  BY <1>0, CallTyped DEF L!TypeOK
<1>3. [plan[p] EXCEPT !.status = "DELETED"] \in L!Plan
      /\ [plan[p] EXCEPT !.status = "DELETED"].status = "DELETED"
  <2>1. plan[p] \in L!Plan /\ "DELETED" \in L!PlanStatus \cup {"NONE", "DELETED"}
    BY <1>2
  <2> QED BY <2>1, PlanUpdates
<1>4. plan' \in [Plans -> L!Plan] /\ plan'[p].status = "DELETED"
      /\ \A q \in Plans \ {p} : plan'[q] = plan[q]
  BY <1>1, <1>2, <1>3
<1>5. \A k \in Keys : /\ [record[k] EXCEPT !.phase = "DELETED"] \in L!Record
                      /\ [record[k] EXCEPT !.phase = "DELETED"].phase = "DELETED"
                      /\ [record[k] EXCEPT !.phase = "DELETED"].plan = record[k].plan
  BY <1>2, RecordUpdates, RecordFields
<1>6. /\ record' \in [Keys -> L!Record]
      /\ \A k \in Keys :
            IF k \in L!RecordsOf(record, p)
            THEN record'[k].phase = "DELETED" /\ record'[k].plan = record[k].plan
            ELSE record'[k] = record[k]
  BY <1>1, <1>2, <1>5
<1>7. derived \in L!Contract
      /\ derived.total_paid_amount =
            L!Paid([request[r].seen.plan EXCEPT ![p].status = "DELETED"], request[r].seen.record)
  BY <1>0, CallTyped, ContractOfTyped
<1> HIDE DEF derived
<1>8. L!WriteContract(r, derived)
  BY <1>1
<1>9. /\ contract' \in L!Contract
      /\ request[r].seen.contract = contract => contract'.total_paid_amount = derived.total_paid_amount
  BY <1>0, <1>7, <1>8, ContractWritten
<1> QED BY <1>1, <1>4, <1>6, <1>7, <1>9

-----------------------------------------------------------------------------
(* The step of the invariant. *)

\* A payment keeps its key and its plan.
NamesStay ==
    \A k \in Keys : record[k].phase # "NONE" => record'[k].phase # "NONE" /\ record'[k].plan = record[k].plan

\* What LedgerInv says of the rows, of the next state.
RowsKept ==
    /\ contract' \in L!Contract /\ plan' \in [Plans -> L!Plan] /\ record' \in [Keys -> L!Record]
    /\ command' \in [Keys -> {"NONE", "SUCCEEDED", "FAILED", "UNKNOWN"}]
    /\ NamesStay
    /\ \A k \in Keys : record'[k].phase # "NONE" <=> command'[k] = "SUCCEEDED"
    /\ \A k \in Keys : record'[k].phase \in L!Phase => plan'[record'[k].plan].status \in L!PlanStatus

\* The plans that are there stay, and one payment is written that has one.
LEMMA WritingKeepsRows ==
    ASSUME LedgerInv, NEW k \in Keys, NEW x \in L!Record, Written(k, x),
           x.phase # "NONE", record[k].phase # "NONE" => x.plan = record[k].plan,
           plan[x.plan].status \in L!PlanStatus,
           contract' \in L!Contract, plan' \in [Plans -> L!Plan],
           \A q \in Plans : plan[q].status \in L!PlanStatus => plan'[q].status \in L!PlanStatus,
           \/ record[k].phase # "NONE" /\ command' = command
           \/ command' = [command EXCEPT ![k] = "SUCCEEDED"]
    PROVE  RowsKept
<1>1. L!TypeOK /\ L!ReceiptTellsTheTruth /\ PaymentsPlanned
  BY DEF LedgerInv
<1>2. command \in [Keys -> {"NONE", "SUCCEEDED", "FAILED", "UNKNOWN"}] /\ record \in [Keys -> L!Record]
  BY <1>1 DEF L!TypeOK
<1>3. command' \in [Keys -> {"NONE", "SUCCEEDED", "FAILED", "UNKNOWN"}]
  BY <1>2
<1>4. record' \in [Keys -> L!Record] /\ record'[k] = x /\ \A j \in Keys \ {k} : record'[j] = record[j]
  BY DEF Written
<1>5. NamesStay
  BY <1>4 DEF NamesStay
<1>6. command'[k] = "SUCCEEDED" /\ \A j \in Keys \ {k} : command'[j] = command[j]
  BY <1>1, <1>2 DEF L!ReceiptTellsTheTruth
<1>7. \A j \in Keys : record'[j].phase # "NONE" <=> command'[j] = "SUCCEEDED"
  BY <1>1, <1>4, <1>6 DEF L!ReceiptTellsTheTruth
<1>8. ASSUME NEW j \in Keys, record'[j].phase \in L!Phase
      PROVE  plan'[record'[j].plan].status \in L!PlanStatus
  <2>1. record'[j].plan \in Plans
    BY <1>4 DEF L!Record
  <2>2. plan[record'[j].plan].status \in L!PlanStatus
    BY <1>1, <1>4, <1>8 DEF PaymentsPlanned
  <2> QED BY <2>1, <2>2
<1> QED BY <1>3, <1>4, <1>5, <1>7, <1>8 DEF RowsKept

\* Deriving leaves the plans in place.
LEMMA DerivingKeepsPlans ==
    ASSUME LedgerInv, NEW r \in Payers, NEW plans, NEW records \in [Keys -> L!Record],
           NEW base \in [Plans -> L!Plan], \A q \in Plans : base[q].status = plan[q].status,
           plan[request[r].plan].status \in L!PlanStatus,
           L!Derive(r, request[r].plan, plans, records, base)
    PROVE  /\ contract' \in L!Contract /\ plan' \in [Plans -> L!Plan]
           /\ \A q \in Plans : plan[q].status \in L!PlanStatus => plan'[q].status \in L!PlanStatus
<1>1. L!LedgerAssumption /\ L!TypeOK /\ request[r].plan \in Plans
  BY CallTyped DEF LedgerInv
<1>2. base[request[r].plan].status \in L!PlanStatus
  BY <1>1
<1>3. /\ contract' \in L!Contract /\ plan' \in [Plans -> L!Plan]
      /\ \A q \in Plans : q # request[r].plan => plan'[q] = base[q]
      /\ plan'[request[r].plan].status \in L!PlanStatus
  BY <1>1, <1>2, DeriveDoes
<1> QED BY <1>3

\* Every step of a request but its beginning keeps types, receipts, the names of the
\* payments and their plans.
LEMMA FinishKeepsRows ==
    ASSUME LedgerInv, NEW r \in Payers, L!Finish(r)
    PROVE  RowsKept
<1>0. L!LedgerAssumption /\ L!TypeOK /\ L!ReceiptTellsTheTruth /\ PaymentsPlanned
  BY DEF LedgerInv
<1> DEFINE k == request[r].key
           p == request[r].plan
<1>00. k \in Keys /\ p \in Plans /\ plan \in [Plans -> L!Plan]
  BY <1>0, CallTyped DEF L!TypeOK
<1>1. CASE L!Register(r)
  <2>1. PICK x, new \in L!Record :
              /\ Written(k, x) /\ x.phase = "PENDING_REVIEW" /\ x.plan = p
              /\ record[k].phase = "NONE" /\ command' = [command EXCEPT ![k] = "SUCCEEDED"]
              /\ plan[p].status \in L!PlanStatus
              /\ [request[r].seen.record EXCEPT ![k] = new] \in [Keys -> L!Record]
              /\ L!Derive(r, p, request[r].seen.plan, [request[r].seen.record EXCEPT ![k] = new], plan)
    BY <1>1, RegisterDoes
  <2>2. /\ contract' \in L!Contract /\ plan' \in [Plans -> L!Plan]
        /\ \A q \in Plans : plan[q].status \in L!PlanStatus => plan'[q].status \in L!PlanStatus
    BY <1>00, <2>1, DerivingKeepsPlans
  <2> QED BY <1>00, <2>1, <2>2, WritingKeepsRows
<1>2. ASSUME request[r].act \in Follows, record[k].phase \in L!Phase, command' = command,
             NEW x \in L!Record, Written(k, x), x.phase # "NONE", x.plan = record[k].plan,
             contract' \in L!Contract, plan' \in [Plans -> L!Plan],
             \A q \in Plans : plan[q].status \in L!PlanStatus => plan'[q].status \in L!PlanStatus
      PROVE  RowsKept
  <2>1. plan[x.plan].status \in L!PlanStatus
    BY <1>2, FollowedUp
  <2>2. record[k].phase # "NONE"
    BY <1>2 DEF L!Phase
  <2> QED BY <1>00, <1>2, <2>1, <2>2, WritingKeepsRows
<1>3. ASSUME request[r].act \in Follows, record[k].phase \in L!Phase, command' = command,
             NEW x \in L!Record, Written(k, x), x.phase # "NONE", x.plan = record[k].plan,
             NEW records \in [Keys -> L!Record], L!Derive(r, p, request[r].seen.plan, records, plan)
      PROVE  RowsKept
  <2>1. /\ contract' \in L!Contract /\ plan' \in [Plans -> L!Plan]
        /\ \A q \in Plans : plan[q].status \in L!PlanStatus => plan'[q].status \in L!PlanStatus
    BY <1>00, <1>3, FollowedUp, DerivingKeepsPlans
  <2> QED BY <1>2, <1>3, <2>1
<1>4. CASE L!Correct(r)
  <2>1. request[r].act \in Follows /\ record[k].phase \in L!Phase
    BY <1>4, CorrectDoes DEF Follows
  <2>2. PICK x \in L!Record : Written(k, x) /\ x.phase = record[k].phase /\ x.plan = record[k].plan
    BY <1>4, CorrectDoes
  <2>3. x.phase # "NONE"
    BY <2>1, <2>2 DEF L!Phase
  <2> QED BY <1>3, <1>4, <2>1, <2>2, <2>3, CorrectDoes
<1>5. CASE L!Remove(r)
  <2>1. request[r].act \in Follows /\ record[k].phase \in L!Phase
    BY <1>5, RemoveDoes DEF Follows
  <2>2. PICK x \in L!Record : Written(k, x) /\ x.phase = "DELETED" /\ x.plan = record[k].plan
    BY <1>5, RemoveDoes
  <2> QED BY <1>3, <1>5, <2>1, <2>2, RemoveDoes
<1>6. CASE L!Decide(r)
  <2>1. request[r].act \in Follows /\ record[k].phase \in L!Phase /\ command' = command
    BY <1>6, DecideDoes DEF Follows, L!Phase
  <2>2. PICK x \in L!Record :
           /\ Written(k, x) /\ x.phase \in {"APPROVED", "REJECTED", "DRAFT"} /\ x.plan = record[k].plan
           /\ [request[r].seen.record EXCEPT ![k] = x] \in [Keys -> L!Record]
           /\ L!Derive(r, p, request[r].seen.plan, [request[r].seen.record EXCEPT ![k] = x], plan)
    BY <1>6, DecideDoes
  <2>3. x.phase # "NONE"
    BY <2>2
  <2> QED BY <1>3, <2>1, <2>2, <2>3
<1>7. CASE L!Submit(r)
  <2>1. request[r].act \in Follows /\ record[k].phase \in L!Phase
        /\ contract' = contract /\ plan' = plan /\ command' = command
    BY <1>7, SubmitDoes DEF Follows, L!Phase
  <2>2. PICK x \in L!Record : Written(k, x) /\ x.phase = "PENDING_REVIEW" /\ x.plan = record[k].plan
    BY <1>7, SubmitDoes
  <2>3. contract' \in L!Contract /\ plan' \in [Plans -> L!Plan]
        /\ \A q \in Plans : plan[q].status \in L!PlanStatus => plan'[q].status \in L!PlanStatus
    BY <1>0, <2>1 DEF L!TypeOK
  <2> QED BY <1>2, <2>1, <2>2, <2>3
<1>8. CASE L!UpdatePlan(r)
  <2>1. record' = record /\ command' = command
    BY <1>8, UpdatePlanDoes
  <2>2. PICK base \in [Plans -> L!Plan] :
           /\ plan[p].status \in L!PlanStatus
           /\ \A q \in Plans : base[q].status = plan[q].status
           /\ L!Derive(r, p, [request[r].seen.plan EXCEPT ![p].amount = request[r].amount],
                       request[r].seen.record, base)
    BY <1>8, UpdatePlanDoes
  <2>3. /\ contract' \in L!Contract /\ plan' \in [Plans -> L!Plan]
        /\ \A q \in Plans : plan[q].status \in L!PlanStatus => plan'[q].status \in L!PlanStatus
    BY <1>0, <2>2, CallTyped, DerivingKeepsPlans
  <2> QED BY <1>0, <2>1, <2>3 DEF RowsKept, NamesStay, L!TypeOK, L!ReceiptTellsTheTruth, PaymentsPlanned, L!Record
<1>9. CASE L!CreatePlan(r)
  <2>1. /\ plan[p].status = "NONE" /\ plan' \in [Plans -> L!Plan]
        /\ \A q \in Plans \ {p} : plan'[q] = plan[q]
        /\ contract' = contract /\ record' = record /\ command' = command
    BY <1>9, CreatePlanDoes
  <2>2. \A q \in Plans : plan[q].status \in L!PlanStatus => plan'[q].status \in L!PlanStatus
    BY <2>1 DEF L!PlanStatus
  <2> QED BY <1>0, <2>1, <2>2 DEF RowsKept, NamesStay, L!TypeOK, L!ReceiptTellsTheTruth, PaymentsPlanned, L!Record
<1>10. CASE L!DeletePlan(r)
  <2>1. /\ command' = command
        /\ plan' \in [Plans -> L!Plan]
        /\ \A q \in Plans \ {p} : plan'[q] = plan[q]
        /\ record' \in [Keys -> L!Record]
        /\ \A j \in Keys :
              IF j \in L!RecordsOf(record, p)
              THEN record'[j].phase = "DELETED" /\ record'[j].plan = record[j].plan
              ELSE record'[j] = record[j]
        /\ contract' \in L!Contract
    BY <1>10, DeletePlanDoes
  <2>2. "DELETED" \notin L!Phase /\ "NONE" \notin L!Phase
    BY DEF L!Phase
  <2>3. NamesStay
    BY <2>1 DEF NamesStay
  <2>4. \A j \in Keys : record'[j].phase # "NONE" <=> command'[j] = "SUCCEEDED"
    BY <1>0, <2>1, <2>2 DEF L!ReceiptTellsTheTruth, L!RecordsOf
  <2>5. \A j \in Keys : record'[j].phase \in L!Phase => plan'[record'[j].plan].status \in L!PlanStatus
    <3> SUFFICES ASSUME NEW j \in Keys, record'[j].phase \in L!Phase
                 PROVE  plan'[record'[j].plan].status \in L!PlanStatus
      OBVIOUS
    <3>1. j \notin L!RecordsOf(record, p) /\ record'[j] = record[j]
      BY <2>1, <2>2
    <3>2. record[j].plan # p /\ record[j].plan \in Plans
      BY <1>0, <3>1 DEF L!RecordsOf, L!TypeOK, L!Record
    <3> QED BY <1>0, <2>1, <3>1, <3>2 DEF PaymentsPlanned
  <2>6. command' \in [Keys -> {"NONE", "SUCCEEDED", "FAILED", "UNKNOWN"}]
    BY <1>0, <2>1 DEF L!TypeOK
  <2> QED BY <2>1, <2>3, <2>4, <2>5, <2>6 DEF RowsKept
<1>11. CASE L!PersistFailure(r)
  <2> DEFINE receipt == L!Receipt(k, IF request[r].act = "failed" THEN "FAILED" ELSE "UNKNOWN")
  <2>1. command' = [command EXCEPT ![k] = receipt] /\ contract' = contract /\ plan' = plan /\ record' = record
    BY <1>11 DEF L!PersistFailure
  <2>2. /\ receipt \in {"NONE", "SUCCEEDED", "FAILED", "UNKNOWN"}
        /\ receipt = "SUCCEEDED" <=> command[k] = "SUCCEEDED"
    BY <1>0, <1>00 DEF L!Receipt, L!TypeOK
  <2> HIDE DEF receipt
  <2>3. command' \in [Keys -> {"NONE", "SUCCEEDED", "FAILED", "UNKNOWN"}]
        /\ \A j \in Keys : command'[j] = "SUCCEEDED" <=> command[j] = "SUCCEEDED"
    BY <1>0, <2>1, <2>2 DEF L!TypeOK
  <2> QED BY <1>0, <2>1, <2>3 DEF RowsKept, NamesStay, L!TypeOK, L!ReceiptTellsTheTruth, PaymentsPlanned
<1>12. CASE L!RegisterFails(r) \/ L!Refuse(r)
  <2>1. contract' = contract /\ plan' = plan /\ record' = record /\ command' = command
    BY <1>12 DEF L!RegisterFails, L!Refuse
  <2> QED BY <1>0, <2>1 DEF RowsKept, NamesStay, L!TypeOK, L!ReceiptTellsTheTruth, PaymentsPlanned
<1> QED BY <1>1, <1>4, <1>5, <1>6, <1>7, <1>8, <1>9, <1>10, <1>11, <1>12 DEF L!Finish

\* The beginning of a request keeps the invariant.
LEMMA LedgerBegins ==
    ASSUME LedgerInv, NEW r \in Payers, NEW act \in LedgerActs, NEW p \in Plans, NEW k \in Keys,
           NEW a \in 0 .. Total, L!Begin(r, act, p, k, a)
    PROVE  LedgerInv'
<1> DEFINE call == [act |-> act, plan |-> p, key |-> k, amount |-> a, seen |-> Rows]
<1>0. /\ L!LedgerAssumption /\ L!TypeOK /\ L!ReceiptTellsTheTruth
      /\ PaymentsPlanned /\ Aimed /\ PlanSeen /\ Solitary /\ SeesRows
  BY DEF LedgerInv
<1>1. /\ request[r].act = "none" /\ ~L!Overlaps(r, act)
      /\ L!Addressed(act, p, k) /\ L!Admissible(act, p, k, a)
      /\ request' = [request EXCEPT ![r] = call]
      /\ contract' = contract /\ plan' = plan /\ record' = record /\ command' = command
  BY DEF L!Begin, Rows
<1>2. Rows \in L!Seen
  BY <1>0 DEF Rows, L!TypeOK, L!Seen
<1>3. call \in L!Call
  BY <1>2 DEF L!Call
<1>4. /\ call.act = act /\ call.plan = p /\ call.key = k /\ call.seen = Rows
  OBVIOUS
<1> HIDE DEF call
<1>5. /\ request' \in [Payers -> L!Call] /\ request'[r] = call
      /\ \A q \in Payers \ {r} : request'[q] = request[q]
  BY <1>0, <1>1, <1>3 DEF L!TypeOK
<1>6. L!TypeOK' /\ L!ReceiptTellsTheTruth' /\ PaymentsPlanned'
  BY <1>0, <1>1, <1>5 DEF L!TypeOK, L!ReceiptTellsTheTruth, PaymentsPlanned
<1>7. act \in Follows => record[k].phase \in L!Phase /\ p = record[k].plan
  BY <1>1 DEF L!Admissible, L!Addressed, Follows, L!Phase
<1>8. Aimed'
  <2>1. act \in Follows => record[k].phase # "NONE" /\ record[k].plan = p
    BY <1>7 DEF L!Phase
  <2> QED BY <1>0, <1>1, <1>4, <1>5, <2>1 DEF Aimed
<1>9. PlanSeen'
  <2>1. act \in Follows \cup {"register"} => plan[p].status \in L!PlanStatus
    <3>1. act = "register" => plan[p].status \in L!PlanStatus
      BY <1>1 DEF L!Admissible
    <3> QED BY <1>0, <1>7, <3>1 DEF PaymentsPlanned
  <2>2. Rows.plan = plan
    BY DEF Rows
  <2> QED BY <1>0, <1>4, <1>5, <2>1, <2>2 DEF PlanSeen
<1>10. Solitary'
  <2>1. \A q \in Payers \ {r} : request[q].act # "none" =>
           act \notin LedgerAlone /\ request[q].act \notin LedgerAlone
    BY <1>1 DEF L!Overlaps
  <2>2. "none" \notin LedgerAlone
    BY <1>0 DEF L!LedgerAssumption, L!Act
  <2> QED BY <1>0, <1>4, <1>5, <2>1, <2>2 DEF Solitary
<1>11. SeesRows'
  <2>1. Rows' = Rows
    BY <1>1 DEF Rows
  <2> QED BY <1>0, <1>4, <1>5, <2>1 DEF SeesRows
<1> QED BY <1>0, <1>6, <1>8, <1>9, <1>10, <1>11 DEF LedgerInv

\* Who finishes overlaps with nobody who is alone.
LEMMA OthersOverlap ==
    ASSUME LedgerInv, NEW r \in Payers, request[r].act # "none", NEW q \in Payers \ {r}
    PROVE  /\ request[q].act \notin LedgerAlone
           /\ request[r].act \in LedgerAlone => request[q].act = "none"
BY DEF LedgerInv, Solitary

\* Every other step of a request keeps the invariant.
LEMMA LedgerFinishes ==
    ASSUME LedgerInv, NEW r \in Payers, L!Finish(r)
    PROVE  LedgerInv'
<1>0. /\ L!LedgerAssumption /\ L!TypeOK /\ L!ReceiptTellsTheTruth
      /\ PaymentsPlanned /\ Aimed /\ PlanSeen /\ Solitary /\ SeesRows
  BY DEF LedgerInv
<1>1. RowsKept
  BY FinishKeepsRows
<1>2. /\ request' \in [Payers -> L!Call] /\ request[r].act # "none"
      /\ \A q \in Payers \ {r} : request'[q] = request[q]
      /\ request'[r].act \in {"none", "failed", "unknown"}
  BY FinishEnds DEF Ended
<1>3. /\ request'[r].act \notin LedgerAlone
      /\ request'[r].act \notin Follows \cup {"register"}
  BY <1>0, <1>2 DEF L!LedgerAssumption, L!Act, Follows
<1>4. L!TypeOK' /\ L!ReceiptTellsTheTruth' /\ PaymentsPlanned'
  BY <1>1, <1>2 DEF RowsKept, L!TypeOK, L!ReceiptTellsTheTruth, PaymentsPlanned
<1>5. Aimed'
  <2> SUFFICES ASSUME NEW q \in Payers, request'[q].act \in Follows
               PROVE  /\ record'[request'[q].key].phase # "NONE"
                      /\ record'[request'[q].key].plan = request'[q].plan
    BY DEF Aimed
  <2>1. q # r /\ request'[q] = request[q]
    BY <1>2, <1>3
  <2>2. /\ record[request[q].key].phase # "NONE" /\ record[request[q].key].plan = request[q].plan
        /\ request[q].key \in Keys
    BY <1>0, <2>1, CallTyped DEF Aimed
  <2> QED BY <1>1, <2>1, <2>2 DEF RowsKept, NamesStay
<1>6. PlanSeen'
  BY <1>0, <1>2, <1>3 DEF PlanSeen
<1>7. Solitary'
  BY <1>2, <1>3, OthersOverlap DEF Solitary
<1>8. SeesRows'
  BY <1>2, <1>3, OthersOverlap DEF SeesRows
<1> QED BY <1>0, <1>4, <1>5, <1>6, <1>7, <1>8 DEF LedgerInv

\* The invariant holds at first.
LEMMA LedgerInit ==
    ASSUME L!LedgerAssumption, L!Init
    PROVE  LedgerInv
<1>1. /\ L!Idle \in L!Call /\ L!Unpaid \in L!Contract /\ L!NoPlan \in L!Plan
      /\ L!NoRecord \in L!Record /\ L!Idle.act = "none"
  BY LedgerIdleTyped
<1>2. /\ contract = L!Unpaid /\ plan = [p \in Plans |-> L!NoPlan] /\ record = [k \in Keys |-> L!NoRecord]
      /\ command = [k \in Keys |-> "NONE"] /\ request = [r \in Payers |-> L!Idle]
  BY DEF L!Init
<1>3. L!NoRecord.phase = "NONE" /\ "NONE" \notin L!Phase
  BY DEF L!NoRecord, L!Phase
<1>4. L!TypeOK
  BY <1>1, <1>2 DEF L!TypeOK
<1>5. L!ReceiptTellsTheTruth /\ PaymentsPlanned
  BY <1>2, <1>3 DEF L!ReceiptTellsTheTruth, PaymentsPlanned
<1>6. \A r \in Payers : request[r].act = "none"
  BY <1>1, <1>2
<1>7. Aimed /\ PlanSeen /\ Solitary /\ SeesRows
  BY <1>6 DEF Aimed, PlanSeen, Solitary, SeesRows, Follows, L!LedgerAssumption, L!Act
<1> QED BY <1>4, <1>5, <1>7 DEF LedgerInv

\* The invariant is about the variables only.
LEMMA LedgerStutters ==
    ASSUME LedgerInv, UNCHANGED L!vars
    PROVE  LedgerInv'
BY DEF LedgerInv, L!vars, L!TypeOK, L!ReceiptTellsTheTruth, PaymentsPlanned, Aimed, PlanSeen, Solitary,
       SeesRows, Rows, L!RecordsOf

\* The invariant is kept by every step.
LEMMA LedgerInvStep ==
    ASSUME LedgerInv, L!Next
    PROVE  LedgerInv'
BY LedgerBegins, LedgerFinishes DEF L!Next

\* The invariant of the requests holds always.
LEMMA LedgerInvAlways ==
    ASSUME L!LedgerAssumption
    PROVE  L!Spec => []LedgerInv
<1>1. L!Init => LedgerInv
  BY LedgerInit
<1>2. LedgerInv /\ [L!Next]_L!vars => LedgerInv'
  BY LedgerInvStep, LedgerStutters
<1> QED BY <1>1, <1>2, PTL DEF L!Spec

\* Contracts, plans, payments, receipts and requests keep their types, for any number
\* of requests, plans and keys, and whatever overlaps.
THEOREM LedgerTypeCorrect ==
    ASSUME L!LedgerAssumption
    PROVE  L!Spec => []L!TypeOK
<1>1. LedgerInv => L!TypeOK
  BY DEF LedgerInv
<1> QED BY <1>1, LedgerInvAlways, PTL

\* ReceiptTellsTheTruth: whatever overlaps and fails, the receipt of an idempotency key
\* (command_execution_service.py) says SUCCEEDED whenever the payment has been made, and only then.
THEOREM ReceiptsAreTrue ==
    ASSUME L!LedgerAssumption
    PROVE  L!Spec => []ReceiptTellsTheTruth
<1>1. LedgerInv => ReceiptTellsTheTruth
  BY LedgerKeepsTheBooks DEF LedgerInv
<1> QED BY <1>1, LedgerInvAlways, PTL

-----------------------------------------------------------------------------
(* Payments within their plan. *)

\* A plan whose amount is being changed has no payments.
Bare == \A r \in Payers : request[r].act = "updatePlan" => L!RecordsOf(record, request[r].plan) = {}

\* The hypothesis about what does not overlap.
ReplannedAlone == {"updatePlan"} \cap LedgerActs \subseteq LedgerAlone

\* The inductive invariant behind RecordsWithinPlan.
WithinInv == LedgerInv /\ ReplannedAlone /\ Bare /\ L!RecordsWithinPlan

\* The plans of plan' are plans of plan, with their amounts.
PlansKept == \A q \in L!PlansIn(plan') : q \in L!PlansIn(plan) /\ plan'[q].amount = plan[q].amount

\* Deriving changes no plan's amount and makes no plan.
LEMMA DerivingKeepsAmounts ==
    ASSUME LedgerInv, NEW r \in Payers, NEW plans, NEW records \in [Keys -> L!Record],
           plan[request[r].plan].status \in L!PlanStatus,
           L!Derive(r, request[r].plan, plans, records, plan)
    PROVE  PlansKept
<1>1. L!LedgerAssumption /\ L!TypeOK /\ request[r].plan \in Plans /\ plan \in [Plans -> L!Plan]
  BY CallTyped DEF LedgerInv, L!TypeOK
<1>2. \A q \in Plans : plan'[q].amount = plan[q].amount /\ (q # request[r].plan => plan'[q] = plan[q])
  BY <1>1, DeriveDoes
<1> QED BY <1>1, <1>2 DEF PlansKept, L!PlansIn

\* A plan whose payments become fewer or smaller keeps them within its amount.
LEMMA WithinWhenLess ==
    ASSUME L!LedgerAssumption, L!TypeOK, L!TypeOK', L!RecordsWithinPlan, NEW q \in L!PlansIn(plan),
           plan'[q].amount = plan[q].amount,
           \A k \in L!RecordsOf(record', q) :
              k \in L!RecordsOf(record, q) /\ record'[k].amount <= record[k].amount
    PROVE  L!Registered(record', q) <= plan'[q].amount
<1>1. record \in [Keys -> L!Record] /\ record' \in [Keys -> L!Record] /\ plan \in [Plans -> L!Plan]
  BY DEF L!TypeOK
<1>2. L!Registered(record', q) <= L!Registered(record, q)
  BY <1>1, RegisteredLess
<1>3. L!Registered(record, q) <= plan[q].amount
  BY DEF L!RecordsWithinPlan
<1>4. L!Registered(record', q) \in Nat /\ L!Registered(record, q) \in Nat
  BY <1>1, RegisteredTyped
<1>5. plan[q].amount \in Nat
  BY <1>1, BooksAssumption DEF L!PlansIn, L!Plan, BooksAssumption
<1> QED BY <1>2, <1>3, <1>4, <1>5

\* The room that was checked is the room that is used.
LEMMA WithinWhenRoom ==
    ASSUME LedgerInv, L!TypeOK', L!RecordsWithinPlan, NEW r \in Payers, NEW x \in L!Record,
           Written(request[r].key, x), x.plan = request[r].plan, x.amount = request[r].amount,
           record[request[r].key].phase = "NONE" \/ record[request[r].key].plan = request[r].plan,
           L!Room(r, request[r].key), PlansKept
    PROVE  L!RecordsWithinPlan'
<1> DEFINE k == request[r].key
           p == request[r].plan
<1>0. L!LedgerAssumption /\ L!TypeOK
  BY DEF LedgerInv
<1>1. /\ k \in Keys /\ p \in Plans /\ request[r].amount \in 0 .. Total
      /\ record \in [Keys -> L!Record] /\ record' \in [Keys -> L!Record]
      /\ plan \in [Plans -> L!Plan] /\ Total \in Nat
  BY <1>0, CallTyped, BooksAssumption DEF L!TypeOK, BooksAssumption
<1>2. record'[k] = x /\ \A j \in Keys \ {k} : record'[j] = record[j]
  BY DEF Written
<1>3. ASSUME NEW q \in L!PlansIn(plan'), k \notin L!RecordsOf(record', q)
      PROVE  L!Registered(record', q) <= plan'[q].amount
  <2>1. q \in L!PlansIn(plan) /\ plan'[q].amount = plan[q].amount
    BY DEF PlansKept
  <2>2. ASSUME NEW j \in L!RecordsOf(record', q)
        PROVE  j \in L!RecordsOf(record, q) /\ record'[j].amount <= record[j].amount
    <3>1. j \in Keys /\ j # k /\ record'[j] = record[j]
      BY <1>2, <1>3 DEF L!RecordsOf
    <3>2. record[j].amount \in Nat
      BY <1>1, <3>1 DEF L!Record
    <3> QED BY <3>1, <3>2 DEF L!RecordsOf
  <2> QED BY <1>0, <2>1, <2>2, WithinWhenLess
<1>4. ASSUME NEW q \in L!PlansIn(plan'), k \in L!RecordsOf(record', q)
      PROVE  L!Registered(record', q) <= plan'[q].amount
  <2>1. q = p
    BY <1>2, <1>4 DEF L!RecordsOf
  <2>2. \A j \in L!RecordsOf(record', p) \ {k} : j \in L!RecordsOf(record, p) /\ record'[j].amount = record[j].amount
    BY <1>2 DEF L!RecordsOf
  <2>3. L!Registered(record', p) <= L!Registered([record EXCEPT ![k].amount = 0], p) + record'[k].amount
    BY <1>0, <1>1, <1>4, <2>1, <2>2, RegisteredWithOne
  <2>4. L!Registered([record EXCEPT ![k].amount = 0], p) + request[r].amount <= plan[p].amount
    BY DEF L!Room
  <2>5. plan'[p].amount = plan[p].amount
    BY <2>1 DEF PlansKept
  <2> DEFINE others == L!Registered([record EXCEPT ![k].amount = 0], p)
  <2>6. others \in Nat
    <3>1. [record[k] EXCEPT !.amount = 0] \in L!Record
      <4>1. 0 \in 0 .. Total /\ record[k] \in L!Record
        BY <1>1
      <4> QED BY <4>1, RecordUpdates
    <3>2. [record EXCEPT ![k].amount = 0] \in [Keys -> L!Record]
      BY <1>1, <3>1
    <3> QED BY <1>0, <3>2, RegisteredTyped
  <2>7. L!Registered(record', p) \in Nat /\ plan[p].amount \in Nat /\ request[r].amount \in Nat
    BY <1>0, <1>1, RegisteredTyped DEF L!Plan
  <2> HIDE DEF others
  <2> QED BY <1>2, <2>1, <2>3, <2>4, <2>5, <2>6, <2>7 DEF others
<1> QED BY <1>3, <1>4 DEF L!RecordsWithinPlan

\* Every step of a request but its beginning keeps payments within their plans.
LEMMA FinishKeepsWithin ==
    ASSUME WithinInv, L!TypeOK', NEW r \in Payers, L!Finish(r)
    PROVE  L!RecordsWithinPlan'
<1>0. /\ LedgerInv /\ L!LedgerAssumption /\ L!TypeOK /\ L!RecordsWithinPlan /\ PaymentsPlanned /\ Aimed
      /\ record \in [Keys -> L!Record] /\ record' \in [Keys -> L!Record] /\ plan \in [Plans -> L!Plan]
  BY DEF WithinInv, LedgerInv, L!TypeOK
<1> DEFINE k == request[r].key
           p == request[r].plan
<1>00. k \in Keys /\ p \in Plans /\ request[r].seen.record \in [Keys -> L!Record]
  BY <1>0, CallTyped
<1>1. CASE L!Register(r)
  <2>1. PICK x, new \in L!Record :
              /\ Written(k, x) /\ x.plan = p /\ x.amount = request[r].amount
              /\ record[k].phase = "NONE" /\ plan[p].status \in L!PlanStatus /\ L!Room(r, k)
              /\ [request[r].seen.record EXCEPT ![k] = new] \in [Keys -> L!Record]
              /\ L!Derive(r, p, request[r].seen.plan, [request[r].seen.record EXCEPT ![k] = new], plan)
    BY <1>0, <1>1, RegisterDoes
  <2>2. PlansKept
    BY <1>0, <2>1, DerivingKeepsAmounts
  <2> QED BY <1>0, <2>1, <2>2, WithinWhenRoom
<1>2. CASE L!Correct(r)
  <2>1. /\ request[r].act \in Follows /\ record[k].phase \in L!Phase /\ L!Room(r, k)
        /\ [request[r].seen.record EXCEPT ![k].amount = request[r].amount] \in [Keys -> L!Record]
        /\ L!Derive(r, p, request[r].seen.plan, [request[r].seen.record EXCEPT ![k].amount = request[r].amount], plan)
    BY <1>0, <1>2, CorrectDoes DEF Follows
  <2>2. PICK x \in L!Record : Written(k, x) /\ x.plan = record[k].plan /\ x.amount = request[r].amount
    BY <1>0, <1>2, CorrectDoes
  <2>3. record[k].plan = p /\ plan[p].status \in L!PlanStatus
    BY <1>0, <2>1, FollowedUp
  <2>4. PlansKept
    BY <1>0, <2>1, <2>3, DerivingKeepsAmounts
  <2> QED BY <1>0, <2>1, <2>2, <2>3, <2>4, WithinWhenRoom
\* One payment is written that was there, and weighs no more.
<1>3. ASSUME PlansKept, NEW x \in L!Record, Written(k, x),
             x.phase \in L!Phase => /\ record[k].phase \in L!Phase
                                    /\ x.plan = record[k].plan /\ x.amount = record[k].amount
      PROVE  L!RecordsWithinPlan'
  <2> SUFFICES ASSUME NEW q \in L!PlansIn(plan') PROVE L!Registered(record', q) <= plan'[q].amount
    BY DEF L!RecordsWithinPlan
  <2>1. q \in L!PlansIn(plan) /\ plan'[q].amount = plan[q].amount
    BY <1>3 DEF PlansKept
  <2>2. record'[k] = x /\ \A j \in Keys \ {k} : record'[j] = record[j]
    BY <1>3 DEF Written
  <2>3. \A j \in Keys : record[j].amount \in Nat
    BY <1>0 DEF L!Record
  <2>4. \A j \in L!RecordsOf(record', q) : j \in L!RecordsOf(record, q) /\ record'[j].amount = record[j].amount
    BY <1>3, <2>2 DEF L!RecordsOf
  <2>5. \A j \in L!RecordsOf(record', q) : j \in L!RecordsOf(record, q) /\ record'[j].amount <= record[j].amount
    BY <2>3, <2>4 DEF L!RecordsOf
  <2> QED BY <1>0, <2>1, <2>5, WithinWhenLess
<1>4. CASE L!Remove(r)
  <2>1. /\ request[r].act \in Follows /\ record[k].phase \in L!Phase
        /\ [request[r].seen.record EXCEPT ![k].phase = "DELETED"] \in [Keys -> L!Record]
        /\ L!Derive(r, p, request[r].seen.plan, [request[r].seen.record EXCEPT ![k].phase = "DELETED"], plan)
    BY <1>0, <1>4, RemoveDoes DEF Follows
  <2>2. PICK x \in L!Record : Written(k, x) /\ x.phase = "DELETED"
    BY <1>0, <1>4, RemoveDoes
  <2>3. PlansKept
    BY <1>0, <2>1, FollowedUp, DerivingKeepsAmounts
  <2>4. x.phase \notin L!Phase
    BY <2>2 DEF L!Phase
  <2> QED BY <1>3, <2>2, <2>3, <2>4
<1>5. CASE L!Decide(r)
  <2>1. request[r].act \in Follows /\ record[k].phase \in L!Phase
    BY <1>0, <1>5, DecideDoes DEF Follows, L!Phase
  <2>2. PICK x \in L!Record :
           /\ Written(k, x) /\ x.plan = record[k].plan /\ x.amount = record[k].amount
           /\ [request[r].seen.record EXCEPT ![k] = x] \in [Keys -> L!Record]
           /\ L!Derive(r, p, request[r].seen.plan, [request[r].seen.record EXCEPT ![k] = x], plan)
    BY <1>0, <1>5, DecideDoes
  <2>3. PlansKept
    BY <1>0, <2>1, <2>2, FollowedUp, DerivingKeepsAmounts
  <2> QED BY <1>3, <2>1, <2>2, <2>3
<1>6. CASE L!Submit(r)
  <2>1. record[k].phase \in L!Phase /\ plan' = plan
    BY <1>0, <1>6, SubmitDoes DEF L!Phase
  <2>2. PICK x \in L!Record : Written(k, x) /\ x.plan = record[k].plan /\ x.amount = record[k].amount
    BY <1>0, <1>6, SubmitDoes
  <2>3. PlansKept
    BY <2>1 DEF PlansKept
  <2> QED BY <1>3, <2>1, <2>2, <2>3
\* A plan without payments has nothing to exceed.
<1>7. ASSUME L!RecordsOf(record, p) = {}, record' = record,
             \A q \in Plans \ {p} : plan'[q] = plan[q]
      PROVE  L!RecordsWithinPlan'
  <2> SUFFICES ASSUME NEW q \in L!PlansIn(plan') PROVE L!Registered(record', q) <= plan'[q].amount
    BY DEF L!RecordsWithinPlan
  <2>1. CASE q = p
    <3>1. L!Registered(record', p) = 0
      BY <1>0, <1>7, RegisteredTyped
    <3>2. plan'[p].amount \in Nat
      BY <1>0, <1>00, BooksAssumption DEF L!TypeOK, L!Plan, BooksAssumption
    <3> QED BY <2>1, <3>1, <3>2
  <2>2. CASE q # p
    <3>1. plan'[q] = plan[q] /\ q \in L!PlansIn(plan)
      BY <1>7, <2>2 DEF L!PlansIn
    <3> QED BY <1>0, <1>7, <3>1 DEF L!RecordsWithinPlan
  <2> QED BY <2>1, <2>2
<1>8. CASE L!CreatePlan(r)
  <2>1. /\ plan[p].status = "NONE" /\ record' = record /\ \A q \in Plans \ {p} : plan'[q] = plan[q]
    BY <1>0, <1>8, CreatePlanDoes
  <2>2. "NONE" \notin L!PlanStatus
    BY DEF L!PlanStatus
  <2>3. L!RecordsOf(record, p) = {}
    BY <1>0, <2>1, <2>2 DEF L!RecordsOf, PaymentsPlanned
  <2> QED BY <1>7, <2>1, <2>3
<1>9. CASE L!UpdatePlan(r)
  <2>1. request[r].act = "updatePlan" /\ record' = record
    BY <1>0, <1>9, UpdatePlanDoes
  <2>2. L!RecordsOf(record, p) = {}
    BY <2>1 DEF WithinInv, Bare
  <2>3. PICK base \in [Plans -> L!Plan] :
           /\ plan[p].status \in L!PlanStatus
           /\ \A q \in Plans : base[q].status = plan[q].status /\ (q # p => base[q] = plan[q])
           /\ L!Derive(r, p, [request[r].seen.plan EXCEPT ![p].amount = request[r].amount],
                       request[r].seen.record, base)
    BY <1>0, <1>9, UpdatePlanDoes
  <2>4. base[p].status \in L!PlanStatus
    BY <1>00, <2>3
  <2>5. \A q \in Plans : q # p => plan'[q] = base[q]
    <3> DEFINE plans == [request[r].seen.plan EXCEPT ![p].amount = request[r].amount]
    <3>1. L!Derive(r, p, plans, request[r].seen.record, base)
      BY <2>3
    <3> HIDE DEF plans
    <3> DEFINE records == request[r].seen.record
    <3>2. L!LedgerAssumption /\ L!TypeOK /\ p \in Plans /\ records \in [Keys -> L!Record]
      BY <1>0, <1>00
    <3> HIDE DEF p, records
    <3>3. \A q \in Plans : plan'[q].amount = base[q].amount /\ (q # p => plan'[q] = base[q])
      BY <2>4, <3>1, <3>2, DeriveDoes DEF records
    <3> QED BY <3>3
  <2>6. \A q \in Plans \ {p} : plan'[q] = plan[q]
    BY <2>3, <2>5
  <2> QED BY <1>7, <2>1, <2>2, <2>6
<1>10. CASE L!DeletePlan(r)
  <2>1. /\ plan'[p].status = "DELETED"
        /\ \A q \in Plans \ {p} : plan'[q] = plan[q]
        /\ \A j \in Keys : IF j \in L!RecordsOf(record, p)
                           THEN record'[j].phase = "DELETED" /\ record'[j].plan = record[j].plan
                           ELSE record'[j] = record[j]
    BY <1>0, <1>10, DeletePlanDoes
  <2> SUFFICES ASSUME NEW q \in L!PlansIn(plan') PROVE L!Registered(record', q) <= plan'[q].amount
    BY DEF L!RecordsWithinPlan
  <2>2. q # p
    BY <2>1 DEF L!PlansIn, L!PlanStatus
  <2>3. plan'[q] = plan[q] /\ q \in L!PlansIn(plan)
    BY <2>1, <2>2 DEF L!PlansIn
  <2>4. \A j \in L!RecordsOf(record', q) : j \in L!RecordsOf(record, q) /\ record'[j] = record[j]
    BY <2>1 DEF L!RecordsOf, L!Phase
  <2>5. \A j \in Keys : record[j].amount \in Nat
    BY <1>0 DEF L!Record
  <2>6. \A j \in L!RecordsOf(record', q) : j \in L!RecordsOf(record, q) /\ record'[j].amount <= record[j].amount
    BY <2>4, <2>5 DEF L!RecordsOf
  <2> QED BY <1>0, <2>3, <2>6, WithinWhenLess
<1>11. CASE L!PersistFailure(r) \/ L!RegisterFails(r) \/ L!Refuse(r)
  <2>1. plan' = plan /\ record' = record
    BY <1>11 DEF L!PersistFailure, L!RegisterFails, L!Refuse
  <2> QED BY <1>0, <2>1 DEF L!RecordsWithinPlan
<1> QED BY <1>1, <1>2, <1>4, <1>5, <1>6, <1>8, <1>9, <1>10, <1>11 DEF L!Finish

\* Payments stay within their plans in every step.
LEMMA WithinInvStep ==
    ASSUME WithinInv, [L!Next]_L!vars
    PROVE  WithinInv'
<1>0. LedgerInv /\ ReplannedAlone /\ Bare /\ L!RecordsWithinPlan /\ L!TypeOK
  BY DEF WithinInv, LedgerInv
<1>1. LedgerInv' /\ L!TypeOK'
  <2>1. LedgerInv'
    BY <1>0, LedgerInvStep, LedgerStutters
  <2> QED BY <2>1 DEF LedgerInv
<1>2. CASE UNCHANGED L!vars
  BY <1>0, <1>1, <1>2 DEF WithinInv, L!vars, Bare, L!RecordsWithinPlan, ReplannedAlone
<1>3. ASSUME NEW r \in Payers, NEW act \in LedgerActs, NEW p \in Plans, NEW k \in Keys,
             NEW a \in 0 .. Total, L!Begin(r, act, p, k, a)
      PROVE  WithinInv'
  <2> DEFINE call == [act |-> act, plan |-> p, key |-> k, amount |-> a, seen |-> Rows]
  <2>1. /\ L!Admissible(act, p, k, a) /\ request' = [request EXCEPT ![r] = call]
        /\ plan' = plan /\ record' = record
    BY <1>3 DEF L!Begin, Rows
  <2>2. call.act = act /\ call.plan = p
    OBVIOUS
  <2> HIDE DEF call
  <2>3. request'[r] = call /\ \A q \in Payers \ {r} : request'[q] = request[q]
    BY <1>0, <2>1 DEF L!TypeOK
  <2>4. act = "updatePlan" => L!RecordsOf(record, p) = {}
    BY <2>1 DEF L!Admissible
  <2>5. Bare'
    BY <1>0, <2>1, <2>2, <2>3, <2>4 DEF Bare
  <2>6. L!RecordsWithinPlan'
    BY <1>0, <2>1 DEF L!RecordsWithinPlan
  <2> QED BY <1>0, <1>1, <2>5, <2>6 DEF WithinInv, ReplannedAlone
<1>4. ASSUME NEW r \in Payers, L!Finish(r)
      PROVE  WithinInv'
  <2>1. L!RecordsWithinPlan'
    BY <1>1, <1>4, FinishKeepsWithin
  <2>2. /\ request[r].act # "none" /\ request'[r].act # "updatePlan"
        /\ \A q \in Payers \ {r} : request'[q] = request[q]
    BY <1>0, <1>4, FinishEnds DEF Ended
  <2>3. \A q \in Payers \ {r} : request[q].act # "updatePlan"
    <3> SUFFICES ASSUME NEW q \in Payers \ {r}, request[q].act = "updatePlan" PROVE FALSE
      OBVIOUS
    <3>1. "updatePlan" \in LedgerActs
      BY <1>0 DEF L!TypeOK, L!Call
    <3>2. "updatePlan" \in LedgerAlone
      BY <1>0, <3>1 DEF ReplannedAlone
    <3> QED BY <1>0, <2>2, <3>2, OthersOverlap
  <2>4. Bare'
    BY <2>2, <2>3 DEF Bare
  <2> QED BY <1>0, <1>1, <2>1, <2>4 DEF WithinInv, ReplannedAlone
<1> QED BY <1>2, <1>3, <1>4 DEF L!Next

\* RecordsWithinPlan: whatever else overlaps, the payments registered for a plan never
\* exceed its amount (crud/payment.py, create and update under the lock of the plan),
\* provided no other request is on its way while a plan's amount is updated.
THEOREM PaymentsStayWithinPlan ==
    ASSUME L!LedgerAssumption, {"updatePlan"} \cap LedgerActs \subseteq LedgerAlone
    PROVE  L!Spec => []RecordsWithinPlan
<1>1. L!Init => WithinInv
  <2> SUFFICES ASSUME L!Init PROVE WithinInv
    OBVIOUS
  <2>1. LedgerInv
    BY LedgerInit
  <2>2. L!PlansIn(plan) = {}
    BY DEF L!Init, L!PlansIn, L!NoPlan, L!PlanStatus
  <2>3. Bare
    <3>1. L!Idle.act = "none"
      BY LedgerIdleTyped
    <3> QED BY <3>1 DEF L!Init, Bare
  <2> QED BY <2>1, <2>2, <2>3 DEF WithinInv, ReplannedAlone, L!RecordsWithinPlan
<1>2. WithinInv /\ [L!Next]_L!vars => WithinInv'
  BY WithinInvStep
<1>3. WithinInv => RecordsWithinPlan
  BY LedgerKeepsTheBooks DEF WithinInv
<1> QED BY <1>1, <1>2, <1>3, PTL DEF L!Spec

-----------------------------------------------------------------------------
(* What is claimed to be paid. *)

\* All plans of x are in y, and all approved payments of a in b, as they are.
Below(x, a, y, b) ==
    /\ \A p \in L!PlansIn(x) : p \in L!PlansIn(y) /\ y[p].amount = x[p].amount
    /\ \A k \in Keys : a[k].phase = "APPROVED" =>
          b[k].phase = "APPROVED" /\ b[k].plan = a[k].plan /\ b[k].amount = a[k].amount

\* What a request has seen is still there.
Behind ==
    \A r \in Payers : request[r].act # "none" =>
        Below(request[r].seen.plan, request[r].seen.record, plan, record)

\* What takes something away of plans and approved payments, or changes it.
Undoing == {"updatePlan", "deletePlan", "correct", "remove"}

\* The hypothesis about what does not overlap.
UndoneAlone == Undoing \cap LedgerActs \subseteq LedgerAlone

\* The inductive invariant behind NeverOverstated.
ClaimInv == LedgerInv /\ UndoneAlone /\ Behind /\ L!NeverOverstated

\* Below is reflexive.
LEMMA BelowItself ==
    ASSUME NEW x, NEW a
    PROVE  Below(x, a, x, a)
BY DEF Below

\* Below is transitive.
LEMMA BelowFurther ==
    ASSUME NEW x, NEW a, NEW y, NEW b, NEW z, NEW c, Below(x, a, y, b), Below(y, b, z, c)
    PROVE  Below(x, a, z, c)
BY DEF Below

\* What is below has no more approved, for a plan or in all.
LEMMA BelowApproved ==
    ASSUME L!LedgerAssumption, NEW a \in [Keys -> L!Record], NEW b \in [Keys -> L!Record],
           NEW x, NEW y, Below(x, a, y, b)
    PROVE  /\ \A p : L!Approved(a, p) <= L!Approved(b, p)
           /\ L!Paid(x, a) <= L!Paid(y, b)
<1>1. ASSUME NEW p PROVE L!Approved(a, p) <= L!Approved(b, p)
  <2>1. "APPROVED" \in L!Phase
    BY DEF L!Phase
  <2>2. \A k \in ApprovedOf(a, p) : k \in ApprovedOf(b, p) /\ a[k].amount = b[k].amount
    BY <2>1 DEF ApprovedOf, L!RecordsOf, Below
  <2>3. \A k \in ApprovedOf(a, p) : k \in ApprovedOf(b, p) /\ a[k].amount <= b[k].amount
    <3>1. \A k \in ApprovedOf(a, p) : a[k].amount \in Nat
      BY AmountsTyped
    <3> QED BY <2>2, <3>1
  <2> QED BY <2>3, ApprovedLess
<1>2. \A p \in L!PlansIn(x) : p \in L!PlansIn(y) /\ L!Approved(a, p) <= L!Approved(b, p)
  BY <1>1 DEF Below
<1> QED BY <1>1, <1>2, PaidLess

\* The status derived for a plan bounds what is approved for it.
LEMMA StatusTellsApproved ==
    ASSUME NEW x, NEW a, NEW p
    PROVE  /\ L!StatusOf(x, a, p) = "COMPLETED" => L!Approved(a, p) >= x[p].amount
           /\ L!StatusOf(x, a, p) = "PARTIAL" => L!Approved(a, p) \in 1 .. x[p].amount - 1
BY DEF L!StatusOf

\* Another status leaves the plans and their amounts.
LEMMA StatusSet ==
    ASSUME NEW x \in [Plans -> L!Plan], NEW p \in Plans, NEW s \in L!PlanStatus, NEW y,
           y = [x EXCEPT ![p].status = s]
    PROVE  /\ \A q \in Plans \ {p} : y[q] = x[q]
           /\ y[p].status \in L!PlanStatus /\ y[p].amount = x[p].amount
<1>1. /\ [x[p] EXCEPT !.status = s].status = s
      /\ [x[p] EXCEPT !.status = s].amount = x[p].amount
  BY PlanUpdates
<1>2. \A q \in Plans : IF q = p THEN y[q] = [x[p] EXCEPT !.status = s] ELSE y[q] = x[q]
  OBVIOUS
<1> QED BY <1>1, <1>2

\* Setting the status of a plan that is there leaves the set of plans as it is.
LEMMA StatusKeepsPlans ==
    ASSUME NEW x, NEW p \in Plans, x[p].status \in L!PlanStatus, NEW y,
           \A q \in Plans \ {p} : y[q] = x[q],
           y[p].status \in L!PlanStatus /\ y[p].amount = x[p].amount
    PROVE  /\ L!PlansIn(y) = L!PlansIn(x)
           /\ \A q \in Plans : y[q].amount = x[q].amount
BY DEF L!PlansIn

\* The claims of what stays stay true, when payments and plans are only added.
LEMMA ClaimsGrow ==
    ASSUME LedgerInv, L!TypeOK', L!NeverOverstated, Below(plan, record, plan', record'),
           \/ contract'.total_paid_amount = contract.total_paid_amount
           \/ contract'.total_paid_amount <= L!Paid(plan', record'),
           \A q \in L!PlansIn(plan') :
              \/ q \in L!PlansIn(plan) /\ plan'[q].status = plan[q].status
              \/ /\ plan'[q].status = "COMPLETED" => L!Approved(record', q) >= plan'[q].amount
                 /\ plan'[q].status = "PARTIAL" => L!Approved(record', q) > 0
    PROVE  L!NeverOverstated'
<1>0. /\ L!LedgerAssumption /\ record \in [Keys -> L!Record] /\ record' \in [Keys -> L!Record]
      /\ plan \in [Plans -> L!Plan] /\ plan' \in [Plans -> L!Plan]
      /\ contract.total_paid_amount \in Nat /\ contract'.total_paid_amount \in Nat
  BY DEF LedgerInv, L!TypeOK, L!Contract
<1>1. /\ \A p : L!Approved(record, p) <= L!Approved(record', p)
      /\ L!Paid(plan, record) <= L!Paid(plan', record')
  BY <1>0, BelowApproved
<1>2. /\ L!Paid(plan, record) \in Nat /\ L!Paid(plan', record') \in Nat
      /\ \A p : L!Approved(record, p) \in Nat /\ L!Approved(record', p) \in Nat
  BY <1>0, PaidTyped, RegisteredTyped
<1>3. contract'.total_paid_amount <= L!Paid(plan', record')
  BY <1>0, <1>1, <1>2 DEF L!NeverOverstated
<1>4. ASSUME NEW q \in L!PlansIn(plan')
      PROVE  /\ plan'[q].status = "COMPLETED" => L!Approved(record', q) >= plan'[q].amount
             /\ plan'[q].status = "PARTIAL" => L!Approved(record', q) > 0
  <2>1. CASE q \in L!PlansIn(plan) /\ plan'[q].status = plan[q].status
    <3>1. plan'[q].amount = plan[q].amount /\ plan[q].amount \in Nat
      BY <1>0, <2>1, BooksAssumption DEF Below, L!PlansIn, L!Plan, BooksAssumption
    <3>2. /\ plan[q].status = "COMPLETED" => L!Approved(record, q) >= plan[q].amount
          /\ plan[q].status = "PARTIAL" => L!Approved(record, q) > 0
      BY <2>1 DEF L!NeverOverstated
    <3>3. /\ L!Approved(record, q) <= L!Approved(record', q)
          /\ L!Approved(record, q) \in Nat /\ L!Approved(record', q) \in Nat
      BY <1>1, <1>2
    <3> QED BY <2>1, <3>1, <3>2, <3>3
  <2> QED BY <2>1
<1> QED BY <1>3, <1>4 DEF L!NeverOverstated

\* Deriving from what is behind claims no more than there is.
LEMMA DerivingFromBehind ==
    ASSUME LedgerInv, L!TypeOK', L!NeverOverstated, NEW r \in Payers,
           NEW plans \in [Plans -> L!Plan], NEW records \in [Keys -> L!Record],
           plan[request[r].plan].status \in L!PlanStatus, plans[request[r].plan].status \in L!PlanStatus,
           L!Derive(r, request[r].plan, plans, records, plan),
           Below(plan, record, plan, record'), Below(plans, records, plan, record')
    PROVE  L!NeverOverstated' /\ Below(plan, record, plan', record')
<1> DEFINE p == request[r].plan
           status == L!StatusOf(plans, records, p)
<1>0. /\ L!LedgerAssumption /\ L!TypeOK /\ p \in Plans /\ plan \in [Plans -> L!Plan]
      /\ record' \in [Keys -> L!Record] /\ contract'.total_paid_amount \in Nat
  BY CallTyped DEF LedgerInv, L!TypeOK, L!Contract
<1>1. /\ contract'.total_paid_amount \in {contract.total_paid_amount, DerivedPaid(p, plans, records)}
      /\ \A q \in Plans : plan'[q].amount = plan[q].amount /\ (q # p => plan'[q] = plan[q])
      /\ plan'[p].status \in {plan[p].status, status}
      /\ plan'[p].status \in L!PlanStatus
  BY <1>0, DeriveDoes
<1>2. \A q \in L!PlansIn(plan) : q \in L!PlansIn(plan') /\ plan'[q].amount = plan[q].amount
  BY <1>1 DEF L!PlansIn
<1>3. \A q \in L!PlansIn(plan') : q \in L!PlansIn(plan)
  BY <1>1 DEF L!PlansIn
<1>4. Below(plan, record, plan', record') /\ Below(plans, records, plan', record')
  BY <1>2 DEF Below
<1>5. status \in L!PlanStatus
  BY StatusIsOne
<1>6. DerivedPaid(p, plans, records) <= L!Paid(plan', record')
  <2> DEFINE derived == [plans EXCEPT ![p].status = status]
  <2>1. /\ L!PlansIn(derived) = L!PlansIn(plans)
        /\ \A q \in Plans : derived[q].amount = plans[q].amount
    <3>1. p \in Plans /\ plans[p].status \in L!PlanStatus
      BY <1>0
    <3> HIDE DEF p, status
    <3>2. /\ \A q \in Plans \ {p} : derived[q] = plans[q]
          /\ derived[p].status \in L!PlanStatus /\ derived[p].amount = plans[p].amount
      BY <1>5, <3>1, StatusSet
    <3> HIDE DEF derived
    <3> QED BY <3>1, <3>2, StatusKeepsPlans
  <2> HIDE DEF derived
  <2>2. Below(derived, records, plan', record')
    BY <1>4, <2>1 DEF Below, L!PlansIn
  <2>3. L!Paid(derived, records) <= L!Paid(plan', record')
    BY <1>0, <2>2, BelowApproved
  <2> QED BY <2>3 DEF DerivedPaid, derived
<1>7. ASSUME plan'[p].status = status
      PROVE  /\ plan'[p].status = "COMPLETED" => L!Approved(record', p) >= plan'[p].amount
             /\ plan'[p].status = "PARTIAL" => L!Approved(record', p) > 0
  <2>1. /\ L!Approved(records, p) \in Nat /\ L!Approved(record', p) \in Nat
        /\ L!Approved(records, p) <= L!Approved(record', p)
    BY <1>0, <1>4, BelowApproved, RegisteredTyped
  <2>2. plans[p].amount = plan'[p].amount /\ plans[p].amount \in Nat
    BY <1>0, <1>4, BooksAssumption DEF Below, L!PlansIn, L!Plan, BooksAssumption
  <2>3. /\ status = "COMPLETED" => L!Approved(records, p) >= plans[p].amount
        /\ status = "PARTIAL" => L!Approved(records, p) \in 1 .. plans[p].amount - 1
    BY StatusTellsApproved
  <2> HIDE DEF status, p
  <2> QED BY <1>7, <2>1, <2>2, <2>3
<1> HIDE DEF status, p
<1>8. \A q \in L!PlansIn(plan') :
              \/ q \in L!PlansIn(plan) /\ plan'[q].status = plan[q].status
              \/ /\ plan'[q].status = "COMPLETED" => L!Approved(record', q) >= plan'[q].amount
                 /\ plan'[q].status = "PARTIAL" => L!Approved(record', q) > 0
  <2> SUFFICES ASSUME NEW q \in L!PlansIn(plan'), plan'[q].status # plan[q].status
               PROVE  /\ plan'[q].status = "COMPLETED" => L!Approved(record', q) >= plan'[q].amount
                      /\ plan'[q].status = "PARTIAL" => L!Approved(record', q) > 0
    BY <1>3
  <2>1. q = p
    BY <1>1 DEF L!PlansIn
  <2> QED BY <1>1, <1>7, <2>1
<1>9. L!NeverOverstated'
  BY <1>1, <1>4, <1>6, <1>8, ClaimsGrow
<1> QED BY <1>4, <1>9

\* Deriving from what there is claims what there is.
LEMMA DerivingExactly ==
    ASSUME LedgerInv, L!TypeOK', L!NeverOverstated, NEW r \in Payers, request[r].seen = Rows,
           NEW base \in [Plans -> L!Plan],
           \A q \in Plans : base[q].status = plan[q].status /\ (q # request[r].plan => base[q] = plan[q]),
           plan[request[r].plan].status \in L!PlanStatus,
           \A q \in Plans \ {request[r].plan} : L!Approved(record, q) <= L!Approved(record', q),
           NEW records, records = record', L!Derive(r, request[r].plan, base, records, base)
    PROVE  L!NeverOverstated'
<1> DEFINE p == request[r].plan
           status == L!StatusOf(base, records, p)
           derived == [base EXCEPT ![p].status = status]
<1>0. /\ L!LedgerAssumption /\ L!TypeOK /\ p \in Plans /\ plan \in [Plans -> L!Plan]
      /\ record \in [Keys -> L!Record] /\ record' \in [Keys -> L!Record] /\ records \in [Keys -> L!Record]
  BY CallTyped DEF LedgerInv, L!TypeOK
<1>1. /\ request[r].seen.contract = contract /\ request[r].seen.plan[p].status = base[p].status
      /\ base[p].status \in L!PlanStatus
  BY <1>0 DEF Rows
<1>2. /\ contract'.total_paid_amount = DerivedPaid(p, base, records)
      /\ \A q \in Plans : plan'[q].amount = base[q].amount /\ (q # p => plan'[q] = base[q])
      /\ plan'[p].status = status
  <2>1. L!Derive(r, p, base, records, base)
    OBVIOUS
  <2> HIDE DEF p
  <2>2. /\ request[r].seen.contract = contract =>
              contract'.total_paid_amount = DerivedPaid(p, base, records)
        /\ \A q \in Plans : plan'[q].amount = base[q].amount /\ (q # p => plan'[q] = base[q])
        /\ request[r].seen.plan[p].status = base[p].status =>
              plan'[p].status = L!StatusOf(base, records, p)
    BY <1>0, <1>1, <2>1, DeriveDoes, SMTT(60)
  <2> QED BY <1>1, <2>2
<1>3. status \in L!PlanStatus
  BY StatusIsOne
<1>4. L!PlansIn(derived) = L!PlansIn(base)
  <2> HIDE DEF p, status
  <2>1. /\ \A q \in Plans \ {p} : derived[q] = base[q]
        /\ derived[p].status \in L!PlanStatus /\ derived[p].amount = base[p].amount
    BY <1>0, <1>3, StatusSet
  <2> HIDE DEF derived
  <2> QED BY <1>0, <1>1, <2>1, StatusKeepsPlans
<1>5. contract'.total_paid_amount <= L!Paid(plan', record')
  <2>1. \A q \in L!PlansIn(base) : q \in L!PlansIn(plan')
    BY <1>2, <1>3 DEF L!PlansIn
  <2>2. \A q : L!Approved(record', q) <= L!Approved(record', q)
    BY <1>0, RegisteredTyped
  <2> HIDE DEF derived
  <2>3. L!Paid(derived, record') <= L!Paid(plan', record')
    BY <1>0, <1>4, <2>1, <2>2, PaidLess
  <2> QED BY <1>2, <2>3 DEF DerivedPaid, derived
<1> HIDE DEF derived
<1>6. ASSUME NEW q \in L!PlansIn(plan')
      PROVE  /\ plan'[q].status = "COMPLETED" => L!Approved(record', q) >= plan'[q].amount
             /\ plan'[q].status = "PARTIAL" => L!Approved(record', q) > 0
  <2>0. L!Approved(record, q) \in Nat /\ L!Approved(record', q) \in Nat
    BY <1>0, RegisteredTyped
  <2>1. CASE q = p
    <3>1. /\ status = "COMPLETED" => L!Approved(record', p) >= base[p].amount
          /\ status = "PARTIAL" => L!Approved(record', p) \in 1 .. base[p].amount - 1
      BY StatusTellsApproved
    <3>2. base[p].amount \in Nat
      BY <1>0, BooksAssumption DEF L!Plan, BooksAssumption
    <3> HIDE DEF status, p
    <3> QED BY <1>0, <1>2, <2>0, <2>1, <3>1, <3>2
  <2>2. CASE q # p
    <3>1. q \in L!PlansIn(plan) /\ plan'[q] = plan[q]
      BY <1>2, <2>2 DEF L!PlansIn
    <3>2. /\ plan[q].status = "COMPLETED" => L!Approved(record, q) >= plan[q].amount
          /\ plan[q].status = "PARTIAL" => L!Approved(record, q) > 0
      BY <3>1 DEF L!NeverOverstated
    <3>3. L!Approved(record, q) <= L!Approved(record', q) /\ plan[q].amount \in Nat
      BY <1>0, <2>2, <3>1, BooksAssumption DEF L!PlansIn, L!Plan, BooksAssumption
    <3> QED BY <2>0, <3>1, <3>2, <3>3
  <2> QED BY <2>1, <2>2
<1> QED BY <1>5, <1>6 DEF L!NeverOverstated

\* Adding a payment, submitting one and deciding one that is under review take
\* nothing away.
LEMMA WritingGrows ==
    ASSUME LedgerInv, NEW k \in Keys, NEW x \in L!Record, Written(k, x), record[k].phase # "APPROVED"
    PROVE  /\ Below(plan, record, plan, record')
           /\ \A plans, records, y :
                 /\ Below(plans, records, plan, record)
                 /\ records \in [Keys -> L!Record] /\ y \in L!Record /\ (y.phase = "DRAFT" \/ y = x)
                 => Below(plans, [records EXCEPT ![k] = y], plan, record')
<1>1. record'[k] = x /\ \A j \in Keys \ {k} : record'[j] = record[j]
  BY DEF Written
<1>2. Below(plan, record, plan, record')
  BY <1>1 DEF Below
<1>3. ASSUME NEW plans, NEW records \in [Keys -> L!Record], NEW y \in L!Record,
             Below(plans, records, plan, record), y.phase = "DRAFT" \/ y = x
      PROVE  Below(plans, [records EXCEPT ![k] = y], plan, record')
  <2> DEFINE mine == [records EXCEPT ![k] = y]
  <2>1. mine[k] = y /\ \A j \in Keys \ {k} : mine[j] = records[j]
    OBVIOUS
  <2> HIDE DEF mine
  <2>2. Below(plans, mine, plan, record')
    BY <1>1, <1>3, <2>1 DEF Below
  <2> QED BY <2>2 DEF mine
<1> QED BY <1>2, <1>3

\* The steps that take nothing away: what is claimed stays covered, even if it was
\* derived from a snapshot that lacks what the others did.
LEMMA GrowingSteps ==
    ASSUME ClaimInv, L!TypeOK', NEW r \in Payers,
           L!Register(r) \/ L!Decide(r) \/ L!Submit(r) \/ L!CreatePlan(r)
           \/ L!PersistFailure(r) \/ L!RegisterFails(r) \/ L!Refuse(r)
    PROVE  L!NeverOverstated' /\ Below(plan, record, plan', record')
<1> DEFINE k == request[r].key
           p == request[r].plan
<1>0. /\ LedgerInv /\ L!LedgerAssumption /\ L!TypeOK /\ L!NeverOverstated /\ Behind /\ PlanSeen
      /\ k \in Keys /\ p \in Plans /\ record \in [Keys -> L!Record] /\ plan \in [Plans -> L!Plan]
      /\ request[r].seen.record \in [Keys -> L!Record] /\ request[r].seen.plan \in [Plans -> L!Plan]
  BY CallTyped DEF ClaimInv, LedgerInv, L!TypeOK
<1>1. ASSUME request[r].act \in Follows \cup {"register"},
             plan[p].status \in L!PlanStatus, record[k].phase # "APPROVED",
             NEW x \in L!Record, Written(k, x), NEW y \in L!Record, y.phase = "DRAFT" \/ y = x,
             [request[r].seen.record EXCEPT ![k] = y] \in [Keys -> L!Record],
             L!Derive(r, p, request[r].seen.plan, [request[r].seen.record EXCEPT ![k] = y], plan)
      PROVE  L!NeverOverstated' /\ Below(plan, record, plan', record')
  <2> DEFINE mine == [request[r].seen.record EXCEPT ![k] = y]
             sees == request[r].seen.plan
  <2>1. sees[p].status \in L!PlanStatus
    BY <1>0, <1>1 DEF PlanSeen
  <2>2. Below(sees, request[r].seen.record, plan, record)
    BY <1>0, <1>1 DEF Behind, Follows
  <2>3. Below(plan, record, plan, record') /\ Below(sees, mine, plan, record')
    BY <1>0, <1>1, <2>2, WritingGrows
  <2>4. mine \in [Keys -> L!Record] /\ sees \in [Plans -> L!Plan]
        /\ L!Derive(r, p, sees, mine, plan)
    BY <1>0, <1>1
  <2> HIDE DEF mine, sees
  <2> QED BY <1>0, <1>1, <2>1, <2>3, <2>4, DerivingFromBehind
<1>2. CASE L!Register(r)
  <2>1. PICK x, new \in L!Record :
              /\ Written(k, x) /\ new.phase = "DRAFT" /\ record[k].phase = "NONE"
              /\ plan[p].status \in L!PlanStatus
              /\ [request[r].seen.record EXCEPT ![k] = new] \in [Keys -> L!Record]
              /\ L!Derive(r, p, request[r].seen.plan, [request[r].seen.record EXCEPT ![k] = new], plan)
    BY <1>0, <1>2, RegisterDoes
  <2>2. request[r].act = "register"
    BY <1>2 DEF L!Register
  <2> QED BY <1>1, <2>1, <2>2
<1>3. CASE L!Decide(r)
  <2>1. request[r].act \in Follows /\ record[k].phase = "PENDING_REVIEW"
    BY <1>0, <1>3, DecideDoes DEF Follows
  <2>2. PICK x \in L!Record :
           /\ Written(k, x)
           /\ [request[r].seen.record EXCEPT ![k] = x] \in [Keys -> L!Record]
           /\ L!Derive(r, p, request[r].seen.plan, [request[r].seen.record EXCEPT ![k] = x], plan)
    BY <1>0, <1>3, DecideDoes
  <2>3. plan[p].status \in L!PlanStatus
    BY <1>0, <2>1, FollowedUp DEF L!Phase
  <2> QED BY <1>1, <2>1, <2>2, <2>3
<1>4. ASSUME plan' = plan, contract' = contract, Below(plan, record, plan, record')
      PROVE  L!NeverOverstated' /\ Below(plan, record, plan', record')
  <2>1. Below(plan, record, plan', record')
    BY <1>4
  <2>2. contract'.total_paid_amount = contract.total_paid_amount
        /\ \A q \in L!PlansIn(plan') : q \in L!PlansIn(plan) /\ plan'[q].status = plan[q].status
    BY <1>4
  <2> QED BY <1>0, <2>1, <2>2, ClaimsGrow
<1>5. CASE L!Submit(r)
  <2>1. record[k].phase # "APPROVED" /\ contract' = contract /\ plan' = plan
    BY <1>0, <1>5, SubmitDoes
  <2>2. PICK x \in L!Record : Written(k, x)
    BY <1>0, <1>5, SubmitDoes
  <2> QED BY <1>0, <1>4, <2>1, <2>2, WritingGrows
<1>6. CASE L!CreatePlan(r)
  <2>1. /\ plan[p].status = "NONE" /\ plan'[p].status = "PENDING"
        /\ \A q \in Plans \ {p} : plan'[q] = plan[q]
        /\ contract' = contract /\ record' = record
    BY <1>0, <1>6, CreatePlanDoes
  <2>2. Below(plan, record, plan', record')
    BY <2>1 DEF Below, L!PlansIn, L!PlanStatus
  <2>3. \A q \in L!PlansIn(plan') : \/ q \in L!PlansIn(plan) /\ plan'[q].status = plan[q].status
                                    \/ plan'[q].status = "PENDING"
    BY <2>1 DEF L!PlansIn
  <2>4. \A q \in L!PlansIn(plan') :
              \/ q \in L!PlansIn(plan) /\ plan'[q].status = plan[q].status
              \/ /\ plan'[q].status = "COMPLETED" => L!Approved(record', q) >= plan'[q].amount
                 /\ plan'[q].status = "PARTIAL" => L!Approved(record', q) > 0
    BY <2>3
  <2>5. contract'.total_paid_amount = contract.total_paid_amount
    BY <2>1
  <2> QED BY <1>0, <2>2, <2>4, <2>5, ClaimsGrow
<1>7. CASE L!PersistFailure(r) \/ L!RegisterFails(r) \/ L!Refuse(r)
  <2>1. contract' = contract /\ plan' = plan /\ record' = record
    BY <1>7 DEF L!PersistFailure, L!RegisterFails, L!Refuse
  <2>2. Below(plan, record, plan, record')
    BY <2>1, BelowItself
  <2> QED BY <1>4, <2>1, <2>2
<1> QED BY <1>2, <1>3, <1>5, <1>6, <1>7

\* The steps that take something away: run alone, they derive from the present rows.
LEMMA UndoingSteps ==
    ASSUME ClaimInv, L!TypeOK', NEW r \in Payers,
           L!UpdatePlan(r) \/ L!DeletePlan(r) \/ L!Correct(r) \/ L!Remove(r)
    PROVE  L!NeverOverstated' /\ request[r].act \in LedgerAlone
<1> DEFINE k == request[r].key
           p == request[r].plan
<1>0. /\ LedgerInv /\ L!LedgerAssumption /\ L!TypeOK /\ L!NeverOverstated /\ SeesRows
      /\ k \in Keys /\ p \in Plans /\ plan \in [Plans -> L!Plan] /\ plan' \in [Plans -> L!Plan]
      /\ record \in [Keys -> L!Record] /\ record' \in [Keys -> L!Record]
  BY CallTyped DEF ClaimInv, LedgerInv, L!TypeOK
<1>1. request[r].act \in Undoing
  BY DEF L!UpdatePlan, L!DeletePlan, L!Correct, L!Remove, Undoing
<1>2. request[r].act \in LedgerAlone
  <2>1. request[r] \in L!Call
    BY <1>0 DEF L!TypeOK
  <2>2. request[r].act \in LedgerActs
    BY <1>1, <2>1 DEF L!Call, Undoing
  <2> QED BY <1>1, <2>2 DEF ClaimInv, UndoneAlone
<1>3. /\ request[r].seen = Rows /\ request[r].seen.contract = contract
      /\ request[r].seen.plan = plan /\ request[r].seen.record = record
  BY <1>0, <1>2 DEF SeesRows, Rows
\* The other plans have the payments they had.
<1>4. ASSUME NEW q \in Plans \ {p},
             \A j \in Keys : record[j].plan = q => record'[j] = record[j]
      PROVE  L!Approved(record, q) <= L!Approved(record', q)
  <2>1. \A j \in Keys : record[j].amount \in Nat
    BY <1>0, BooksAssumption DEF L!Record, BooksAssumption
  <2>2. \A j \in ApprovedOf(record, q) : j \in ApprovedOf(record', q) /\ record[j].amount <= record'[j].amount
    BY <1>4, <2>1 DEF ApprovedOf, L!RecordsOf
  <2> QED BY <1>0, <2>2, ApprovedLess
<1>5. CASE L!UpdatePlan(r)
  <2>1. record' = record
    BY <1>0, <1>5, UpdatePlanDoes
  <2>2. PICK base \in [Plans -> L!Plan] :
           /\ plan[p].status \in L!PlanStatus
           /\ \A q \in Plans : base[q].status = plan[q].status /\ (q # p => base[q] = plan[q])
           /\ L!Derive(r, p, [request[r].seen.plan EXCEPT ![p].amount = request[r].amount],
                       request[r].seen.record, base)
           /\ base = [request[r].seen.plan EXCEPT ![p].amount = request[r].amount]
    BY <1>0, <1>3, <1>5, UpdatePlanDoes
  <2>3. L!Derive(r, p, base, request[r].seen.record, base) /\ request[r].seen.record = record'
    BY <1>3, <2>1, <2>2
  <2>4. \A q \in Plans \ {p} : L!Approved(record, q) <= L!Approved(record', q)
    BY <1>4, <2>1
  <2> QED BY <1>0, <1>2, <1>3, <2>2, <2>3, <2>4, DerivingExactly
\* Correcting and removing write one payment of the plan.
<1>6. ASSUME request[r].act \in Follows, record[k].phase \in L!Phase,
             NEW x \in L!Record, Written(k, x),
             NEW records, records = record', L!Derive(r, p, plan, records, plan)
      PROVE  L!NeverOverstated'
  <2>1. record[k].plan = p /\ plan[p].status \in L!PlanStatus
    BY <1>0, <1>6, FollowedUp
  <2>2. \A q \in Plans \ {p} : L!Approved(record, q) <= L!Approved(record', q)
    BY <1>4, <1>6, <2>1 DEF Written
  <2> QED BY <1>0, <1>3, <1>6, <2>1, <2>2, DerivingExactly
<1>7. CASE L!Correct(r)
  <2> DEFINE mine == [request[r].seen.record EXCEPT ![k].amount = request[r].amount]
  <2>1. /\ request[r].act \in Follows /\ record[k].phase \in L!Phase
        /\ L!Derive(r, p, request[r].seen.plan, mine, plan)
        /\ mine = record'
    BY <1>0, <1>3, <1>7, CorrectDoes DEF Follows
  <2>2. PICK x \in L!Record : Written(k, x)
    BY <1>0, <1>7, CorrectDoes
  <2> HIDE DEF mine
  <2>3. L!Derive(r, p, plan, mine, plan)
    BY <1>3, <2>1
  <2> QED BY <1>2, <1>6, <2>1, <2>2, <2>3
<1>8. CASE L!Remove(r)
  <2> DEFINE mine == [request[r].seen.record EXCEPT ![k].phase = "DELETED"]
  <2>1. /\ request[r].act \in Follows /\ record[k].phase \in L!Phase
        /\ L!Derive(r, p, request[r].seen.plan, mine, plan)
        /\ mine = record'
    BY <1>0, <1>3, <1>8, RemoveDoes DEF Follows
  <2>2. PICK x \in L!Record : Written(k, x)
    BY <1>0, <1>8, RemoveDoes
  <2> HIDE DEF mine
  <2>3. L!Derive(r, p, plan, mine, plan)
    BY <1>3, <2>1
  <2> QED BY <1>2, <1>6, <2>1, <2>2, <2>3
<1>9. CASE L!DeletePlan(r)
  <2> DEFINE left == [request[r].seen.plan EXCEPT ![p].status = "DELETED"]
  <2>1. /\ plan'[p].status = "DELETED"
        /\ \A q \in Plans \ {p} : plan'[q] = plan[q]
        /\ \A j \in Keys : IF j \in L!RecordsOf(record, p)
                           THEN record'[j].phase = "DELETED" /\ record'[j].plan = record[j].plan
                           ELSE record'[j] = record[j]
        /\ contract'.total_paid_amount = L!Paid(left, request[r].seen.record)
    BY <1>0, <1>3, <1>9, DeletePlanDoes
  <2>2. \A q \in Plans \ {p} : L!Approved(record, q) <= L!Approved(record', q)
    <3>1. ASSUME NEW q \in Plans \ {p}, NEW j \in Keys, record[j].plan = q
          PROVE  record'[j] = record[j]
      BY <2>1, <3>1 DEF L!RecordsOf
    <3> QED BY <1>4, <3>1
  <2>3. "DELETED" \notin L!PlanStatus
    BY DEF L!PlanStatus
  <2>4. \A q \in L!PlansIn(left) : q \in Plans \ {p} /\ left[q] = plan[q] /\ q \in L!PlansIn(plan')
    <3>1. [plan[p] EXCEPT !.status = "DELETED"].status = "DELETED"
      <4>1. plan[p] \in L!Plan /\ "DELETED" \in L!PlanStatus \cup {"NONE", "DELETED"}
        BY <1>0
      <4> QED BY <4>1, PlanUpdates
    <3>2. left[p].status = "DELETED" /\ \A q \in Plans \ {p} : left[q] = plan[q]
      BY <1>0, <1>3, <3>1
    <3> HIDE DEF left
    <3> QED BY <2>1, <2>3, <3>2 DEF L!PlansIn
  <2> HIDE DEF left
  <2>5. contract'.total_paid_amount <= L!Paid(plan', record')
    <3>1. L!Paid(left, record) <= L!Paid(plan', record')
      BY <1>0, <2>2, <2>4, PaidLess
    <3> QED BY <1>3, <2>1, <3>1
  <2>6. ASSUME NEW q \in L!PlansIn(plan')
        PROVE  /\ plan'[q].status = "COMPLETED" => L!Approved(record', q) >= plan'[q].amount
               /\ plan'[q].status = "PARTIAL" => L!Approved(record', q) > 0
    <3>1. q \in Plans \ {p} /\ plan'[q] = plan[q] /\ q \in L!PlansIn(plan)
      BY <2>1, <2>3 DEF L!PlansIn
    <3>2. /\ plan[q].status = "COMPLETED" => L!Approved(record, q) >= plan[q].amount
          /\ plan[q].status = "PARTIAL" => L!Approved(record, q) > 0
      BY <1>0, <3>1 DEF L!NeverOverstated
    <3>3. /\ L!Approved(record, q) <= L!Approved(record', q)
          /\ L!Approved(record, q) \in Nat /\ L!Approved(record', q) \in Nat
      BY <1>0, <2>2, <3>1, RegisteredTyped
    <3>4. plan[q].amount \in Nat
      BY <1>0, <3>1, BooksAssumption DEF L!Plan, BooksAssumption
    <3> QED BY <3>1, <3>2, <3>3, <3>4
  <2> QED BY <1>2, <2>5, <2>6 DEF L!NeverOverstated
<1> QED BY <1>2, <1>5, <1>7, <1>8, <1>9

\* Claims stay covered in every step.
LEMMA ClaimInvStep ==
    ASSUME ClaimInv, [L!Next]_L!vars
    PROVE  ClaimInv'
<1>0. LedgerInv /\ UndoneAlone /\ Behind /\ L!NeverOverstated /\ L!TypeOK
  BY DEF ClaimInv, LedgerInv
<1>1. LedgerInv' /\ L!TypeOK'
  <2>1. LedgerInv'
    BY <1>0, LedgerInvStep, LedgerStutters
  <2> QED BY <2>1 DEF LedgerInv
<1>2. CASE UNCHANGED L!vars
  BY <1>0, <1>1, <1>2 DEF ClaimInv, L!vars, Behind, L!NeverOverstated, UndoneAlone
<1>3. ASSUME NEW r \in Payers, NEW act \in LedgerActs, NEW p \in Plans, NEW k \in Keys,
             NEW a \in 0 .. Total, L!Begin(r, act, p, k, a)
      PROVE  ClaimInv'
  <2> DEFINE call == [act |-> act, plan |-> p, key |-> k, amount |-> a, seen |-> Rows]
  <2>1. /\ request' = [request EXCEPT ![r] = call]
        /\ contract' = contract /\ plan' = plan /\ record' = record
    BY <1>3 DEF L!Begin, Rows
  <2>2. call.seen.plan = plan /\ call.seen.record = record
    BY DEF Rows
  <2> HIDE DEF call
  <2>3. request'[r] = call /\ \A q \in Payers \ {r} : request'[q] = request[q]
    BY <1>0, <2>1 DEF L!TypeOK
  <2>4. Below(call.seen.plan, call.seen.record, plan, record)
    BY <2>2, BelowItself
  <2>5. Behind'
    BY <1>0, <2>1, <2>3, <2>4 DEF Behind
  <2>6. L!NeverOverstated'
    BY <1>0, <2>1 DEF L!NeverOverstated
  <2> QED BY <1>0, <1>1, <2>5, <2>6 DEF ClaimInv, UndoneAlone
<1>4. ASSUME NEW r \in Payers, L!Finish(r)
      PROVE  ClaimInv'
  <2>1. /\ request[r].act # "none"
        /\ \A q \in Payers \ {r} : request'[q] = request[q]
        /\ request'[r].act = "none" \/ (request[r].act = "register" /\ request'[r].seen = request[r].seen)
    BY <1>0, <1>4, FinishEnds DEF Ended
  <2>2. CASE L!UpdatePlan(r) \/ L!DeletePlan(r) \/ L!Correct(r) \/ L!Remove(r)
    <3>1. L!NeverOverstated' /\ request[r].act \in LedgerAlone
      BY <1>1, <2>2, UndoingSteps
    <3>2. request[r].act # "register"
      BY <2>2 DEF L!UpdatePlan, L!DeletePlan, L!Correct, L!Remove
    <3>3. \A q \in Payers : request'[q].act = "none"
      BY <1>0, <2>1, <3>1, <3>2, OthersOverlap
    <3> QED BY <1>0, <1>1, <3>1, <3>3 DEF ClaimInv, Behind, UndoneAlone
  <2>3. CASE ~(L!UpdatePlan(r) \/ L!DeletePlan(r) \/ L!Correct(r) \/ L!Remove(r))
    <3>1. L!NeverOverstated' /\ Below(plan, record, plan', record')
      BY <1>1, <1>4, <2>3, GrowingSteps DEF L!Finish
    <3>2. ASSUME NEW q \in Payers, request'[q].act # "none"
          PROVE  Below(request'[q].seen.plan, request'[q].seen.record, plan', record')
      <4>1. request'[q].seen = request[q].seen /\ request[q].act # "none"
        BY <2>1, <3>2
      <4>2. Below(request[q].seen.plan, request[q].seen.record, plan, record)
        BY <1>0, <4>1 DEF Behind
      <4>3. Below(request[q].seen.plan, request[q].seen.record, plan', record')
        BY <3>1, <4>2, BelowFurther
      <4> QED BY <4>1, <4>3
    <3> QED BY <1>0, <1>1, <3>1, <3>2 DEF ClaimInv, Behind, UndoneAlone
  <2> QED BY <2>2, <2>3
<1> QED BY <1>2, <1>3, <1>4 DEF L!Next

\* NeverOverstated: neither the status of a plan nor the paid amount of the contract ever
\* claims more than the approved payments add up to, provided no other request is
\* on its way while a plan is updated or deleted or a payment corrected or removed;
\* registrations, submissions and decisions may overlap as they like.
THEOREM ClaimsAreApproved ==
    ASSUME L!LedgerAssumption,
           {"updatePlan", "deletePlan", "correct", "remove"} \cap LedgerActs \subseteq LedgerAlone
    PROVE  L!Spec => []NeverOverstated
<1>1. L!Init => ClaimInv
  <2> SUFFICES ASSUME L!Init PROVE ClaimInv
    OBVIOUS
  <2>1. LedgerInv
    BY LedgerInit
  <2>2. L!PlansIn(plan) = {}
    BY DEF L!Init, L!PlansIn, L!NoPlan, L!PlanStatus
  <2>3. Behind
    <3>1. L!Idle.act = "none"
      BY LedgerIdleTyped
    <3> QED BY <3>1 DEF L!Init, Behind
  <2>4. contract.total_paid_amount <= L!Paid(plan, record)
    <3>1. contract.total_paid_amount = 0
      BY DEF L!Init, L!Unpaid
    <3>2. L!Paid(plan, record) \in Nat
      BY <2>1, PaidTyped DEF LedgerInv, L!TypeOK
    <3> QED BY <3>1, <3>2
  <2> QED BY <2>1, <2>2, <2>3, <2>4 DEF ClaimInv, UndoneAlone, Undoing, L!NeverOverstated
<1>2. ClaimInv /\ [L!Next]_L!vars => ClaimInv'
  BY ClaimInvStep
<1>3. ClaimInv => NeverOverstated
  BY LedgerKeepsTheBooks DEF ClaimInv
<1> QED BY <1>1, <1>2, <1>3, PTL DEF L!Spec

=============================================================================
