----------------------------- MODULE InvoiceIssuing -----------------------------
(***************************************************************************)
(* An invoice: crud/invoice.py with the endpoints of api/invoices.py, the  *)
(* adapters of services/approval_adapter.py and the generic submission and *)
(* decision of approvals.                                                  *)
(*                                                                         *)
(* An application passes an approval and is marked issued.  An issued      *)
(* invoice may be offset by a red one, by hand or by a reissue application *)
(* that passes an approval of its own and is then completed with the red   *)
(* and the new invoice.                                                    *)
(*                                                                         *)
(* Every request is one transaction under REPEATABLE READ: its permission  *)
(* check fixes what it sees, before it awaits the uploaded files.          *)
(* Editing, issuing, submitting and deciding lock the row and read it      *)
(* again; reissues and red offsets are created, revised and completed, and *)
(* applications deleted, on what was seen.  A decision is modelled for a   *)
(* flow of one node; ContractApproval has more.                            *)
(***************************************************************************)
EXTENDS Naturals, Sequences, FiniteSets, SequencesExt

CONSTANTS
    Requests,     \* requests that are handled at the same time
    Reissues,     \* bound: reissue applications of the invoice
    MaxEdits,     \* bound: edits of a document
    MaxRounds,    \* bound: submissions of a document
    Acts,         \* what requests do
    None          \* no request

Act == {"update", "revise", "submit", "approve", "reject", "cancel", "issue", "delete",
        "reissue", "complete", "offset", "dropSource"}

ASSUME InvoiceAssumption ==
    /\ Reissues \in Nat
    /\ MaxEdits \in Nat
    /\ MaxRounds \in Nat
    /\ Acts \subseteq Act
    /\ None \notin Requests

VARIABLES
    doc,         \* document 0 is the application, the others its reissue applications
    approval,    \* the newest approval of each document
    offsets,     \* the red offsets in the order of their ids
    request      \* what each request does and what it has seen

vars == <<doc, approval, offsets, request>>

Docs == 0 .. Reissues
Manual == 0

\* DONE is ISSUED of an application and COMPLETED of a reissue; number is the
\* invoice number that the request of this name has entered.
Doc == [status : {"NONE", "DRAFT", "PENDING_REVIEW", "APPROVED", "REJECTED", "DONE", "GONE"},
        approval_phase : {"DRAFT", "PENDING_REVIEW", "APPROVED", "REJECTED"},
        content : 0 .. MaxEdits,
        number : Requests \cup {None}]

\* round tells an approval from the ones before it; content is the document's
\* when it was submitted.
Approval == [status : {"NONE", "PENDING", "APPROVED", "REJECTED", "CANCELLED"},
             round : 0 .. MaxRounds,
             content : 0 .. MaxEdits]

\* An offset is the reissue it comes from, or Manual.
Seen == [doc : [Docs -> Doc], approval : [Docs -> Approval], offsets : Seq(Docs)]

TypeOK ==
    /\ doc \in [Docs -> Doc]
    /\ approval \in [Docs -> Approval]
    /\ offsets \in Seq(Docs)
    /\ request \in [Requests -> [act : Acts \cup {"none"}, doc : Docs, seen : Seen]]

Draft == [status |-> "DRAFT", approval_phase |-> "DRAFT", content |-> 0, number |-> None]
NoDoc == [Draft EXCEPT !.status = "NONE"]
NoApproval == [status |-> "NONE", round |-> 0, content |-> 0]

\* The rows as the application's creation leaves them.
Created == [d \in Docs |-> IF d = 0 THEN Draft ELSE NoDoc]

Idle == [act |-> "none", doc |-> 0,
         seen |-> [doc |-> Created, approval |-> [d \in Docs |-> NoApproval], offsets |-> <<>>]]

Init ==
    /\ doc = Created
    /\ approval = [d \in Docs |-> NoApproval]
    /\ offsets = <<>>
    /\ request = [r \in Requests |-> Idle]

-----------------------------------------------------------------------------
(* The life of a request. *)

Exists(d) == doc[d].status \notin {"NONE", "GONE"}

\* get_active_by_original_invoice
Active(d) == d # 0 /\ doc[d].status \in {"DRAFT", "PENDING_REVIEW", "APPROVED"}

\* _assert_can_revise
Revisable(d) ==
    /\ doc[d].status \in {"DRAFT", "REJECTED"}
    /\ \A other \in Docs \ {d} : ~Active(other)
    /\ \A newer \in d + 1 .. Reissues : doc[newer].status = "NONE"

\* What a request checks on what it has seen, before it locks anything.
Admissible(act, d) ==
    CASE act = "update" -> d = 0 /\ Exists(0)
      [] act = "revise" -> d # 0 /\ Revisable(d)
      [] act = "submit" -> Exists(d)
      [] act \in {"approve", "reject", "cancel"} -> Exists(d) /\ approval[d].status # "NONE"
      [] act = "issue" -> d = 0 /\ doc[0].status = "APPROVED" /\ approval[0].status = "APPROVED"
      [] act = "delete" -> /\ d = 0 /\ doc[0].status \in {"DRAFT", "REJECTED"}
                           /\ doc[0].approval_phase \in {"DRAFT", "REJECTED"}
                           /\ approval[0].status \notin {"PENDING", "APPROVED"}
      [] act = "reissue" -> /\ d = 0 /\ doc[0].status = "DONE"
                            /\ ~Contains(offsets, Manual)
                            /\ \A other \in Docs : ~Active(other)
      [] act = "complete" -> d # 0 /\ doc[d].status = "APPROVED" /\ approval[d].status = "APPROVED"
      [] act = "offset" -> /\ d = 0 /\ doc[0].status = "DONE"
                           /\ offsets = <<>>
                           /\ \A other \in Docs \ {0} : ~Active(other) /\ doc[other].status # "DONE"
      [] OTHER -> \* dropSource: the ORM cannot take what reissues or offsets hang on
                  /\ d = 0 /\ Exists(0) /\ offsets = <<>>
                  /\ \A other \in Docs \ {0} : doc[other].status = "NONE"

Begin(r, act, d) ==
    /\ request[r].act = "none"
    /\ Admissible(act, d)
    /\ request' = [request EXCEPT ![r] =
                      [act |-> act, doc |-> d,
                       seen |-> [doc |-> doc, approval |-> approval, offsets |-> offsets]]]
    /\ UNCHANGED <<doc, approval, offsets>>

End(r) == request' = [request EXCEPT ![r] = Idle]

\* The request is refused, fails or dies; nothing is written.
Refuse(r) ==
    /\ request[r].act # "none"
    /\ End(r)
    /\ UNCHANGED <<doc, approval, offsets>>

-----------------------------------------------------------------------------
(* Editing and the approval. *)

\* Mutant: the status is not looked at under the lock.
EditableAnyStatus == Exists(0)

\* The application's row is locked.
Editable == doc[0].status \in {"DRAFT", "REJECTED"}

\* InvoiceApplicationCRUD.update
Update(r) ==
    /\ request[r].act = "update"
    /\ Editable
    /\ doc[0].content < MaxEdits
    /\ doc' = [doc EXCEPT ![0].content = @ + 1]
    /\ UNCHANGED <<approval, offsets>>
    /\ End(r)

\* InvoiceReissueApplicationCRUD.update: whatever the row has become.
Revise(r) ==
    LET d == request[r].doc
    IN  /\ request[r].act = "revise"
        /\ Exists(d)
        /\ doc[d].content < MaxEdits
        /\ doc' = [doc EXCEPT ![d].content = @ + 1]
        /\ UNCHANGED <<approval, offsets>>
        /\ End(r)

\* The document with its status and approval_phase set.
Entered(d, phase) ==
    [status |-> phase, approval_phase |-> phase,
     content |-> doc[d].content, number |-> doc[d].number]

\* submit_for_approval with the row locked; a rejected approval is replaced.
Submit(r) ==
    LET d == request[r].doc
    IN  /\ request[r].act = "submit"
        /\ Exists(d)
        /\ doc[d].approval_phase \in {"DRAFT", "REJECTED"}
        /\ approval[d].round < MaxRounds
        /\ doc' = [doc EXCEPT ![d] = Entered(d, "PENDING_REVIEW")]
        /\ approval' = [approval EXCEPT ![d] = [status |-> "PENDING", round |-> approval[d].round + 1,
                                                content |-> doc[d].content]]
        /\ UNCHANGED offsets
        /\ End(r)

\* Mutant: the approval was pending when the request began, and is not looked at again.
PendingAsSeen(r) ==
    LET d == request[r].doc
    IN  /\ approval[d].round = request[r].seen.approval[d].round
        /\ request[r].seen.approval[d].status = "PENDING"
        /\ Exists(d)

\* The approval's row and the document's are locked.
StillPending(r) ==
    LET d == request[r].doc
    IN  /\ approval[d].round = request[r].seen.approval[d].round
        /\ approval[d].status = "PENDING"
        /\ Exists(d)

\* What the adapters write.
Decided(act) ==
    CASE act = "approve" -> "APPROVED" [] act = "reject" -> "REJECTED" [] act = "cancel" -> "DRAFT"

\* approve, cancel
Decide(r) ==
    LET d == request[r].doc
        phase == Decided(request[r].act)
    IN  /\ request[r].act \in {"approve", "reject", "cancel"}
        /\ StillPending(r)
        /\ doc' = [doc EXCEPT ![d] = Entered(d, phase)]
        /\ approval' = [approval EXCEPT ![d].status = IF phase = "DRAFT" THEN "CANCELLED" ELSE phase]
        /\ UNCHANGED offsets
        /\ End(r)

-----------------------------------------------------------------------------
(* Issuing and deleting. *)

\* Mutant: the status seen before the files were saved is good enough.
IssuableAsSeen(r) == Exists(0)

\* The row is locked and still waits to be issued.
Issuable(r) == doc[0].status = "APPROVED"

\* mark_issued
Issue(r) ==
    /\ request[r].act = "issue"
    /\ Issuable(r)
    /\ doc' = [doc EXCEPT ![0] = [status |-> "DONE", approval_phase |-> doc[0].approval_phase,
                                  content |-> doc[0].content, number |-> r]]
    /\ UNCHANGED <<approval, offsets>>
    /\ End(r)

\* The application's row goes and the foreign keys take what hangs on it.
Deleted == [d \in Docs |-> IF Exists(d) THEN [NoDoc EXCEPT !.status = "GONE"] ELSE doc[d]]

\* InvoiceApplicationCRUD.delete; or the payment plan or the payment that the
\* application belongs to is deleted and the ORM's cascade takes it along.
Delete(r) ==
    /\ request[r].act \in {"delete", "dropSource"}
    /\ Exists(0)
    /\ doc' = Deleted
    /\ offsets' = <<>>
    /\ UNCHANGED approval
    /\ End(r)

-----------------------------------------------------------------------------
(* Reissuing and red offsets. *)

\* InvoiceReissueApplicationCRUD.create
CreateReissue(r) ==
    /\ request[r].act = "reissue"
    /\ Exists(0)
    /\ \E d \in Docs \ {0} :
          /\ doc[d].status = "NONE"
          /\ \A earlier \in 1 .. d - 1 : doc[earlier].status # "NONE"
          /\ doc' = [doc EXCEPT ![d] = Draft]
    /\ UNCHANGED <<approval, offsets>>
    /\ End(r)

\* The reissue with its red and new invoices.
CompletedDoc(r) == [doc[request[r].doc] EXCEPT !.status = "DONE", !.number = r]

\* complete, create_from_reissue: an offset of this reissue that was seen is
\* updated, otherwise one is added.
Complete(r) ==
    LET d == request[r].doc
    IN  /\ request[r].act = "complete"
        /\ Exists(d)
        /\ doc' = [doc EXCEPT ![d] = CompletedDoc(r)]
        /\ offsets' = IF Contains(request[r].seen.offsets, d) THEN offsets ELSE Append(offsets, d)
        /\ UNCHANGED approval
        /\ End(r)

\* create_manual
Offset(r) ==
    /\ request[r].act = "offset"
    /\ Exists(0)
    /\ offsets' = Append(offsets, Manual)
    /\ UNCHANGED <<doc, approval>>
    /\ End(r)

-----------------------------------------------------------------------------
Finish(r) ==
    \/ Update(r) \/ Revise(r) \/ Submit(r) \/ Decide(r)
    \/ Issue(r) \/ Delete(r)
    \/ CreateReissue(r) \/ Complete(r) \/ Offset(r)
    \/ Refuse(r)

Next ==
    \E r \in Requests :
        \/ \E act \in Acts, d \in Docs : Begin(r, act, d)
        \/ Finish(r)

Spec == Init /\ [][Next]_vars

-----------------------------------------------------------------------------
(* Properties *)

\* crud/invoice.py:548-553: an invoice is issued only with its approval, and
\* what is issued is what was approved: the row's lock keeps edits that were
\* already on their way from slipping in after the submission.
IssuedAsReviewed ==
    doc[0].status \in {"APPROVED", "DONE"} =>
        approval[0].status = "APPROVED" /\ approval[0].content = doc[0].content

\* An issued invoice stays as it was issued, with its number, however many
\* mark it issued at the same time; it can only go as a whole.
IssuedOnce == [][doc[0].status = "DONE" => doc'[0] = doc[0] \/ doc'[0].status = "GONE"]_vars

\* A reissue has a red offset exactly while it is completed, whatever overlaps: a decision that was let in while
\* its approval waited must not reopen a reissue that has been approved and completed since
\* (crud/approval.py:823-837), and what is deleted under a completion takes the offset along.
OffsetsFollowCompletion == \A d \in Docs \ {0} : Contains(offsets, d) <=> doc[d].status = "DONE"

\* Every completed reissue has one red offset of its own, and no other reissue has any.  Two completions of one
\* reissue that overlap break it: both look for its offset before either has added one.
OffsetsAccounted ==
    \A d \in Docs \ {0} :
        Cardinality({i \in DOMAIN offsets : offsets[i] = d}) = IF doc[d].status = "DONE" THEN 1 ELSE 0

\* crud/invoice.py:702: an invoice that was offset by hand is not reissued.
ManualOffsetStandsAlone == Contains(offsets, Manual) => Len(offsets) = 1

\* crud/invoice.py:704: an invoice has at most one open reissue application.
OneOpenReissue == Cardinality({d \in Docs : Active(d)}) <= 1

\* What is reissued is what was approved.
ReissuedAsReviewed ==
    \A d \in Docs \ {0} : doc[d].status \in {"APPROVED", "DONE"} => approval[d].content = doc[d].content

\* utils/approval_delete_guard.py:35: an application under review, approved or
\* issued is not deleted.
ReviewedStays ==
    [][doc[0].status \in {"PENDING_REVIEW", "APPROVED", "DONE"} => doc'[0].status # "GONE"]_vars
=============================================================================
