-------------------------- MODULE ContractApproval --------------------------
(***************************************************************************)
(* The approval of a contract: crud/approval.py and                        *)
(* services/approval_transaction_manager.py, with the endpoints of         *)
(* api/approvals.py and api/contracts.py that call them.  A submission     *)
(* starts an approval that passes the nodes of a flow one after the other; *)
(* each node is decided by somebody who has its role.                      *)
(*                                                                         *)
(* Every request is one transaction under REPEATABLE READ.  It first looks *)
(* at the contract and its approvals, which fixes its snapshot, and checks *)
(* what it can; then it locks a row, reads that row again and writes.      *)
(* What it does not read again under the lock is as old as the snapshot.   *)
(*                                                                         *)
(* Contracts have two ways to be submitted: the generic endpoint of all    *)
(* documents and an older one of their own, which the client also uses.    *)
(* The automatic submission of a new contract is a request of the latter.  *)
(***************************************************************************)
EXTENDS Naturals, Sequences, FiniteSets

CONSTANTS
    Requests,       \* requests that are handled at the same time
    N,              \* nodes of the flow
    Acts,           \* what requests do
    Alone,          \* contracts are submitted by their own endpoint while nobody else asks
    Dated,          \* decisions carry updated_time, and no two changes share a second
    MaxApprovals,   \* bound: submissions that succeed
    MaxEdits        \* bound: edits that succeed

Act == {"submit", "submitContract", "approve", "reject", "cancel", "edit", "delete"}

ASSUME ApprovalAssumption ==
    /\ N \in Nat \ {0}
    /\ Acts \subseteq Act
    /\ Alone \in BOOLEAN
    /\ Dated \in BOOLEAN
    /\ MaxApprovals \in Nat
    /\ MaxEdits \in Nat

VARIABLES
    contract,    \* the contract's row; content counts its edits
    approvals,   \* its approvals in the order of their ids
    records,     \* who let which approval pass which node
    request      \* what each request has seen

vars == <<contract, approvals, records, request>>

Contract == [status : {"DRAFT", "PENDING_REVIEW", "SIGNED"},
             approval_phase : {"DRAFT", "PENDING_REVIEW", "APPROVED", "REJECTED"},
             deleted : BOOLEAN,
             content : 0 .. MaxEdits]

\* GONE is a deleted row; content is the contract's when it was submitted.
Approval == [status : {"PENDING", "APPROVED", "REJECTED", "CANCELLED", "GONE"},
             current_node : 1 .. N,
             content : 0 .. MaxEdits]

\* role is the node whose role the approver has.
Record == [approval : 1 .. MaxApprovals, node : 1 .. N, role : 1 .. N]

TypeOK ==
    /\ contract \in Contract
    /\ approvals \in Seq(Approval)
    /\ Len(approvals) <= MaxApprovals
    /\ records \subseteq Record
    /\ request \in [Requests -> [act : Acts \cup {"none", "missing"}, approvals : Seq(Approval)]]

Idle == [act |-> "none", approvals |-> <<>>]

Init ==
    /\ contract = [status |-> "DRAFT", approval_phase |-> "DRAFT", deleted |-> FALSE, content |-> 0]
    /\ approvals = <<>>
    /\ records = {}
    /\ request = [r \in Requests |-> Idle]

-----------------------------------------------------------------------------
(* Looking at the snapshot. *)

Existing(seen) == {a \in DOMAIN seen : seen[a].status # "GONE"}

\* get_by_entity: the newest approval; 0 without one.
Newest(seen) ==
    IF Existing(seen) = {} THEN 0
    ELSE CHOOSE a \in Existing(seen) : \A b \in Existing(seen) : b <= a

NewestStatus(seen) == IF Newest(seen) = 0 THEN "none" ELSE seen[Newest(seen)].status

Pending(seen) == {a \in DOMAIN seen : seen[a].status = "PENDING"}

\* What the endpoints check before anything is locked.
Admissible(act) ==
    CASE act = "submitContract" -> contract.status = "DRAFT" /\ NewestStatus(approvals) # "PENDING"
      [] act = "edit"           -> contract.status = "DRAFT"
      [] act \in {"approve", "reject", "cancel"} -> Newest(approvals) # 0
      [] OTHER                  -> TRUE

\* The environment of a run that is Alone.
Overlaps(r, act) ==
    \E other \in Requests \ {r} :
        /\ request[other].act \notin {"none", "missing"}
        /\ "submitContract" \in {act, request[other].act}

\* Approvers are let in by the role of the node they see.
Begin(r, act) ==
    /\ request[r].act \in {"none", "missing"}
    /\ Alone => ~Overlaps(r, act)
    /\ Admissible(act)
    /\ request' = [request EXCEPT ![r] = [act |-> act, approvals |-> approvals]]
    /\ UNCHANGED <<contract, approvals, records>>

End(r) == request' = [request EXCEPT ![r] = Idle]

\* The request is refused or fails; nothing is written.
Refuse(r) ==
    /\ End(r)
    /\ UNCHANGED <<contract, approvals, records>>

-----------------------------------------------------------------------------
(* Submitting. *)

NewApproval == [status |-> "PENDING", current_node |-> 1, content |-> contract.content]

\* _create_approval_impl, with the contract's row locked: phase and status are
\* written, not compared.
StartReview(before) ==
    /\ Len(approvals) < MaxApprovals
    /\ approvals' = Append(before, NewApproval)
    /\ contract' = [contract EXCEPT !.status = "PENDING_REVIEW", !.approval_phase = "PENDING_REVIEW"]
    /\ UNCHANGED records

\* Mutant: the phase is not looked at under the lock.
SubmittableAnyPhase == TRUE

Submittable == contract.approval_phase \in {"DRAFT", "REJECTED"}

\* db.delete(old_approval): the newest one of the snapshot.
WithoutRejected(seen) ==
    IF contract.approval_phase = "REJECTED" /\ Newest(seen) # 0
    THEN [approvals EXCEPT ![Newest(seen)].status = "GONE"]
    ELSE approvals

\* submit_for_approval: a contract under review is answered with its approval,
\* if the snapshot shows it; a flow may be missing.
Submit(r) ==
    /\ request[r].act = "submit"
    /\ \/ /\ Submittable
          /\ StartReview(WithoutRejected(request[r].approvals))
          /\ End(r)
       \/ /\ contract.approval_phase = "PENDING_REVIEW" => Pending(request[r].approvals) # {}
          /\ Refuse(r)
       \/ /\ contract.approval_phase = "PENDING_REVIEW"
          /\ Pending(request[r].approvals) = {}
          /\ request' = [request EXCEPT ![r] = [act |-> "missing", approvals |-> <<>>]]
          /\ UNCHANGED <<contract, approvals, records>>

\* submit_contract_approval, create_approval_generic
SubmitContract(r) ==
    /\ request[r].act = "submitContract"
    /\ \/ StartReview(approvals) /\ End(r)
       \/ Refuse(r)

-----------------------------------------------------------------------------
(* Deciding: the approval's row is locked first, then the contract's. *)

\* The approval the request is about.
Subject(r) == Newest(request[r].approvals)

\* Mutant: updated_time is not compared.
AsSeenAlways(r) == TRUE

\* The optimistic lock: updated_time is the one the approver saw.
AsSeen(r) == Dated => approvals[Subject(r)] = request[r].approvals[Subject(r)]

\* Mutant: believes the snapshot instead of the row it has locked.
StillPendingAsSeen(r) ==
    Subject(r) \in DOMAIN approvals /\ request[r].approvals[Subject(r)].status = "PENDING"

\* The row is there and waits for a decision.
StillPending(r) ==
    Subject(r) \in DOMAIN approvals /\ approvals[Subject(r)].status = "PENDING"

\* Mutant: the last node is skipped.
LastNodeEarly(n) == n + 1 >= N

\* There is no node of the next order.
LastNode(n) == n = N

\* approve with APPROVE; the record is made for the node found under the lock.
Approve(r) ==
    /\ request[r].act = "approve"
    /\ LET a == Subject(r)
           n == approvals[a].current_node
       IN  \/ /\ StillPending(r) /\ AsSeen(r)
              /\ records' = records \cup {[approval |-> a, node |-> n,
                                           role |-> request[r].approvals[a].current_node]}
              /\ \/ /\ ~LastNode(n)
                    /\ approvals' = [approvals EXCEPT ![a].current_node = n + 1]
                    /\ UNCHANGED contract
                 \/ /\ LastNode(n)
                    /\ approvals' = [approvals EXCEPT ![a].status = "APPROVED"]
                    /\ contract' = [contract EXCEPT !.status = "SIGNED", !.approval_phase = "APPROVED"]
              /\ End(r)
           \/ ~(StillPending(r) /\ AsSeen(r)) /\ Refuse(r)

\* approve with REJECT
Reject(r) ==
    /\ request[r].act = "reject"
    /\ \/ /\ StillPending(r) /\ AsSeen(r)
          /\ approvals' = [approvals EXCEPT ![Subject(r)].status = "REJECTED"]
          /\ contract' = [contract EXCEPT !.status = "DRAFT", !.approval_phase = "REJECTED"]
          /\ UNCHANGED records
          /\ End(r)
       \/ ~(StillPending(r) /\ AsSeen(r)) /\ Refuse(r)

\* cancel, which compares no updated_time
Cancel(r) ==
    /\ request[r].act = "cancel"
    /\ \/ /\ StillPending(r)
          /\ approvals' = [approvals EXCEPT ![Subject(r)].status = "CANCELLED"]
          /\ contract' = [contract EXCEPT !.status = "DRAFT", !.approval_phase = "DRAFT"]
          /\ UNCHANGED records
          /\ End(r)
       \/ ~StillPending(r) /\ Refuse(r)

-----------------------------------------------------------------------------
(* Editing and deleting the contract. *)

\* ContractCRUD.update: the status was checked before the row was locked.
Edit(r) ==
    /\ request[r].act = "edit"
    /\ \/ /\ contract.content < MaxEdits
          /\ contract' = [contract EXCEPT !.content = @ + 1]
          /\ UNCHANGED <<approvals, records>>
          /\ End(r)
       \/ Refuse(r)

\* Mutant: trusts what the request saw before it had the lock.
DeletableAsSeen(r) ==
    /\ ~contract.deleted
    /\ NewestStatus(request[r].approvals) \notin {"PENDING", "APPROVED"}

\* ContractCRUD.delete, assert_deletable_approval_resource
Deletable(r) ==
    /\ ~contract.deleted
    /\ contract.approval_phase \notin {"PENDING_REVIEW", "APPROVED"}
    /\ NewestStatus(request[r].approvals) \notin {"PENDING", "APPROVED"}
    /\ contract.status = "DRAFT"

Delete(r) ==
    /\ request[r].act = "delete"
    /\ \/ /\ Deletable(r)
          /\ contract' = [contract EXCEPT !.deleted = TRUE, !.status = "DRAFT"]
          /\ UNCHANGED <<approvals, records>>
          /\ End(r)
       \/ ~Deletable(r) /\ Refuse(r)

-----------------------------------------------------------------------------
Finish(r) ==
    \/ Submit(r) \/ SubmitContract(r) \/ Approve(r) \/ Reject(r) \/ Cancel(r)
    \/ Edit(r) \/ Delete(r)

Next == \E r \in Requests : (\E act \in Acts : Begin(r, act)) \/ Finish(r)

Spec == Init /\ [][Next]_vars

-----------------------------------------------------------------------------
(* Properties *)

\* A contract is under review exactly while one approval of it is pending, so
\* that deciding this approval decides the contract.  A repeated submission
\* reuses the approval instead of creating a second one
\* (crud/approval.py:515-516).
UnderReviewHasOneApproval ==
    /\ contract.approval_phase = "PENDING_REVIEW" => Cardinality(Pending(approvals)) = 1
    /\ contract.approval_phase # "PENDING_REVIEW" => Pending(approvals) = {}

\* A signed contract stays signed, whatever requests were on their way when
\* its last node was passed.  The code ensures it only while the contract's own
\* endpoint does not overlap with another request.
SignedIsFinal == [][contract.status = "SIGNED" => contract'.status = "SIGNED"]_vars

\* What is left of it when that endpoint overlaps too: a signature falls only to
\* the decision of a second approval that should not be there, or to the
\* endpoint itself, which started from a draft.
SignatureFallsOnlyToASecondReview ==
    [][contract.status = "SIGNED" /\ contract'.status # "SIGNED" =>
          \/ Pending(approvals) # {}
          \/ \E r \in Requests : request[r].act = "submitContract" /\ request'[r] = Idle]_vars

\* A contract is signed only on an approval that every node has let pass,
\* whichever submissions, decisions and deletions of approvals overlap.
SignedByAllNodes ==
    contract.status = "SIGNED" =>
        \E a \in DOMAIN approvals :
            /\ approvals[a].status = "APPROVED"
            /\ \A n \in 1 .. N : \E rec \in records : rec.approval = a /\ rec.node = n

\* An approval that was decided is not decided again or otherwise, also when
\* several decisions were made at the same time; it may only be deleted, when
\* a rejected contract is submitted again.
DecidedStays ==
    [][\A a \in DOMAIN approvals :
          approvals[a].status # "PENDING" =>
              approvals'[a] \in {approvals[a], [approvals[a] EXCEPT !.status = "GONE"]}]_vars

\* Only the role of the current node decides it (api/approvals.py:836).
NodeDecidedByItsRole == \A rec \in records : rec.role = rec.node

\* A deletion takes no contract that is under review or signed.  The code
\* ensures it only while the contract's own endpoint does not overlap with
\* another request: with two approvals pending, the cancellation of one opens
\* the way to a deletion under the review of the other.
DeletionSparesReviewed ==
    [][contract'.deleted /\ ~contract.deleted => Pending(approvals) = {} /\ contract.status = "DRAFT"]_vars

\* services/approval_adapter.py:9: a deleted document is not found by the
\* approval engine, so no review of it begins or ends.
DeletedIsNotReviewed == contract.deleted => contract.status = "DRAFT"

\* api/contracts.py:1461: a contract that is submitted or signed is not
\* edited, so what is signed is what was reviewed.
SignedAsReviewed ==
    contract.status = "SIGNED" =>
        \E a \in DOMAIN approvals :
            approvals[a].status = "APPROVED" /\ approvals[a].content = contract.content

\* services/approval_transaction_manager.py:283: a repeated submission is
\* answered with the approval that is there.
RepetitionIsAnswered == \A r \in Requests : request[r].act # "missing"
=============================================================================
