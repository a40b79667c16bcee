----------------------- MODULE ContractApprovalProofs -----------------------
(***************************************************************************)
(* Proofs about ContractApproval, for any flow, any number of requests and *)
(* of submissions.                                                         *)
(*                                                                         *)
(* The argument has two layers.  Whatever overlaps (Core): status and      *)
(* phase of the contract go together, an approval has a record of each     *)
(* node it passed, and a signed contract has an approved approval.  While  *)
(* nobody else asks when the contract's own endpoint works (Serial, Inv):  *)
(* the contract is under review exactly while one approval is pending.  A  *)
(* decision locks an approval and finds it pending, so it is that one, and *)
(* the contract is under review: the decision ends this review and no      *)
(* other.  Submissions and deletions read the phase under the contract's   *)
(* lock, which by the same fact tells whether an approval is pending.      *)
(***************************************************************************)
EXTENDS ContractApproval, TLAPS, SequenceTheorems, FiniteSetTheorems, WellFoundedInduction

\* What the status of an approval may be.
ApprovalStatus == {"PENDING", "APPROVED", "REJECTED", "CANCELLED", "GONE"}

\* A set of numbers up to n has a greatest one.
LEMMA MaxExists ==
    ASSUME NEW n \in Nat, NEW S, S \subseteq 1 .. n, S # {}
    PROVE  \E m \in S : \A k \in S : k <= m
<1> DEFINE T == {n - k : k \in S}
           Less == {ss \in Nat \X Nat : ss[1] < ss[2]}
<1>1. T \subseteq Nat /\ T # {}
  <2>1. \A k \in S : n - k \in Nat
    OBVIOUS
  <2>2. PICK k \in S : TRUE
    OBVIOUS
  <2>3. n - k \in T
    OBVIOUS
  <2>4. T \subseteq Nat
    BY <2>1
  <2> QED  BY <2>3, <2>4
<1>2. IsWellFoundedOn(Less, Nat)
  BY NatLessThanWellFounded, Zenon DEF OpToRel
<1>3. PICK t \in T : \A u \in T : ~(<<u, t>> \in Less)
  <2> HIDE DEF T, Less
  <2> QED  BY <1>1, <1>2, WFMin
<1>4. \A u \in T : ~(u < t)
  <2> SUFFICES ASSUME NEW u \in T, u < t PROVE FALSE
    OBVIOUS
  <2>1. u \in Nat /\ t \in Nat
    BY <1>1
  <2>2. <<u, t>> \in Less
    BY <2>1
  <2> QED  BY <2>2, <1>3
<1>5. PICK m \in S : t = n - m
  OBVIOUS
<1>6. \A k \in S : n - k \in T
  OBVIOUS
<1> HIDE DEF T, Less
<1> QED  BY <1>4, <1>5, <1>6

\* get_by_entity returns an approval of the snapshot when it returns one.
LEMMA NewestExists ==
    ASSUME NEW seen \in Seq(Approval), Newest(seen) # 0
    PROVE  Newest(seen) \in Existing(seen)
<1>1. Existing(seen) # {}
  BY DEF Newest
<1>2. Existing(seen) \subseteq 1 .. Len(seen)
  BY LenProperties DEF Existing
<1>3. Len(seen) \in Nat
  BY LenProperties
<1>4. \E m \in Existing(seen) : \A k \in Existing(seen) : k <= m
  <2> HIDE DEF Existing
  <2> QED  BY <1>1, <1>2, <1>3, MaxExists
<1> QED  BY <1>1, <1>4 DEF Newest

\* Writing the status of one approval; of one that is not there it writes nothing.
LEMMA StatusSet ==
    ASSUME NEW seq \in Seq(Approval), NEW a, NEW s \in ApprovalStatus
    PROVE  LET new == [seq EXCEPT ![a].status = s]
           IN  /\ new \in Seq(Approval)
               /\ Len(new) = Len(seq)
               /\ DOMAIN new = DOMAIN seq
               /\ \A b \in DOMAIN seq :
                     new[b] = IF b = a THEN [seq[b] EXCEPT !.status = s] ELSE seq[b]
<1> DEFINE new == [seq EXCEPT ![a].status = s]
<1>1. DOMAIN seq = 1 .. Len(seq) /\ Len(seq) \in Nat
  BY LenProperties
<1>2. DOMAIN new = 1 .. Len(seq)
  BY <1>1
<1>3. \A b \in DOMAIN seq : new[b] = IF b = a THEN [seq[b] EXCEPT !.status = s] ELSE seq[b]
  OBVIOUS
<1>4. \A b \in DOMAIN seq : seq[b] \in Approval
  BY ElementOfSeq, <1>1
<1>5. \A b \in DOMAIN seq : [seq[b] EXCEPT !.status = s] \in Approval
  BY <1>4 DEF Approval, ApprovalStatus
<1>6. \A b \in 1 .. Len(seq) : new[b] \in Approval
  <2> HIDE DEF new
  <2> QED  BY <1>1, <1>3, <1>4, <1>5
<1>7. new \in Seq(Approval) /\ Len(new) = Len(seq)
  <2>1. new = [b \in 1 .. Len(seq) |-> new[b]]
    BY <1>2
  <2> HIDE DEF new
  <2>2. new \in Seq(Approval)
    BY <1>1, <1>6, <2>1, IsASeq
  <2> QED  BY <1>1, <1>2, <2>2, LenProperties
<1> QED  BY <1>1, <1>2, <1>3, <1>7

\* Moving one approval to another node.
LEMMA NodeSet ==
    ASSUME NEW seq \in Seq(Approval), NEW a, NEW n \in 1 .. N
    PROVE  LET new == [seq EXCEPT ![a].current_node = n]
           IN  /\ new \in Seq(Approval)
               /\ Len(new) = Len(seq)
               /\ DOMAIN new = DOMAIN seq
               /\ \A b \in DOMAIN seq :
                     new[b] = IF b = a THEN [seq[b] EXCEPT !.current_node = n] ELSE seq[b]
<1> DEFINE new == [seq EXCEPT ![a].current_node = n]
<1>1. DOMAIN seq = 1 .. Len(seq) /\ Len(seq) \in Nat
  BY LenProperties
<1>2. DOMAIN new = 1 .. Len(seq)
  BY <1>1
<1>3. \A b \in DOMAIN seq : new[b] = IF b = a THEN [seq[b] EXCEPT !.current_node = n] ELSE seq[b]
  OBVIOUS
<1>4. \A b \in DOMAIN seq : seq[b] \in Approval
  BY ElementOfSeq, <1>1
<1>5. \A b \in DOMAIN seq : [seq[b] EXCEPT !.current_node = n] \in Approval
  BY <1>4 DEF Approval
<1>6. \A b \in 1 .. Len(seq) : new[b] \in Approval
  <2> HIDE DEF new
  <2> QED  BY <1>1, <1>3, <1>4, <1>5
<1>7. new \in Seq(Approval) /\ Len(new) = Len(seq)
  <2>1. new = [b \in 1 .. Len(seq) |-> new[b]]
    BY <1>2
  <2> HIDE DEF new
  <2>2. new \in Seq(Approval)
    BY <1>1, <1>6, <2>1, IsASeq
  <2> QED  BY <1>1, <1>2, <2>2, LenProperties
<1> QED  BY <1>1, <1>2, <1>3, <1>7

-----------------------------------------------------------------------------
(* Type correctness *)

\* A new approval is one.
LEMMA NewApprovalType ==
    ASSUME TypeOK
    PROVE  NewApproval \in Approval
BY ApprovalAssumption DEF NewApproval, Approval, TypeOK, Contract

\* Deleting the rejected approval touches no other.
LEMMA WithoutRejectedType ==
    ASSUME TypeOK, NEW seen
    PROVE  /\ WithoutRejected(seen) \in Seq(Approval)
           /\ Len(WithoutRejected(seen)) = Len(approvals)
           /\ DOMAIN WithoutRejected(seen) = DOMAIN approvals
           /\ \A b \in DOMAIN approvals :
                 \/ WithoutRejected(seen)[b] = approvals[b]
                 \/ WithoutRejected(seen)[b] = [approvals[b] EXCEPT !.status = "GONE"]
<1>1. approvals \in Seq(Approval) /\ "GONE" \in ApprovalStatus
  BY DEF TypeOK, ApprovalStatus
<1>2. CASE contract.approval_phase = "REJECTED" /\ Newest(seen) # 0
  <2> DEFINE a == Newest(seen)
             new == [approvals EXCEPT ![a].status = "GONE"]
  <2>1. WithoutRejected(seen) = new
    BY <1>2 DEF WithoutRejected
  <2>2. /\ new \in Seq(Approval)
        /\ Len(new) = Len(approvals)
        /\ DOMAIN new = DOMAIN approvals
        /\ \A b \in DOMAIN approvals :
              new[b] = IF b = a THEN [approvals[b] EXCEPT !.status = "GONE"] ELSE approvals[b]
    <3> HIDE DEF a
    <3> QED  BY <1>1, StatusSet
  <2> HIDE DEF a, new
  <2> QED  BY <2>1, <2>2
<1>3. CASE ~(contract.approval_phase = "REJECTED" /\ Newest(seen) # 0)
  <2>1. WithoutRejected(seen) = approvals
    BY <1>3 DEF WithoutRejected
  <2> QED  BY <1>1, <2>1
<1> QED  BY <1>2, <1>3

\* A request that ends is idle.
LEMMA EndType ==
    ASSUME TypeOK, NEW r \in Requests, End(r)
    PROVE  request' \in [Requests -> [act : Acts \cup {"none", "missing"}, approvals : Seq(Approval)]]
<1>1. Idle \in [act : Acts \cup {"none", "missing"}, approvals : Seq(Approval)]
  <2>1. << >> \in Seq(Approval)
    BY EmptySeq
  <2> QED  BY <2>1 DEF Idle
<1> QED  BY <1>1 DEF End, TypeOK

\* Starting a review keeps the types.
LEMMA StartReviewType ==
    ASSUME TypeOK, NEW before \in Seq(Approval), Len(before) = Len(approvals), StartReview(before)
    PROVE  /\ contract' \in Contract
           /\ approvals' \in Seq(Approval)
           /\ Len(approvals') <= MaxApprovals
           /\ records' \subseteq Record
<1>1. NewApproval \in Approval
  BY NewApprovalType
<1>2. /\ Append(before, NewApproval) \in Seq(Approval)
      /\ Len(Append(before, NewApproval)) = Len(approvals) + 1
  BY <1>1, AppendProperties
<1>3. Len(approvals) + 1 <= MaxApprovals
  BY ApprovalAssumption, LenProperties DEF StartReview, TypeOK
<1>4. contract' \in Contract
  BY DEF StartReview, TypeOK, Contract
<1> QED  BY <1>2, <1>3, <1>4 DEF StartReview, TypeOK

\* The approval that is decided exists, in the table and in the snapshot.
LEMMA SubjectFacts ==
    ASSUME TypeOK, NEW r \in Requests, StillPending(r)
    PROVE  /\ Subject(r) \in 1 .. MaxApprovals
           /\ Subject(r) \in DOMAIN approvals
           /\ approvals[Subject(r)] \in Approval
           /\ approvals[Subject(r)].status = "PENDING"
           /\ request[r].approvals[Subject(r)] \in Approval
<1>1. /\ Subject(r) \in DOMAIN approvals
      /\ approvals[Subject(r)].status = "PENDING"
  BY DEF StillPending
<1>2. DOMAIN approvals = 1 .. Len(approvals) /\ Len(approvals) \in Nat /\ Len(approvals) <= MaxApprovals
  BY LenProperties DEF TypeOK
<1>3. Subject(r) \in 1 .. Len(approvals) /\ Subject(r) \in 1 .. MaxApprovals
  BY <1>1, <1>2, ApprovalAssumption
<1>4. approvals[Subject(r)] \in Approval
  BY <1>3, ElementOfSeq DEF TypeOK
<1>5. request[r].approvals \in Seq(Approval)
  BY DEF TypeOK
<1>6. Subject(r) \in Existing(request[r].approvals)
  BY <1>3, <1>5, NewestExists DEF Subject
<1>7. request[r].approvals[Subject(r)] \in Approval
  BY <1>5, <1>6, ElementOfSeq, LenProperties DEF Existing
<1> QED  BY <1>1, <1>3, <1>4, <1>7

\* What a decision that is not refused does to the approvals.
LEMMA DecisionFacts ==
    ASSUME TypeOK, NEW r \in Requests, StillPending(r), NEW s \in ApprovalStatus,
           approvals' = [approvals EXCEPT ![Subject(r)].status = s]
    PROVE  /\ approvals' \in Seq(Approval)
           /\ Len(approvals') = Len(approvals)
           /\ DOMAIN approvals' = DOMAIN approvals
           /\ \A b \in DOMAIN approvals :
                 approvals'[b] = IF b = Subject(r) THEN [approvals[b] EXCEPT !.status = s]
                                 ELSE approvals[b]
<1> DEFINE a == Subject(r)
<1>1. approvals \in Seq(Approval)
  BY DEF TypeOK
<1> HIDE DEF a
<1>2. approvals' = [approvals EXCEPT ![a].status = s]
  BY DEF a
<1> QED  BY <1>1, <1>2, StatusSet DEF a

\* Every step keeps the types.
LEMMA TypeStep ==
    ASSUME TypeOK, [Next]_vars
    PROVE  TypeOK'
<1> USE ApprovalAssumption
<1>1. ASSUME NEW r \in Requests, NEW act \in Acts, Begin(r, act)
      PROVE  TypeOK'
  <2>1. [act |-> act, approvals |-> approvals]
            \in [act : Acts \cup {"none", "missing"}, approvals : Seq(Approval)]
    BY DEF TypeOK
  <2> QED  BY <1>1, <2>1 DEF Begin, TypeOK
<1>2. ASSUME NEW r \in Requests, Refuse(r)
      PROVE  TypeOK'
  BY <1>2, EndType DEF Refuse, TypeOK
<1>3. ASSUME NEW r \in Requests, Submit(r)
      PROVE  TypeOK'
  <2>1. CASE StartReview(WithoutRejected(request[r].approvals)) /\ End(r)
    <3> DEFINE before == WithoutRejected(request[r].approvals)
    <3>1. before \in Seq(Approval) /\ Len(before) = Len(approvals)
      BY WithoutRejectedType
    <3>2. StartReview(before)
      BY <2>1
    <3> HIDE DEF before
    <3> QED  BY <2>1, <3>1, <3>2, StartReviewType, EndType DEF TypeOK
  <2>2. CASE Refuse(r)
    BY <1>2, <2>2
  <2>3. CASE /\ request' = [request EXCEPT ![r] = [act |-> "missing", approvals |-> <<>>]]
             /\ UNCHANGED <<contract, approvals, records>>
    <3>1. [act |-> "missing", approvals |-> <<>>]
              \in [act : Acts \cup {"none", "missing"}, approvals : Seq(Approval)]
      BY EmptySeq
    <3> QED  BY <2>3, <3>1 DEF TypeOK
  <2> QED  BY <1>3, <2>1, <2>2, <2>3 DEF Submit
<1>4. ASSUME NEW r \in Requests, SubmitContract(r)
      PROVE  TypeOK'
  <2>1. CASE StartReview(approvals) /\ End(r)
    <3>1. approvals \in Seq(Approval)
      BY DEF TypeOK
    <3> QED  BY <2>1, <3>1, StartReviewType, EndType DEF TypeOK
  <2>2. CASE Refuse(r)
    BY <1>2, <2>2
  <2> QED  BY <1>4, <2>1, <2>2 DEF SubmitContract
<1>5. ASSUME NEW r \in Requests, Approve(r)
      PROVE  TypeOK'
  <2> DEFINE a == Subject(r)
             n == approvals[a].current_node
             rec == [approval |-> a, node |-> n, role |-> request[r].approvals[a].current_node]
  <2>1. CASE Refuse(r)
    BY <1>2, <2>1
  <2>2. CASE /\ StillPending(r)
             /\ records' = records \cup {rec}
             /\ ~LastNode(n)
             /\ approvals' = [approvals EXCEPT ![a].current_node = n + 1]
             /\ UNCHANGED contract
             /\ End(r)
    <3>1. /\ a \in 1 .. MaxApprovals
          /\ approvals[a] \in Approval
          /\ request[r].approvals[a] \in Approval
      BY <2>2, SubjectFacts
    <3>2. n \in 1 .. N /\ n + 1 \in 1 .. N
      BY <2>2, <3>1 DEF LastNode, Approval
    <3>3. rec \in Record
      BY <3>1 DEF Record, Approval
    <3>4. approvals \in Seq(Approval)
      BY DEF TypeOK
    <3> HIDE DEF a, n, rec
    <3>5. approvals' \in Seq(Approval) /\ Len(approvals') = Len(approvals)
      BY <2>2, <3>2, <3>4, NodeSet
    <3> QED  BY <2>2, <3>3, <3>5, EndType DEF TypeOK
  <2>3. CASE /\ StillPending(r)
             /\ records' = records \cup {rec}
             /\ approvals' = [approvals EXCEPT ![a].status = "APPROVED"]
             /\ contract' = [contract EXCEPT !.status = "SIGNED", !.approval_phase = "APPROVED"]
             /\ End(r)
    <3>1. rec \in Record
      BY <2>3, SubjectFacts DEF Record, Approval
    <3>2. approvals' \in Seq(Approval) /\ Len(approvals') = Len(approvals)
      BY <2>3, DecisionFacts DEF ApprovalStatus
    <3>3. contract' \in Contract
      BY <2>3 DEF TypeOK, Contract
    <3> HIDE DEF rec
    <3> QED  BY <2>3, <3>1, <3>2, <3>3, EndType DEF TypeOK
  <2> QED  BY <1>5, <2>1, <2>2, <2>3 DEF Approve
<1>6. ASSUME NEW r \in Requests, NEW s \in ApprovalStatus, StillPending(r),
             approvals' = [approvals EXCEPT ![Subject(r)].status = s],
             contract' \in Contract, UNCHANGED records, End(r)
      PROVE  TypeOK'
  BY <1>6, DecisionFacts, EndType DEF TypeOK
<1>7. ASSUME NEW r \in Requests, Reject(r)
      PROVE  TypeOK'
  <2>1. [contract EXCEPT !.status = "DRAFT", !.approval_phase = "REJECTED"] \in Contract
    BY DEF TypeOK, Contract
  <2> QED  BY <1>2, <1>6, <1>7, <2>1 DEF Reject, ApprovalStatus
<1>8. ASSUME NEW r \in Requests, Cancel(r)
      PROVE  TypeOK'
  <2>1. [contract EXCEPT !.status = "DRAFT", !.approval_phase = "DRAFT"] \in Contract
    BY DEF TypeOK, Contract
  <2> QED  BY <1>2, <1>6, <1>8, <2>1 DEF Cancel, ApprovalStatus
<1>9. ASSUME NEW r \in Requests, Edit(r)
      PROVE  TypeOK'
  <2>1. ASSUME contract.content < MaxEdits
        PROVE  [contract EXCEPT !.content = @ + 1] \in Contract
    <3>1. contract.content \in 0 .. MaxEdits
      BY DEF TypeOK, Contract
    <3>2. contract.content + 1 \in 0 .. MaxEdits
      BY <2>1, <3>1
    <3> QED  BY <3>2 DEF TypeOK, Contract
  <2> QED  BY <1>2, <1>9, <2>1, EndType DEF Edit, TypeOK
<1>10. ASSUME NEW r \in Requests, Delete(r)
       PROVE  TypeOK'
  <2>1. [contract EXCEPT !.deleted = TRUE, !.status = "DRAFT"] \in Contract
    BY DEF TypeOK, Contract
  <2> QED  BY <1>2, <1>10, <2>1, EndType DEF Delete, TypeOK
<1>11. CASE UNCHANGED vars
  BY <1>11 DEF vars, TypeOK
<1> QED
  BY <1>1, <1>3, <1>4, <1>5, <1>7, <1>8, <1>9, <1>10, <1>11 DEF Next, Finish

\* The rows, the records and what requests have seen always have the values the
\* schema allows, and no approval passes the end of its flow.
THEOREM TypeCorrect == Spec => []TypeOK
<1>1. Init => TypeOK
  <2> SUFFICES ASSUME Init PROVE TypeOK
    OBVIOUS
  <2>1. << >> \in Seq(Approval) /\ Len(<< >>) = 0
    BY EmptySeq
  <2>2. contract \in Contract
    BY ApprovalAssumption DEF Init, Contract
  <2> QED  BY <2>1, <2>2, ApprovalAssumption DEF Init, Idle, TypeOK
<1>2. TypeOK /\ [Next]_vars => TypeOK'
  BY TypeStep
<1> QED  BY <1>1, <1>2, PTL DEF Spec

-----------------------------------------------------------------------------
(* The inductive invariants *)

\* What Inv needs and Core does not: nobody else asks while a contract is
\* submitted by its own endpoint, or nobody uses that endpoint.
Serial == Alone \/ "submitContract" \notin Acts

\* The status of the contract follows its phase.
Follows ==
    /\ contract.approval_phase = "PENDING_REVIEW" <=> contract.status = "PENDING_REVIEW"
    /\ contract.approval_phase = "APPROVED" <=> contract.status = "SIGNED"

\* The contract is under review while exactly one approval is pending.
OnePending ==
    /\ contract.approval_phase = "PENDING_REVIEW" => \E a : Pending(approvals) = {a}
    /\ contract.approval_phase # "PENDING_REVIEW" => Pending(approvals) = {}

\* While the contract's own endpoint works nobody else does, so that what it
\* saw is still there when it writes.
Quiet ==
    \A r \in Requests :
        request[r].act = "submitContract" =>
            /\ contract.status = "DRAFT"
            /\ \A other \in Requests \ {r} : request[other].act \in {"none", "missing"}

\* The node n let approval a pass.
Passed(a, n) == \E rec \in records : rec.approval = a /\ rec.node = n

\* A pending approval has passed every node before its current one, an
\* approved one has passed them all.
Behind ==
    \A a \in DOMAIN approvals :
        /\ approvals[a].status = "PENDING" =>
              \A n \in 1 .. N : n < approvals[a].current_node => Passed(a, n)
        /\ approvals[a].status = "APPROVED" => \A n \in 1 .. N : Passed(a, n)

\* A signed contract has an approved approval.
SignedHasApproval ==
    contract.status = "SIGNED" => \E a \in DOMAIN approvals : approvals[a].status = "APPROVED"

Core ==
    /\ TypeOK
    /\ Follows
    /\ Behind
    /\ SignedHasApproval

Inv ==
    /\ Core
    /\ OnePending
    /\ Quiet

\* Both hold of a contract that was never submitted.
LEMMA InitInv == Init => Inv
<1> SUFFICES ASSUME Init PROVE Inv
  OBVIOUS
<1>1. TypeOK
  <2>1. << >> \in Seq(Approval) /\ Len(<< >>) = 0
    BY EmptySeq
  <2>2. contract \in Contract
    BY ApprovalAssumption DEF Init, Contract
  <2> QED  BY <2>1, <2>2, ApprovalAssumption DEF Init, Idle, TypeOK
<1>2. DOMAIN approvals = {}
  BY DEF Init
<1>3. Follows /\ OnePending /\ Behind /\ SignedHasApproval
  BY <1>2 DEF Init, Follows, OnePending, Pending, Behind, SignedHasApproval
<1>4. Quiet
  BY DEF Init, Idle, Quiet
<1> QED  BY <1>1, <1>3, <1>4 DEF Inv, Core

\* Nobody else works while the contract's own endpoint does, so a request that
\* works and then ends leaves nobody at that endpoint.
LEMMA EndQuiet ==
    ASSUME TypeOK, Quiet, NEW r \in Requests, NEW seen,
           request[r].act \notin {"none", "missing"},
           seen.act \in {"none", "missing"}, request' = [request EXCEPT ![r] = seen]
    PROVE  Quiet'
<1> SUFFICES ASSUME NEW q \in Requests, request'[q].act = "submitContract"
             PROVE  FALSE
  BY DEF Quiet
<1>1. \A p \in Requests : request'[p] = IF p = r THEN seen ELSE request[p]
  BY DEF TypeOK
<1>2. q # r /\ request[q].act = "submitContract"
  BY <1>1
<1> QED  BY <1>2 DEF Quiet

\* A request that begins respects the endpoint that works alone.
LEMMA BeginQuiet ==
    ASSUME Serial, TypeOK, Quiet, NEW r \in Requests, NEW act \in Acts, Begin(r, act)
    PROVE  Quiet'
<1> SUFFICES ASSUME NEW q \in Requests, request'[q].act = "submitContract"
             PROVE  /\ contract'.status = "DRAFT"
                    /\ \A other \in Requests \ {q} : request'[other].act \in {"none", "missing"}
  BY DEF Quiet
<1>1. /\ \A p \in Requests \ {r} : request'[p] = request[p]
      /\ request'[r].act = act
      /\ contract' = contract
  BY DEF Begin, TypeOK
<1>2. Alone
  <2>1. request'[q].act \in Acts \cup {"none", "missing"}
    BY <1>1 DEF TypeOK
  <2> QED  BY <2>1 DEF Serial
<1>3. ~Overlaps(r, act)
  BY <1>2 DEF Begin
<1>4. CASE q = r
  <2>1. contract.status = "DRAFT"
    BY <1>1, <1>4 DEF Begin, Admissible
  <2>2. \A other \in Requests \ {r} : request[other].act \in {"none", "missing"}
    BY <1>1, <1>3, <1>4 DEF Overlaps
  <2> QED  BY <1>1, <1>4, <2>1, <2>2
<1>5. CASE q # r
  <2>1. request[q].act = "submitContract"
    BY <1>1, <1>5
  <2> QED  BY <1>3, <1>5, <2>1 DEF Overlaps
<1> QED  BY <1>4, <1>5

\* Starting a review keeps what was let pass, and signs nothing.
LEMMA StartReviewCore ==
    ASSUME Core, NEW before \in Seq(Approval), Len(before) = Len(approvals),
           \A b \in DOMAIN approvals :
               before[b] = approvals[b] \/ before[b] = [approvals[b] EXCEPT !.status = "GONE"],
           StartReview(before)
    PROVE  /\ Follows' /\ Behind' /\ SignedHasApproval'
           /\ Pending(approvals) = {} => OnePending'
<1> DEFINE last == Len(before) + 1
<1>1. NewApproval \in Approval
  BY NewApprovalType DEF Core
<1>2. /\ approvals' = Append(before, NewApproval)
      /\ contract'.status = "PENDING_REVIEW"
      /\ contract'.approval_phase = "PENDING_REVIEW"
      /\ records' = records
  BY DEF StartReview, Core, TypeOK, Contract
<1>3. /\ Len(before) \in Nat
      /\ DOMAIN approvals = 1 .. Len(before)
      /\ DOMAIN approvals' = 1 .. last
      /\ \A b \in 1 .. Len(before) : approvals'[b] = before[b]
      /\ approvals'[last] = NewApproval
  BY <1>1, <1>2, AppendProperties, LenProperties DEF Core, TypeOK
<1>4. \A b \in 1 .. Len(before) :
          /\ approvals[b] \in Approval
          /\ approvals'[b] = approvals[b] \/ approvals'[b].status = "GONE"
  <2> SUFFICES ASSUME NEW b \in 1 .. Len(before)
               PROVE  /\ approvals[b] \in Approval
                      /\ approvals'[b] = approvals[b] \/ approvals'[b].status = "GONE"
    OBVIOUS
  <2>1. approvals[b] \in Approval
    BY ElementOfSeq DEF Core, TypeOK
  <2>2. [approvals[b] EXCEPT !.status = "GONE"].status = "GONE"
    BY <2>1 DEF Approval
  <2> QED  BY <1>3, <2>1, <2>2
<1>5. ASSUME Pending(approvals) = {}
      PROVE  Pending(approvals') = {last}
  <2>1. \A b \in 1 .. Len(before) : approvals'[b].status # "PENDING"
    BY <1>3, <1>4, <1>5 DEF Pending
  <2>2. approvals'[last].status = "PENDING"
    BY <1>3 DEF NewApproval
  <2>3. last \in DOMAIN approvals' /\ \A b \in DOMAIN approvals' : b = last \/ b \in 1 .. Len(before)
    BY <1>3
  <2> HIDE DEF last
  <2> QED  BY <2>1, <2>2, <2>3 DEF Pending
<1>6. Behind'
  <2> SUFFICES ASSUME NEW b \in DOMAIN approvals'
               PROVE  /\ approvals'[b].status = "PENDING" =>
                            \A n \in 1 .. N : n < approvals'[b].current_node => Passed(b, n)'
                      /\ approvals'[b].status = "APPROVED" => \A n \in 1 .. N : Passed(b, n)'
    BY DEF Behind
  <2>1. CASE b = last
    BY <1>3, <2>1, ApprovalAssumption DEF NewApproval
  <2>2. CASE b # last
    <3>1. b \in DOMAIN approvals /\ b \in 1 .. Len(before)
      BY <1>3, <2>2
    <3>2. \A n : Passed(b, n)' <=> Passed(b, n)
      BY <1>2 DEF Passed
    <3> HIDE DEF last
    <3> QED  BY <1>4, <3>1, <3>2 DEF Behind, Core
  <2> QED  BY <2>1, <2>2
<1> HIDE DEF last
<1> QED  BY <1>2, <1>5, <1>6 DEF Follows, OnePending, SignedHasApproval

\* A refusal keeps both invariants.
LEMMA RefuseInv ==
    ASSUME UNCHANGED <<contract, approvals, records>>
    PROVE  /\ Core /\ TypeOK' => Core'
           /\ OnePending => OnePending'
BY DEF Core, Follows, OnePending, Pending, Behind, Passed, SignedHasApproval

\* The generic submission starts a review.
LEMMA SubmitCore ==
    ASSUME Core, NEW r \in Requests, Submit(r), ~(UNCHANGED <<contract, approvals, records>>)
    PROVE  /\ Follows' /\ Behind' /\ SignedHasApproval'
           /\ contract.approval_phase \in {"DRAFT", "REJECTED"}
           /\ Pending(approvals) = {} => OnePending'
<1>1. Submittable /\ StartReview(WithoutRejected(request[r].approvals))
  BY DEF Submit, Refuse
<1> DEFINE before == WithoutRejected(request[r].approvals)
<1>2. /\ before \in Seq(Approval)
      /\ Len(before) = Len(approvals)
      /\ \A b \in DOMAIN approvals :
            before[b] = approvals[b] \/ before[b] = [approvals[b] EXCEPT !.status = "GONE"]
  BY WithoutRejectedType DEF Core
<1>3. StartReview(before)
  BY <1>1
<1> HIDE DEF before
<1> QED  BY <1>1, <1>2, <1>3, StartReviewCore DEF Submittable

\* So does the contract's own endpoint.
LEMMA SubmitContractCore ==
    ASSUME Core, NEW r \in Requests, SubmitContract(r), ~(UNCHANGED <<contract, approvals, records>>)
    PROVE  /\ Follows' /\ Behind' /\ SignedHasApproval'
           /\ Pending(approvals) = {} => OnePending'
<1>1. StartReview(approvals)
  BY DEF SubmitContract, Refuse
<1>2. approvals \in Seq(Approval)
  BY DEF Core, TypeOK
<1> QED  BY <1>1, <1>2, StartReviewCore

\* Passing a node records it; passing the last one signs the contract.
LEMMA ApproveCore ==
    ASSUME Core, NEW r \in Requests, Approve(r), ~Refuse(r)
    PROVE  Follows' /\ Behind' /\ SignedHasApproval'
<1>0. PICK a, n, rec :
          /\ a = Subject(r)
          /\ n = approvals[a].current_node
          /\ rec = [approval |-> a, node |-> n, role |-> request[r].approvals[a].current_node]
  OBVIOUS
<1>2. ~Refuse(r)
  OBVIOUS
<1> QED
  <2>1. StillPending(r) /\ records' = records \cup {rec}
    BY <1>0, <1>2 DEF Approve
  <2>2. /\ a \in DOMAIN approvals
        /\ approvals[a] \in Approval
        /\ approvals[a].status = "PENDING"
    BY <1>0, <2>1, SubjectFacts DEF Core
  <2>3. n \in 1 .. N
    BY <1>0, <2>2 DEF Approval
  <2>5. /\ \A b, m : Passed(b, m) => Passed(b, m)'
        /\ Passed(a, n)'
    <3>1. rec.approval = a /\ rec.node = n
      BY <1>0
    <3> QED  BY <2>1, <3>1 DEF Passed
  <2>6. \A m \in 1 .. N : m <= n => Passed(a, m)'
    <3>1. \A m \in 1 .. N : m < n => Passed(a, m)
      BY <1>0, <2>2 DEF Core, Behind
    <3>2. \A m \in 1 .. N : m <= n => m < n \/ m = n
      BY <2>3
    <3> QED  BY <2>5, <3>1, <3>2
  <2>7. approvals \in Seq(Approval) /\ \A b \in DOMAIN approvals : approvals[b] \in Approval
    BY ElementOfSeq, LenProperties DEF Core, TypeOK
  <2>8. CASE ~LastNode(n) /\ approvals' = [approvals EXCEPT ![a].current_node = n + 1] /\ UNCHANGED contract
    <3>1. n + 1 \in 1 .. N
      BY <2>3, <2>8, ApprovalAssumption DEF LastNode
    <3>2. /\ DOMAIN approvals' = DOMAIN approvals
          /\ \A b \in DOMAIN approvals :
                approvals'[b] = IF b = a THEN [approvals[b] EXCEPT !.current_node = n + 1]
                                ELSE approvals[b]
      <4> QED  BY <2>7, <2>8, <3>1, NodeSet
    <3>3. /\ \A b \in DOMAIN approvals : b # a => approvals'[b] = approvals[b]
          /\ approvals'[a].status = "PENDING"
          /\ approvals'[a].current_node = n + 1
      <4>1. approvals'[a] = [approvals[a] EXCEPT !.current_node = n + 1]
        BY <2>2, <3>2
      <4>2. \A b \in DOMAIN approvals : b # a => approvals'[b] = approvals[b]
        BY <3>2
      <4>3. [approvals[a] EXCEPT !.current_node = n + 1].status = "PENDING"
        BY <2>2 DEF Approval
      <4>4. [approvals[a] EXCEPT !.current_node = n + 1].current_node = n + 1
        BY <2>2 DEF Approval
      <4> QED  BY <4>1, <4>2, <4>3, <4>4
    <3>4. SignedHasApproval'
      BY <2>2, <2>8, <3>2, <3>3 DEF SignedHasApproval, Core
    <3>5. Behind'
      <4> SUFFICES ASSUME NEW b \in DOMAIN approvals
                   PROVE  /\ approvals'[b].status = "PENDING" =>
                                \A m \in 1 .. N : m < approvals'[b].current_node => Passed(b, m)'
                          /\ approvals'[b].status = "APPROVED" => \A m \in 1 .. N : Passed(b, m)'
        BY <3>2 DEF Behind
      <4>1. CASE b = a
        <5>1. \A m \in 1 .. N : m < n + 1 => m <= n
          BY <2>3
        <5> QED  BY <2>6, <3>3, <4>1, <5>1
      <4>2. CASE b # a
        BY <2>5, <3>3, <4>2 DEF Core, Behind
      <4> QED  BY <4>1, <4>2
    <3> QED
      BY <2>8, <3>4, <3>5 DEF Core, Follows
  <2>9. CASE /\ LastNode(n)
             /\ approvals' = [approvals EXCEPT ![a].status = "APPROVED"]
             /\ contract' = [contract EXCEPT !.status = "SIGNED", !.approval_phase = "APPROVED"]
    <3>1. /\ DOMAIN approvals' = DOMAIN approvals
          /\ \A b \in DOMAIN approvals :
                approvals'[b] = IF b = a THEN [approvals[b] EXCEPT !.status = "APPROVED"]
                                ELSE approvals[b]
      BY <1>0, <2>1, <2>9, DecisionFacts DEF Core, ApprovalStatus
    <3>2. approvals'[a].status = "APPROVED"
      BY <2>2, <3>1 DEF Approval
    <3>4. contract'.status = "SIGNED" /\ contract'.approval_phase = "APPROVED"
      BY <2>9 DEF Core, TypeOK, Contract
    <3>5. \A m \in 1 .. N : m <= n
      BY <2>9, ApprovalAssumption DEF LastNode
    <3>6. Behind'
      <4> SUFFICES ASSUME NEW b \in DOMAIN approvals
                   PROVE  /\ approvals'[b].status = "PENDING" =>
                                \A m \in 1 .. N : m < approvals'[b].current_node => Passed(b, m)'
                          /\ approvals'[b].status = "APPROVED" => \A m \in 1 .. N : Passed(b, m)'
        BY <3>1 DEF Behind
      <4>1. CASE b = a
        BY <2>6, <3>2, <3>5, <4>1
      <4>2. CASE b # a
        BY <2>5, <3>1, <4>2 DEF Core, Behind
      <4> QED  BY <4>1, <4>2
    <3>7. SignedHasApproval'
      BY <2>2, <3>1, <3>2 DEF SignedHasApproval
    <3> QED  BY <3>4, <3>6, <3>7 DEF Follows
  <2> QED  BY <1>0, <1>2, <2>8, <2>9 DEF Approve

\* Rejections and cancellations.
LEMMA EndReviewCore ==
    ASSUME Core, NEW r \in Requests, StillPending(r), NEW s \in {"REJECTED", "CANCELLED"},
           approvals' = [approvals EXCEPT ![Subject(r)].status = s],
           contract'.status = "DRAFT", contract'.approval_phase \in {"DRAFT", "REJECTED"},
           UNCHANGED records
    PROVE  Follows' /\ Behind' /\ SignedHasApproval'
<1>1. s \in ApprovalStatus /\ s # "PENDING"
  BY DEF ApprovalStatus
<1>3. /\ DOMAIN approvals' = DOMAIN approvals
      /\ \A b \in DOMAIN approvals :
            approvals'[b] = IF b = Subject(r) THEN [approvals[b] EXCEPT !.status = s] ELSE approvals[b]
  BY <1>1, DecisionFacts DEF Core
<1>4. Behind'
  <2> SUFFICES ASSUME NEW b \in DOMAIN approvals
               PROVE  /\ approvals'[b].status = "PENDING" =>
                            \A m \in 1 .. N : m < approvals'[b].current_node => Passed(b, m)'
                      /\ approvals'[b].status = "APPROVED" => \A m \in 1 .. N : Passed(b, m)'
    BY <1>3 DEF Behind
  <2>1. CASE b = Subject(r)
    <3>1. approvals[b] \in Approval
      BY <2>1, SubjectFacts DEF Core
    <3>2. approvals'[b].status = s
      BY <1>3, <2>1, <3>1 DEF Approval
    <3> QED  BY <3>2
  <2>2. CASE b # Subject(r)
    <3>1. approvals'[b] = approvals[b]
      BY <1>3, <2>2
    <3>2. \A m : Passed(b, m)' <=> Passed(b, m)
      BY DEF Passed
    <3> QED  BY <3>1, <3>2 DEF Core, Behind
  <2> QED  BY <2>1, <2>2
<1> QED  BY <1>4 DEF Follows, SignedHasApproval

\* A rejection ends the review.
LEMMA RejectCore ==
    ASSUME Core, NEW r \in Requests, Reject(r), ~Refuse(r)
    PROVE  Follows' /\ Behind' /\ SignedHasApproval'
<1>1. ~Refuse(r)
  OBVIOUS
<1> QED
  <2>1. /\ StillPending(r)
        /\ approvals' = [approvals EXCEPT ![Subject(r)].status = "REJECTED"]
        /\ contract' = [contract EXCEPT !.status = "DRAFT", !.approval_phase = "REJECTED"]
        /\ UNCHANGED records
    BY <1>1 DEF Reject
  <2>2. contract'.status = "DRAFT" /\ contract'.approval_phase = "REJECTED"
    BY <2>1 DEF Core, TypeOK, Contract
  <2> QED  BY <2>1, <2>2, EndReviewCore

\* A cancellation ends the review.
LEMMA CancelCore ==
    ASSUME Core, NEW r \in Requests, Cancel(r), ~Refuse(r)
    PROVE  Follows' /\ Behind' /\ SignedHasApproval'
<1>1. ~Refuse(r)
  OBVIOUS
<1> QED
  <2>1. /\ StillPending(r)
        /\ approvals' = [approvals EXCEPT ![Subject(r)].status = "CANCELLED"]
        /\ contract' = [contract EXCEPT !.status = "DRAFT", !.approval_phase = "DRAFT"]
        /\ UNCHANGED records
    BY <1>1 DEF Cancel
  <2>2. contract'.status = "DRAFT" /\ contract'.approval_phase = "DRAFT"
    BY <2>1 DEF Core, TypeOK, Contract
  <2> QED  BY <2>1, <2>2, EndReviewCore

\* Edits and deletions leave status and phase as they are.
LEMMA KeepCore ==
    ASSUME Core, NEW r \in Requests, Edit(r) \/ Delete(r)
    PROVE  /\ Follows' /\ Behind' /\ SignedHasApproval'
           /\ OnePending => OnePending'
<1>1. /\ contract'.status = contract.status
      /\ contract'.approval_phase = contract.approval_phase
      /\ UNCHANGED <<approvals, records>>
  <2>1. contract \in Contract
    BY DEF Core, TypeOK
  <2>2. CASE Edit(r)
    BY <2>1, <2>2 DEF Edit, Refuse, Contract
  <2>3. CASE Delete(r)
    BY <2>1, <2>3 DEF Delete, Refuse, Deletable, Contract
  <2> QED  BY <2>2, <2>3
<1> QED
  BY <1>1 DEF Core, Follows, OnePending, Pending, Behind, Passed, SignedHasApproval

\* Whatever overlaps, every step keeps Core.
LEMMA StepCore ==
    ASSUME Core, [Next]_vars
    PROVE  Core'
<1>1. TypeOK'
  BY TypeStep DEF Core
<1>2. CASE UNCHANGED <<contract, approvals, records>>
  BY <1>1, <1>2, RefuseInv
<1>3. CASE ~(UNCHANGED <<contract, approvals, records>>)
  <2>1. PICK r \in Requests : Finish(r)
    BY <1>3 DEF Next, Begin, vars
  <2>2. ~Refuse(r)
    BY <1>3 DEF Refuse
  <2>3. Follows' /\ Behind' /\ SignedHasApproval'
    BY <1>3, <2>1, <2>2, SubmitCore, SubmitContractCore, ApproveCore, RejectCore, CancelCore, KeepCore
       DEF Finish
  <2> QED  BY <1>1, <2>3 DEF Core
<1> QED  BY <1>2, <1>3

\* Core holds in every reachable state.
THEOREM CoreHolds == Spec => []Core
<1>1. Init => Core
  BY InitInv DEF Inv
<1> QED  BY <1>1, StepCore, PTL DEF Spec

-----------------------------------------------------------------------------
(* Under Serial one approval is pending at a time. *)

\* A pending approval is the only one, and the contract is under review.
LEMMA PendingAlone ==
    ASSUME Inv, NEW r \in Requests, StillPending(r)
    PROVE  /\ contract.approval_phase = "PENDING_REVIEW"
           /\ Pending(approvals) = {Subject(r)}
<1>1. Subject(r) \in Pending(approvals)
  BY DEF StillPending, Pending
<1> QED  BY <1>1 DEF Inv, OnePending

\* A decision that ends the review leaves no approval pending.
LEMMA DecisionInv ==
    ASSUME Inv, NEW r \in Requests, StillPending(r), NEW s \in ApprovalStatus, s # "PENDING",
           approvals' = [approvals EXCEPT ![Subject(r)].status = s]
    PROVE  Pending(approvals') = {}
<1>1. /\ DOMAIN approvals' = DOMAIN approvals
      /\ \A b \in DOMAIN approvals :
            approvals'[b] = IF b = Subject(r) THEN [approvals[b] EXCEPT !.status = s] ELSE approvals[b]
  BY DecisionFacts DEF Inv, Core
<1>2. Pending(approvals) = {Subject(r)}
  BY PendingAlone
<1>3. Subject(r) \in DOMAIN approvals /\ approvals[Subject(r)] \in Approval
  BY SubjectFacts DEF Inv, Core
<1>4. approvals'[Subject(r)].status = s
  BY <1>1, <1>3 DEF Approval
<1>5. \A b \in DOMAIN approvals : b # Subject(r) => approvals'[b].status # "PENDING"
  BY <1>1, <1>2 DEF Pending
<1> QED  BY <1>1, <1>4, <1>5 DEF Pending

\* The last node, a rejection or a cancellation ends the one review; another
\* node leaves it pending.
LEMMA DecisionOne ==
    ASSUME Inv, NEW r \in Requests, Approve(r) \/ Reject(r) \/ Cancel(r), ~Refuse(r)
    PROVE  OnePending'
<1>1. StillPending(r)
  BY DEF Approve, Reject, Cancel
<1>2. contract \in Contract /\ approvals \in Seq(Approval)
  BY DEF Inv, Core, TypeOK
<1>3. CASE UNCHANGED contract
  <2> DEFINE a == Subject(r)
             n == approvals[a].current_node
  <2>1. Approve(r) /\ ~LastNode(n) /\ approvals' = [approvals EXCEPT ![a].current_node = n + 1]
    <3>1. ~(\E s \in {"DRAFT", "SIGNED"} : contract' = [contract EXCEPT !.status = s, !.approval_phase = "APPROVED"])
      BY <1>1, <1>2, <1>3, PendingAlone DEF Contract
    <3>2. ~(\E p \in {"DRAFT", "REJECTED"} : contract' = [contract EXCEPT !.status = "DRAFT", !.approval_phase = p])
      BY <1>1, <1>2, <1>3, PendingAlone DEF Contract
    <3> QED  BY <3>1, <3>2 DEF Approve, Reject, Cancel
  <2>2. a \in DOMAIN approvals /\ approvals[a] \in Approval
    BY <1>1, SubjectFacts DEF Inv, Core
  <2>3. n + 1 \in 1 .. N
    BY <2>1, <2>2, ApprovalAssumption DEF Approval, LastNode
  <2> HIDE DEF a, n
  <2>4. /\ DOMAIN approvals' = DOMAIN approvals
        /\ \A b \in DOMAIN approvals :
              approvals'[b] = IF b = a THEN [approvals[b] EXCEPT !.current_node = n + 1]
                              ELSE approvals[b]
    BY <1>2, <2>1, <2>3, NodeSet
  <2>5. \A b \in DOMAIN approvals : approvals'[b].status = approvals[b].status
    BY <2>2, <2>4 DEF Approval
  <2>6. Pending(approvals') = Pending(approvals)
    BY <2>4, <2>5 DEF Pending
  <2> QED  BY <1>3, <2>6 DEF Inv, OnePending
<1>4. CASE ~(UNCHANGED contract)
  <2>1. PICK s \in {"APPROVED", "REJECTED", "CANCELLED"}, p \in {"APPROVED", "REJECTED", "DRAFT"},
             t \in {"SIGNED", "DRAFT"} :
          /\ approvals' = [approvals EXCEPT ![Subject(r)].status = s]
          /\ contract' = [contract EXCEPT !.status = t, !.approval_phase = p]
    BY <1>4 DEF Approve, Reject, Cancel
  <2>2. contract'.approval_phase = p
    BY <1>2, <2>1 DEF Contract
  <2>3. Pending(approvals') = {}
    BY <1>1, <2>1, DecisionInv DEF ApprovalStatus
  <2> QED  BY <2>2, <2>3 DEF OnePending
<1> QED  BY <1>3, <1>4

\* Submissions start a review only while none is under way: the generic one
\* reads it under its lock, the other saw it and nobody else came since.
LEMMA StepOne ==
    ASSUME Inv, NEW r \in Requests, Finish(r)
    PROVE  OnePending'
<1>1. Core
  BY DEF Inv
<1>2. CASE UNCHANGED <<contract, approvals, records>>
  BY <1>2, RefuseInv DEF Inv
<1>3. CASE ~(UNCHANGED <<contract, approvals, records>>)
  <2>1. CASE Submit(r)
    BY <1>1, <1>3, <2>1, SubmitCore DEF Inv, OnePending
  <2>2. CASE SubmitContract(r)
    <3>1. Pending(approvals) = {}
      BY <1>1, <2>2 DEF SubmitContract, Inv, Quiet, Core, Follows, OnePending
    <3> QED  BY <1>1, <1>3, <2>2, <3>1, SubmitContractCore
  <2>3. CASE Approve(r) \/ Reject(r) \/ Cancel(r)
    BY <1>3, <2>3, DecisionOne DEF Refuse
  <2>4. CASE Edit(r) \/ Delete(r)
    BY <1>1, <2>4, KeepCore DEF Inv
  <2> QED  BY <2>1, <2>2, <2>3, <2>4 DEF Finish
<1> QED  BY <1>2, <1>3

\* A request that ends leaves the own endpoint alone.
LEMMA FinishQuiet ==
    ASSUME Inv, NEW r \in Requests, Finish(r)
    PROVE  Quiet'
<1>1. request[r].act \notin {"none", "missing"}
  BY DEF Finish, Submit, SubmitContract, Approve, Reject, Cancel, Edit, Delete
<1>2. CASE End(r)
  BY <1>1, <1>2, EndQuiet DEF End, Idle, Inv, Core
<1>3. CASE request' = [request EXCEPT ![r] = [act |-> "missing", approvals |-> <<>>]]
  <2> DEFINE seen == [act |-> "missing", approvals |-> <<>>]
  <2>1. seen.act \in {"none", "missing"}
    OBVIOUS
  <2>2. request' = [request EXCEPT ![r] = seen]
    BY <1>3
  <2> HIDE DEF seen
  <2> QED  BY <1>1, <2>1, <2>2, EndQuiet DEF Inv, Core
<1> QED
  BY <1>2, <1>3 DEF Finish, Submit, SubmitContract, Approve, Reject, Cancel, Edit, Delete, Refuse

\* Every step keeps the invariant.
LEMMA StepInv ==
    ASSUME Serial, Inv, [Next]_vars
    PROVE  Inv'
<1>1. Core' /\ TypeOK
  BY StepCore DEF Inv, Core
<1>2. ASSUME NEW r \in Requests, NEW act \in Acts, Begin(r, act)
      PROVE  OnePending' /\ Quiet'
  BY <1>1, <1>2, BeginQuiet, RefuseInv DEF Begin, Inv
<1>3. ASSUME NEW r \in Requests, Finish(r)
      PROVE  OnePending' /\ Quiet'
  BY <1>3, StepOne, FinishQuiet
<1>4. CASE UNCHANGED vars
  <2>1. Quiet'
    BY <1>4 DEF vars, Inv, Quiet
  <2> QED  BY <1>1, <1>4, <2>1, RefuseInv DEF vars, Inv
<1> QED  BY <1>1, <1>2, <1>3, <1>4 DEF Next, Inv

\* Under Serial the invariant holds in every reachable state.
THEOREM Invariance ==
    ASSUME Serial
    PROVE  Spec => []Inv
<1>1. Inv /\ [Next]_vars => Inv'
  BY StepInv
<1> QED  BY <1>1, InitInv, PTL DEF Spec

-----------------------------------------------------------------------------
(* What follows from the invariant *)

\* A contract is under review exactly while one approval of it is pending, if
\* its own endpoint does not overlap with another request (Serial, which the
\* code does not ensure).
THEOREM ReviewsAreSingle ==
    ASSUME Serial
    PROVE  Spec => []UnderReviewHasOneApproval
<1>1. Inv => UnderReviewHasOneApproval
  BY FS_Singleton DEF Inv, OnePending, UnderReviewHasOneApproval
<1> QED  BY <1>1, Invariance, PTL

\* A contract is signed only on an approval that every node has let pass, also
\* when the contract's own endpoint overlaps and two approvals are pending.
THEOREM SignaturesAreComplete == Spec => []SignedByAllNodes
<1>1. Core => SignedByAllNodes
  BY DEF Core, Behind, Passed, SignedHasApproval, SignedByAllNodes
<1> QED  BY <1>1, CoreHolds, PTL

\* Whatever overlaps, a signature falls only to the decision of a second
\* approval that is still pending, or to the contract's own endpoint: neither
\* the generic submission nor an edit or a deletion takes it back.
THEOREM SignaturesFallOnlyToASecondReview == Spec => SignatureFallsOnlyToASecondReview
<1> DEFINE Cause == \/ Pending(approvals) # {}
                    \/ \E r \in Requests : request[r].act = "submitContract" /\ request'[r] = Idle
<1>1. ASSUME Core, Next, contract.status = "SIGNED", contract'.status # "SIGNED"
      PROVE  Cause
  <2>1. contract.approval_phase = "APPROVED" /\ contract \in Contract
    BY <1>1 DEF Core, Follows, TypeOK
  <2>2. PICK r \in Requests : Finish(r)
    BY <1>1 DEF Next, Begin
  <2>3. CASE Submit(r)
    BY <1>1, <2>1, <2>3 DEF Submit, Submittable, Refuse
  <2>4. CASE SubmitContract(r)
    BY <1>1, <2>4 DEF SubmitContract, Refuse, End, Core, TypeOK
  <2>5. CASE Approve(r) \/ Reject(r) \/ Cancel(r)
    <3>1. StillPending(r)
      BY <1>1, <2>5 DEF Approve, Reject, Cancel, Refuse
    <3> QED  BY <3>1 DEF StillPending, Pending
  <2>6. CASE Edit(r)
    BY <1>1, <2>1, <2>6 DEF Edit, Refuse, Contract
  <2>7. CASE Delete(r)
    BY <1>1, <2>7 DEF Delete, Deletable, Refuse
  <2> HIDE DEF Cause
  <2> QED  BY <2>2, <2>3, <2>4, <2>5, <2>6, <2>7 DEF Finish
<1>2. Core /\ [Next]_vars => [contract.status = "SIGNED" /\ contract'.status # "SIGNED" => Cause]_vars
  <2> HIDE DEF Cause
  <2> QED  BY <1>1 DEF vars
<1> QED  BY <1>2, CoreHolds, PTL DEF Spec, SignatureFallsOnlyToASecondReview

\* If the contract's own endpoint does not overlap with another request (Serial,
\* which the code does not ensure), no request takes the signature back, however
\* old its snapshot is.
THEOREM SignaturesAreFinal ==
    ASSUME Serial
    PROVE  Spec => SignedIsFinal
<1>1. ASSUME Inv, [Next]_vars, contract.status = "SIGNED"
      PROVE  contract'.status = "SIGNED"
  <2>1. contract.approval_phase = "APPROVED" /\ contract \in Contract
    BY <1>1 DEF Inv, Core, Follows, TypeOK
  <2>2. \A r \in Requests : ~StillPending(r)
    BY <1>1, <2>1, PendingAlone
  <2>3. ASSUME NEW r \in Requests, Finish(r)
        PROVE  contract'.status = "SIGNED"
    <3>1. CASE Submit(r)
      BY <1>1, <2>1, <3>1 DEF Submit, Submittable, Refuse
    <3>2. CASE SubmitContract(r)
      BY <1>1, <3>2 DEF SubmitContract, Inv, Quiet
    <3>3. CASE Approve(r) \/ Reject(r) \/ Cancel(r)
      BY <1>1, <2>2, <3>3 DEF Approve, Reject, Cancel, Refuse
    <3>4. CASE Edit(r)
      BY <1>1, <2>1, <3>4 DEF Edit, Refuse, Contract
    <3>5. CASE Delete(r)
      BY <1>1, <3>5 DEF Delete, Deletable, Refuse
    <3> QED  BY <2>3, <3>1, <3>2, <3>3, <3>4, <3>5 DEF Finish
  <2>4. ASSUME NEW r \in Requests, NEW act \in Acts, Begin(r, act)
        PROVE  contract'.status = "SIGNED"
    BY <1>1, <2>4 DEF Begin
  <2> QED  BY <1>1, <2>3, <2>4 DEF Next, vars
<1>2. Inv /\ [Next]_vars => [contract.status = "SIGNED" => contract'.status = "SIGNED"]_vars
  BY <1>1
<1> QED  BY <1>2, Invariance, PTL DEF Spec, SignedIsFinal

\* Neither two decisions at once nor a later request changes what was decided.
\* This needs no more than the row lock and the status read under it, so it
\* also holds when submissions overlap.
THEOREM DecisionsStay == Spec => DecidedStays
<1> DEFINE Kept == \A a \in DOMAIN approvals :
                       approvals[a].status # "PENDING" =>
                           approvals'[a] \in {approvals[a], [approvals[a] EXCEPT !.status = "GONE"]}
<1>1. ASSUME UNCHANGED approvals
      PROVE  Kept
  BY <1>1
<1>2. ASSUME TypeOK, NEW before \in Seq(Approval), Len(before) = Len(approvals), StartReview(before),
             \A b \in DOMAIN approvals :
                 before[b] = approvals[b] \/ before[b] = [approvals[b] EXCEPT !.status = "GONE"]
      PROVE  Kept
  <2>1. \A b \in 1 .. Len(before) : approvals'[b] = before[b]
    BY <1>2, NewApprovalType, AppendProperties DEF StartReview
  <2>2. DOMAIN approvals = 1 .. Len(before)
    BY <1>2, LenProperties DEF TypeOK
  <2> QED  BY <1>2, <2>1, <2>2
<1>3. ASSUME TypeOK, NEW r \in Requests, Finish(r)
      PROVE  Kept
  <2> DEFINE seen == request[r].approvals
  <2>1. CASE Submit(r)
    <3>1. CASE StartReview(WithoutRejected(seen))
      <4> DEFINE before == WithoutRejected(seen)
      <4>1. /\ before \in Seq(Approval)
            /\ Len(before) = Len(approvals)
            /\ \A b \in DOMAIN approvals :
                  before[b] = approvals[b] \/ before[b] = [approvals[b] EXCEPT !.status = "GONE"]
        BY <1>3, WithoutRejectedType
      <4>2. StartReview(before)
        BY <3>1
      <4> HIDE DEF before, Kept
      <4> QED  BY <1>2, <1>3, <4>1, <4>2
    <3> HIDE DEF Kept
    <3> QED  BY <1>1, <2>1, <3>1 DEF Submit, Refuse
  <2>2. CASE SubmitContract(r)
    <3>1. approvals \in Seq(Approval)
      BY <1>3 DEF TypeOK
    <3> HIDE DEF Kept
    <3> QED  BY <1>1, <1>2, <1>3, <2>2, <3>1 DEF SubmitContract, Refuse
  <2>3. CASE Approve(r) \/ Reject(r) \/ Cancel(r)
    <3>1. CASE Refuse(r)
      BY <1>1, <3>1 DEF Refuse
    <3>2. CASE ~Refuse(r)
      <4>1. StillPending(r)
        BY <2>3, <3>2 DEF Approve, Reject, Cancel
      <4>2. \A b \in DOMAIN approvals : b # Subject(r) => approvals'[b] = approvals[b]
        BY <2>3, <3>2 DEF Approve, Reject, Cancel
      <4>3. approvals[Subject(r)].status = "PENDING"
        BY <4>1 DEF StillPending
      <4> QED  BY <4>2, <4>3
    <3> HIDE DEF Kept
    <3> QED  BY <3>1, <3>2
  <2>4. CASE Edit(r) \/ Delete(r)
    BY <1>1, <2>4 DEF Edit, Delete, Refuse
  <2> HIDE DEF Kept
  <2> QED  BY <1>3, <2>1, <2>2, <2>3, <2>4 DEF Finish
<1>4. TypeOK /\ [Next]_vars => [Kept]_vars
  <2> HIDE DEF Kept
  <2> QED  BY <1>1, <1>3 DEF Next, Begin, vars
<1> QED  BY <1>4, TypeCorrect, PTL DEF Spec, DecidedStays

\* If the contract's own endpoint does not overlap with another request (Serial,
\* which the code does not ensure), a contract that is under review or signed is
\* not deleted: what the deletion reads under its lock is enough, whatever its
\* snapshot showed.
THEOREM DeletionsSpareReviewed ==
    ASSUME Serial
    PROVE  Spec => DeletionSparesReviewed
<1>1. ASSUME Inv, [Next]_vars, contract'.deleted, ~contract.deleted
      PROVE  Pending(approvals) = {} /\ contract.status = "DRAFT"
  <2>1. contract \in Contract
    BY <1>1 DEF Inv, Core, TypeOK
  <2>2. PICK r \in Requests : Delete(r)
    <3>1. \A r \in Requests : Submit(r) \/ SubmitContract(r) \/ Approve(r) \/ Reject(r)
                                \/ Cancel(r) \/ Edit(r) => contract'.deleted = contract.deleted
      BY <2>1 DEF Submit, SubmitContract, StartReview, Approve, Reject, Cancel, Edit, Refuse, Contract
    <3> QED  BY <1>1, <3>1 DEF Next, Finish, Begin, vars
  <2>3. Deletable(r)
    BY <1>1, <2>2 DEF Delete, Refuse
  <2> QED  BY <1>1, <2>3 DEF Deletable, Inv, OnePending
<1>2. Inv /\ [Next]_vars =>
          [contract'.deleted /\ ~contract.deleted => Pending(approvals) = {} /\ contract.status = "DRAFT"]_vars
  BY <1>1
<1> QED  BY <1>2, Invariance, PTL DEF Spec, DeletionSparesReviewed

\* With the optimistic lock, what the approver was let in for is what is decided.
THEOREM NodesAreDecidedByTheirRole ==
    ASSUME Dated
    PROVE  Spec => []NodeDecidedByItsRole
<1>1. Init => NodeDecidedByItsRole
  BY DEF Init, NodeDecidedByItsRole
<1>2. NodeDecidedByItsRole /\ [Next]_vars => NodeDecidedByItsRole'
  <2> SUFFICES ASSUME NodeDecidedByItsRole, [Next]_vars, ~(records' = records)
               PROVE  NodeDecidedByItsRole'
    BY DEF NodeDecidedByItsRole
  <2>1. PICK r \in Requests : Approve(r)
    BY DEF Next, Finish, Begin, Submit, SubmitContract, StartReview, Reject, Cancel, Edit, Delete,
           Refuse, vars
  <2>2. /\ approvals[Subject(r)] = request[r].approvals[Subject(r)]
        /\ records' = records \cup {[approval |-> Subject(r),
                                      node |-> approvals[Subject(r)].current_node,
                                      role |-> request[r].approvals[Subject(r)].current_node]}
    BY <2>1 DEF Approve, AsSeen, Refuse
  <2> QED  BY <2>2 DEF NodeDecidedByItsRole
<1> QED  BY <1>1, <1>2, PTL DEF Spec
=============================================================================
