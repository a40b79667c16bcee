----------------------------- MODULE PaymentLedger -----------------------------
(***************************************************************************)
(* The requests that write the books of a signed contract (PaymentBooks):  *)
(* crud/payment.py with the endpoints of api/payments.py, the payment      *)
(* adapter of services/approval_adapter.py and the receipts of             *)
(* services/command_execution_service.py.                                  *)
(*                                                                         *)
(* A contract's amount is split into payment plans; payments are           *)
(* registered against a plan, at most up to its amount, and pass an        *)
(* approval.  A plan's status and the contract's paid amount and status    *)
(* are derived, kept in their rows and written by whoever changes what     *)
(* they are derived from.                                                  *)
(*                                                                         *)
(* Every request is one transaction under REPEATABLE READ.  Its first read *)
(* fixes what it sees (seen); later plain reads, db.refresh included, show *)
(* that and the transaction's own changes.  Only rows read FOR UPDATE are  *)
(* current: the plan and its payments when a payment is registered or its  *)
(* amount corrected, the payment when it is decided.  The contract's lock  *)
(* is taken by those who plan, but the plans are then added up as seen.    *)
(***************************************************************************)
EXTENDS PaymentBooks

CONSTANTS
    Requests,    \* requests that are handled at the same time
    Acts,        \* what requests do
    Alone        \* acts that do not overlap with any other

Act == {"createPlan", "updatePlan", "deletePlan", "register", "correct", "remove",
        "submit", "approve", "reject", "cancel"}

ASSUME LedgerAssumption == Acts \subseteq Act /\ Alone \subseteq Act

VARIABLE request    \* what each request does and what it has seen

vars == <<contract, plan, record, command, request>>

Seen == [contract : Contract, plan : [Plans -> Plan], record : [Keys -> Record]]
Call == [act : Acts \cup {"none", "failed", "unknown"}, plan : Plans, key : Keys,
         amount : 0 .. Total, seen : Seen]

TypeOK ==
    /\ contract \in Contract
    /\ plan \in [Plans -> Plan]
    /\ record \in [Keys -> Record]
    /\ command \in [Keys -> {"NONE", "SUCCEEDED", "FAILED", "UNKNOWN"}]
    /\ request \in [Requests -> Call]

Idle == [act |-> "none", plan |-> CHOOSE p \in Plans : TRUE, key |-> CHOOSE k \in Keys : TRUE,
         amount |-> 0,
         seen |-> [contract |-> Unpaid, plan |-> [p \in Plans |-> NoPlan],
                   record |-> [k \in Keys |-> NoRecord]]]

Init ==
    /\ contract = Unpaid
    /\ plan = [p \in Plans |-> NoPlan]
    /\ record = [k \in Keys |-> NoRecord]
    /\ command = [k \in Keys |-> "NONE"]
    /\ request = [r \in Requests |-> Idle]

\* The ORM writes a column only if it differs from what was loaded.
WriteContract(r, derived) ==
    contract' = [f \in DOMAIN contract |->
                    IF derived[f] = request[r].seen.contract[f] THEN contract[f] ELSE derived[f]]

\* Derives the status of plan p, then the contract's, from plans and records as
\* the request sees them; base is the plan table with its other changes.
Derive(r, p, plans, records, base) ==
    LET status == StatusOf(plans, records, p)
    IN  /\ plan' = IF status = request[r].seen.plan[p].status THEN base
                   ELSE [base EXCEPT ![p].status = status]
        /\ WriteContract(r, ContractOf([plans EXCEPT ![p].status = status], records))

-----------------------------------------------------------------------------
(* The life of a request. *)

\* What the endpoints check before anything is locked.
Admissible(act, p, k, a) ==
    CASE act = "createPlan" -> plan[p].status = "NONE" /\ a > 0
      [] act = "updatePlan" -> /\ plan[p].status \in PlanStatus \ {"COMPLETED"}
                               /\ RecordsOf(record, p) = {} /\ a > 0
      [] act = "deletePlan" -> plan[p].status \in PlanStatus /\ RecordsOf(record, p) = {} /\ a = 0
      [] act = "register"   -> plan[p].status \in PlanStatus \ {"COMPLETED"} /\ a > 0
      [] act = "correct"    -> record[k].phase \in {"DRAFT", "REJECTED"} /\ a > 0
      [] act = "remove"     -> record[k].phase \in {"DRAFT", "REJECTED"} /\ a = 0
      [] OTHER              -> record[k].phase \in Phase /\ a = 0

\* Requests about a payment are about its plan, those about a plan about no key.
Addressed(act, p, k) ==
    CASE act = "register" -> TRUE
      [] act \in {"createPlan", "updatePlan", "deletePlan"} -> k = Idle.key
      [] OTHER -> p = record[k].plan

Overlaps(r, act) ==
    \E other \in Requests \ {r} :
        request[other].act # "none" /\ {act, request[other].act} \cap Alone # {}

Begin(r, act, p, k, a) ==
    /\ request[r].act = "none"
    /\ ~Overlaps(r, act)
    /\ Addressed(act, p, k)
    /\ Admissible(act, p, k, a)
    /\ request' = [request EXCEPT ![r] =
                      [act |-> act, plan |-> p, key |-> k, amount |-> a,
                       seen |-> [contract |-> contract, plan |-> plan, record |-> record]]]
    /\ UNCHANGED <<contract, plan, record, command>>

End(r) == request' = [request EXCEPT ![r] = Idle]

\* The request is refused, fails or dies; nothing is written.
Refuse(r) ==
    /\ request[r].act # "none"
    /\ End(r)
    /\ UNCHANGED <<contract, plan, record, command>>

-----------------------------------------------------------------------------
(* Planning. *)

\* create, batch_create: the contract is locked, the other plans are as seen,
\* and nothing is derived anew.
CreatePlan(r) ==
    LET me == request[r]
    IN  /\ me.act = "createPlan"
        /\ Planned(me.seen.plan) + me.amount <= Total
        /\ plan[me.plan].status = "NONE"
        /\ plan' = [plan EXCEPT ![me.plan] = [status |-> "PENDING", amount |-> me.amount]]
        /\ UNCHANGED <<contract, record, command>>
        /\ End(r)

\* PaymentPlanCRUD.update
UpdatePlan(r) ==
    LET me == request[r]
        mine == [me.seen.plan EXCEPT ![me.plan].amount = me.amount]
    IN  /\ me.act = "updatePlan"
        /\ Planned(mine) > Planned(me.seen.plan) => Planned(mine) <= Total
        /\ plan[me.plan].status \in PlanStatus
        /\ Derive(r, me.plan, mine, me.seen.record, [plan EXCEPT ![me.plan].amount = me.amount])
        /\ UNCHANGED <<record, command>>
        /\ End(r)

\* PaymentPlanCRUD.delete: the foreign key takes with it what is there, seen or not.
DeletePlan(r) ==
    LET me == request[r]
    IN  /\ me.act = "deletePlan"
        /\ plan[me.plan].status \in PlanStatus
        /\ plan' = [plan EXCEPT ![me.plan].status = "DELETED"]
        /\ record' = [k \in Keys |-> IF k \in RecordsOf(record, me.plan)
                                     THEN [record[k] EXCEPT !.phase = "DELETED"] ELSE record[k]]
        /\ WriteContract(r, ContractOf([me.seen.plan EXCEPT ![me.plan].status = "DELETED"],
                                       me.seen.record))
        /\ UNCHANGED command
        /\ End(r)

-----------------------------------------------------------------------------
(* Registering a payment. *)

\* Mutant: the payments are added up as seen.
RoomAsSeen(r, k) ==
    LET me == request[r]
    IN  Registered([me.seen.record EXCEPT ![k].amount = 0], me.plan) + me.amount
            <= plan[me.plan].amount

\* The plan and its payments are locked and current; k does not count.
Room(r, k) ==
    LET me == request[r]
    IN  Registered([record EXCEPT ![k].amount = 0], me.plan) + me.amount <= plan[me.plan].amount

\* CommandExecutionService.begin finds no receipt of the key, neither as seen nor
\* by the unique index that it waits for.
Fresh(k) == command[k] = "NONE"

\* PaymentRecordCRUD.create with the approval that starts at once, and the
\* receipt in the same transaction.  What follows the commit may raise.
Register(r) ==
    LET me == request[r]
        new == [phase |-> "DRAFT", plan |-> me.plan, amount |-> me.amount]
    IN  /\ me.act = "register"
        /\ Fresh(me.key)
        /\ plan[me.plan].status \in PlanStatus
        /\ Room(r, me.key)
        /\ record' = [record EXCEPT ![me.key] = [new EXCEPT !.phase = "PENDING_REVIEW"]]
        /\ Derive(r, me.plan, me.seen.plan, [me.seen.record EXCEPT ![me.key] = new], plan)
        /\ command' = [command EXCEPT ![me.key] = "SUCCEEDED"]
        /\ \/ End(r)
           \/ request' = [request EXCEPT ![r].act = "unknown"]

\* Any error before the commit rolls the payment back; some end in a receipt
\* FAILED, the others in UNKNOWN.
RegisterFails(r) ==
    /\ request[r].act = "register"
    /\ Fresh(request[r].key)
    /\ \E outcome \in {"failed", "unknown"} : request' = [request EXCEPT ![r].act = outcome]
    /\ UNCHANGED <<contract, plan, record, command>>

\* Mutant: a late failure overwrites the receipt.
ReceiptOverwritten(k, outcome) == outcome

\* begin answers with the receipt that is there, and fail is not called.
Receipt(k, outcome) == IF command[k] = "NONE" THEN outcome ELSE command[k]

\* _persist_payment_command_failure, a transaction of its own
PersistFailure(r) ==
    LET me == request[r]
    IN  /\ me.act \in {"failed", "unknown"}
        /\ command' = [command EXCEPT ![me.key] =
                          Receipt(me.key, IF me.act = "failed" THEN "FAILED" ELSE "UNKNOWN")]
        /\ UNCHANGED <<contract, plan, record>>
        /\ End(r)

-----------------------------------------------------------------------------
(* Correcting, removing and deciding a payment. *)

\* PaymentRecordCRUD.update: the phase is as seen, the amounts are current.
Correct(r) ==
    LET me == request[r]
    IN  /\ me.act = "correct"
        /\ record[me.key].phase \in Phase
        /\ Room(r, me.key)
        /\ record' = [record EXCEPT ![me.key].amount = me.amount]
        /\ Derive(r, me.plan, me.seen.plan, [me.seen.record EXCEPT ![me.key].amount = me.amount], plan)
        /\ UNCHANGED command
        /\ End(r)

\* PaymentRecordCRUD.delete, assert_deletable_approval_resource: all as seen.
Remove(r) ==
    LET me == request[r]
    IN  /\ me.act = "remove"
        /\ record[me.key].phase \in Phase
        /\ record' = [record EXCEPT ![me.key].phase = "DELETED"]
        /\ Derive(r, me.plan, me.seen.plan, [me.seen.record EXCEPT ![me.key].phase = "DELETED"], plan)
        /\ UNCHANGED command
        /\ End(r)

\* submit_for_approval with the payment locked
Submit(r) ==
    LET me == request[r]
    IN  /\ me.act = "submit"
        /\ record[me.key].phase \in {"DRAFT", "REJECTED"}
        /\ record' = [record EXCEPT ![me.key].phase = "PENDING_REVIEW"]
        /\ UNCHANGED <<contract, plan, command>>
        /\ End(r)

Decided(act) ==
    CASE act = "approve" -> "APPROVED" [] act = "reject" -> "REJECTED" [] act = "cancel" -> "DRAFT"

\* approve, reject, cancel with approval and payment locked, and the payment
\* adapter: the amount is current, the other payments are as seen.
Decide(r) ==
    LET me == request[r]
        mine == [record[me.key] EXCEPT !.phase = Decided(me.act)]
    IN  /\ me.act \in {"approve", "reject", "cancel"}
        /\ record[me.key].phase = "PENDING_REVIEW"
        /\ record' = [record EXCEPT ![me.key] = mine]
        /\ Derive(r, me.plan, me.seen.plan, [me.seen.record EXCEPT ![me.key] = mine], plan)
        /\ UNCHANGED command
        /\ End(r)

-----------------------------------------------------------------------------
Finish(r) ==
    \/ CreatePlan(r) \/ UpdatePlan(r) \/ DeletePlan(r)
    \/ Register(r) \/ RegisterFails(r) \/ PersistFailure(r)
    \/ Correct(r) \/ Remove(r) \/ Submit(r) \/ Decide(r)
    \/ Refuse(r)

Next ==
    \E r \in Requests :
        \/ \E act \in Acts, p \in Plans, k \in Keys, a \in 0 .. Total : Begin(r, act, p, k, a)
        \/ Finish(r)

Spec == Init /\ [][Next]_vars

-----------------------------------------------------------------------------
(* Properties *)

\* api/payments.py:1574: a plan with payments is not deleted, so a payment goes
\* only when it is itself removed; and one that is approved does not go
\* (api/payments.py:2498).
PaymentsStay ==
    [][\A k \in Keys :
          record[k].phase \in Phase /\ record'[k].phase = "DELETED" =>
              /\ plan'[record[k].plan].status # "DELETED"
              /\ record[k].phase # "APPROVED"]_vars

\* api/payments.py:2437-2449: the amount of a payment that is under review or
\* approved is not changed.
ReviewedAmountStays ==
    [][\A k \in Keys :
          record[k].phase \in {"PENDING_REVIEW", "APPROVED"} /\ record'[k].phase \in Phase =>
              record'[k].amount = record[k].amount]_vars

\* With nothing on its way the contract's row says what has been paid.
PaidIsExact ==
    (\A r \in Requests : request[r].act = "none") =>
        contract.total_paid_amount = Paid(plan, record)
=============================================================================
