----------------------------- MODULE PaymentBooks -----------------------------
(***************************************************************************)
(* The rows of a signed contract's money (models/payment.py, crud/         *)
(* payment.py): the contract's paid amount, its payment plans, the         *)
(* payments registered against them and the receipts of the idempotency    *)
(* keys; what is derived from these rows, and what they must say of each   *)
(* other.  PaymentLedger has the requests that write them.                 *)
(***************************************************************************)
EXTENDS Naturals, FiniteSets, FiniteSetsExt

CONSTANTS
    Plans,       \* ids of payment plans
    Keys,        \* idempotency keys; a payment is named by the key it was registered with
    Total,       \* the contract's amount
    Late         \* plans whose due date has passed

ASSUME BooksAssumption ==
    /\ IsFiniteSet(Plans) /\ Plans # {}
    /\ IsFiniteSet(Keys) /\ Keys # {}
    /\ Total \in Nat
    /\ Late \subseteq Plans

VARIABLES
    contract,    \* total_paid_amount and payment_status of the contract's row
    plan,        \* the plans
    record,      \* the payments
    command      \* the receipt of each key

PlanStatus == {"PENDING", "PARTIAL", "COMPLETED", "OVERDUE"}
Phase == {"DRAFT", "PENDING_REVIEW", "APPROVED", "REJECTED"}

Contract == [total_paid_amount : Nat,
             payment_status : {"UNPAID", "PARTIAL", "COMPLETED", "OVERDUE"}]
Plan == [status : PlanStatus \cup {"NONE", "DELETED"}, amount : 0 .. Total]
Record == [phase : Phase \cup {"NONE", "DELETED"}, plan : Plans, amount : 0 .. Total]

NoPlan == [status |-> "NONE", amount |-> 0]
NoRecord == [phase |-> "NONE", plan |-> CHOOSE p \in Plans : TRUE, amount |-> 0]
Unpaid == [total_paid_amount |-> 0, payment_status |-> "UNPAID"]

-----------------------------------------------------------------------------
(* Sums and what is derived from them. *)

PlansIn(plans) == {p \in Plans : plans[p].status \in PlanStatus}

RecordsOf(records, p) == {k \in Keys : records[k].phase \in Phase /\ records[k].plan = p}

Planned(plans) == MapThenSumSet(LAMBDA p : plans[p].amount, PlansIn(plans))

Registered(records, p) == MapThenSumSet(LAMBDA k : records[k].amount, RecordsOf(records, p))

\* sum_approved_payment_amount
Approved(records, p) ==
    MapThenSumSet(LAMBDA k : records[k].amount,
                  {k \in RecordsOf(records, p) : records[k].phase = "APPROVED"})

Paid(plans, records) == MapThenSumSet(LAMBDA p : Approved(records, p), PlansIn(plans))

\* Mutant: payments count before they are approved.
StatusOfRegistered(plans, records, p) ==
    IF Registered(records, p) >= plans[p].amount THEN "COMPLETED" ELSE "PENDING"

\* update_status
StatusOf(plans, records, p) ==
    CASE Approved(records, p) >= plans[p].amount -> "COMPLETED"
      [] Approved(records, p) \in 1 .. plans[p].amount - 1 -> "PARTIAL"
      [] OTHER -> IF p \in Late THEN "OVERDUE" ELSE "PENDING"

\* _update_contract_payment_status
ContractOf(plans, records) ==
    [total_paid_amount |-> Paid(plans, records),
     payment_status |->
        CASE PlansIn(plans) = {} -> "UNPAID"
          [] \E p \in PlansIn(plans) : plans[p].status = "OVERDUE" -> "OVERDUE"
          [] PlansIn(plans) # {} /\ (\A p \in PlansIn(plans) : plans[p].status # "OVERDUE")
             /\ Paid(plans, records) >= Planned(plans) -> "COMPLETED"
          [] OTHER -> IF Paid(plans, records) > 0 THEN "PARTIAL" ELSE "UNPAID"]

-----------------------------------------------------------------------------
(* Properties *)

\* Payments registered against a plan never add up to more than the plan
\* (api/payments.py:1606), however many are registered or corrected at once.
RecordsWithinPlan == \A p \in PlansIn(plan) : Registered(record, p) <= plan[p].amount

\* What the contract's row and the plans' statuses claim to be paid has been
\* approved: a status derived from an old snapshot lags behind, it never runs
\* ahead.
NeverOverstated ==
    /\ contract.total_paid_amount <= Paid(plan, record)
    /\ \A p \in PlansIn(plan) :
          /\ plan[p].status = "COMPLETED" => Approved(record, p) >= plan[p].amount
          /\ plan[p].status = "PARTIAL" => Approved(record, p) > 0

\* A receipt tells the truth: a payment is in the books only under a key whose
\* receipt says so, whatever failed after the commit; FAILED and UNKNOWN have
\* left nothing behind (services/command_execution_service.py:175-179).
ReceiptTellsTheTruth == \A k \in Keys : record[k].phase # "NONE" <=> command[k] = "SUCCEEDED"

\* api/payments.py:905: the plans of a contract add up to no more than it.
PlannedWithinContract == Planned(plan) <= Total
=============================================================================
