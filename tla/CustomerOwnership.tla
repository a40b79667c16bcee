--------------------------- MODULE CustomerOwnership ---------------------------
(***************************************************************************)
(* A lead, the customers it is converted to, who owns them and in which    *)
(* status they are: crud/lead.py, crud/customer.py and the endpoints of    *)
(* api/leads.py and api/customers.py.                                      *)
(*                                                                         *)
(* A user looks at a page, which shows the customer with a version, and    *)
(* sends a request.  The request is one transaction: its first read fixes  *)
(* what its plain reads see (seen); a customer is then locked and read     *)
(* again, a lead never is.  Of a row that was read plainly only the        *)
(* columns are written whose value the code changes.                       *)
(*                                                                         *)
(* A request may carry the version of the page; some endpoints demand it,  *)
(* some take it, some do not look.  The receipts of idempotency keys are   *)
(* those of PaymentLedger and left out here.                               *)
(***************************************************************************)
EXTENDS Naturals, FiniteSets

CONSTANTS
    Requests,      \* requests that are handled at the same time
    Users,         \* members of the team
    Customers,     \* ids of customers
    Names,         \* names a customer may get when the lead is converted
    nobody,        \* the pool: no owner
    Acts,          \* what requests do
    MaxRequests    \* bound on the number of requests

LeadAct == {"claimLead", "assignLead", "returnLead", "invalidLead", "editLead", "deleteLead", "convert"}
CustomerAct == {"claim", "return", "assign", "legacyAssign", "lifecycle", "edit", "setStatus", "lose", "delete"}

\* A transfer is a command if it has an operation id or an idempotency key, and legacy otherwise.
TransferAct == {"assign", "legacyAssign"}

\* Requests that may carry the version of the page they were sent from.
VersionedAct == {"claim", "return", "lifecycle", "edit"} \cup TransferAct

ASSUME OwnershipAssumption ==
    /\ nobody \notin Users
    /\ Customers # {} /\ Names # {}
    /\ Acts \subseteq LeadAct \cup CustomerAct
    /\ MaxRequests \in Nat

VARIABLES
    lead,          \* the lead's row
    customer,      \* the customers' rows
    contract,      \* the contract of each customer
    request,       \* what each request does, what its page shows and what it has seen
    begun          \* number of requests so far

vars == <<lead, customer, contract, request, begun>>

LeadStatus == {"NEW", "FOLLOWING", "CONVERTED", "INVALID"}
Status == {"FOLLOWING", "WON", "LOST", "INACTIVE"}
Owner == Users \cup {nobody}

Lead == [row : {"there", "gone"}, owner : Owner, status : LeadStatus]
Customer == [row : {"none", "there", "gone"}, name : Names, owner : Owner, status : Status, version : Nat]
Contract == [row : {"none", "there", "deleted"}, owner : Owner, reviewed : BOOLEAN]
Seen == [lead : Lead, converted : BOOLEAN, contracted : BOOLEAN]
Request == [act : Acts \cup {"none"}, on : Customers, to : Owner \cup Status \cup LeadStatus,
            along : BOOLEAN, versioned : BOOLEAN, page : Customer, seen : Seen]

TypeOK ==
    /\ lead \in Lead
    /\ customer \in [Customers -> Customer]
    /\ contract \in [Customers -> Contract]
    /\ request \in [Requests -> Request]
    /\ begun \in 0 .. MaxRequests

NoCustomer == [row |-> "none", name |-> CHOOSE n \in Names : TRUE, owner |-> nobody,
               status |-> "FOLLOWING", version |-> 0]
NoContract == [row |-> "none", owner |-> nobody, reviewed |-> FALSE]
NewLead(creator) == [row |-> "there", owner |-> creator, status |-> "FOLLOWING"]
NoLead == [row |-> "gone", owner |-> nobody, status |-> "NEW"]

Idle == [act |-> "none", on |-> CHOOSE c \in Customers : TRUE, to |-> nobody,
         along |-> FALSE, versioned |-> FALSE, page |-> NoCustomer,
         seen |-> [lead |-> NoLead, converted |-> FALSE, contracted |-> FALSE]]

\* A lead is entered by a user, who owns it.
Init ==
    /\ \E creator \in Users : lead = NewLead(creator)
    /\ customer = [c \in Customers |-> NoCustomer]
    /\ contract = [c \in Customers |-> NoContract]
    /\ request = [r \in Requests |-> Idle]
    /\ begun = 0

There(c) == customer[c].row = "there"

-----------------------------------------------------------------------------
(* A page is shown, a request begins. *)

Look(r, c) ==
    /\ request[r] = Idle
    /\ There(c)
    /\ request' = [request EXCEPT ![r].on = c, ![r].page = customer[c]]
    /\ UNCHANGED <<lead, customer, contract, begun>>

\* What the endpoint checks on its first read.
Admissible(act, c, to) ==
    CASE act = "claimLead" -> lead.owner = nobody /\ to \in Users
      [] act = "assignLead" -> to \in Users
      [] act = "returnLead" -> lead.owner # nobody /\ to = nobody
      [] act = "invalidLead" -> lead.status # "INVALID" /\ to = "INVALID"
      [] act = "editLead" -> to \in LeadStatus
      [] act = "deleteLead" ->
            /\ to = nobody
            /\ ~(lead.status = "CONVERTED" /\ \E d \in Customers : There(d))
      [] act \in {"convert", "claim"} \cup TransferAct -> to \in Users
      [] act = "return" -> to = nobody
      [] act = "lifecycle" ->
            /\ customer[c].status \in {"FOLLOWING", "WON"}
            /\ to \in {"FOLLOWING", "WON"} \ {customer[c].status}
      [] act = "edit" -> to \in {"FOLLOWING", "WON"}
      [] act = "setStatus" -> to \in Status
      [] act = "lose" -> customer[c].status # "LOST" /\ to = "LOST"
      [] act = "delete" -> to = nobody
      [] OTHER -> FALSE

\* A request about the lead.
BeginLead(r, act, to) ==
    /\ begun < MaxRequests
    /\ request[r] = Idle
    /\ act \in Acts \cap LeadAct
    /\ lead.row = "there"
    /\ Admissible(act, request[r].on, to)
    /\ request' = [request EXCEPT ![r].act = act, ![r].to = to,
                      ![r].seen = [lead |-> lead, converted |-> \E d \in Customers : There(d),
                                   contracted |-> FALSE]]
    /\ begun' = begun + 1
    /\ UNCHANGED <<lead, customer, contract>>

\* A request about the customer of the page.  Only a deletion uses later what it has seen.
BeginCustomer(r, act, to, along, versioned) ==
    LET c == request[r].on IN
    /\ begun < MaxRequests
    /\ request[r].act = "none" /\ request[r].page.row = "there"
    /\ act \in Acts \cap CustomerAct
    /\ There(c)
    /\ versioned => act \in VersionedAct
    /\ act = "lifecycle" => versioned
    /\ along => act \in TransferAct
    /\ Admissible(act, c, to)
    /\ request' = [request EXCEPT ![r].act = act, ![r].to = to, ![r].along = along, ![r].versioned = versioned,
                      ![r].seen = IF act = "delete"
                                  THEN [lead |-> lead, converted |-> TRUE,
                                        contracted |-> contract[c].row = "there"]
                                  ELSE @]
    /\ begun' = begun + 1
    /\ UNCHANGED <<lead, customer, contract>>

\* A request rolls back: it is refused under the lock, fails, or its process dies.
GiveUp(r) ==
    /\ request[r] # Idle
    /\ request' = [request EXCEPT ![r] = Idle]
    /\ UNCHANGED <<lead, customer, contract, begun>>

Done(r) == request' = [request EXCEPT ![r] = Idle] /\ UNCHANGED begun

-----------------------------------------------------------------------------
(* Leads: plain reads, plain writes. *)

\* The lead after a flush: the columns whose value differs from the one that was loaded.
Flushed(loaded, owner, status) ==
    [lead EXCEPT !.owner = IF owner # loaded.owner THEN owner ELSE @,
                 !.status = IF status # loaded.status THEN status ELSE @]

\* claim, assign, return_to_pool, mark_invalid and update of a lead
WriteLead(r) ==
    LET q == request[r]
        loaded == q.seen.lead IN
    /\ lead.row = "there"
    /\ \/ q.act \in {"claimLead", "assignLead"} /\ lead' = Flushed(loaded, q.to, "FOLLOWING")
       \/ q.act = "returnLead" /\ lead' = Flushed(loaded, nobody, "NEW")
       \/ q.act \in {"invalidLead", "editLead"} /\ lead' = Flushed(loaded, loaded.owner, q.to)
    /\ Done(r)
    /\ UNCHANGED <<customer, contract>>

\* The lead's row is deleted by its id.
DeleteLead(r) ==
    /\ request[r].act = "deleteLead"
    /\ lead' = [lead EXCEPT !.row = "gone"]
    /\ Done(r)
    /\ UNCHANGED <<customer, contract>>

\* get_by_source_lead_id
Converted(seen) == seen.converted

\* convert_from_lead.  The unique index on the name looks at all rows; the lead is written as it was loaded.
Convert(r, c, name) ==
    LET loaded == request[r].seen.lead IN
    /\ request[r].act = "convert"
    /\ ~Converted(request[r].seen)
    /\ lead.row = "there"
    /\ customer[c].row = "none"
    /\ \A d \in Customers : There(d) => customer[d].name # name
    /\ customer' = [customer EXCEPT ![c] =
                       [row |-> "there", name |-> name, status |-> "FOLLOWING", version |-> 1,
                        owner |-> IF loaded.owner = nobody THEN request[r].to ELSE loaded.owner]]
    /\ lead' = Flushed(loaded, loaded.owner, "CONVERTED")
    /\ Done(r)
    /\ UNCHANGED contract

-----------------------------------------------------------------------------
(* Customers: the row is locked and read again. *)

\* The endpoint of a legacy transfer works out expected_version and calls assign_customer without it.
Compared(q) == q.versioned /\ q.act # "legacyAssign"

\* Mutant: the version is taken for right when the status is.
StatusIsRight(r) ==
    Compared(request[r]) => request[r].page.status = customer[request[r].on].status

\* expected_version against the locked row
VersionIsRight(r) ==
    Compared(request[r]) => request[r].page.version = customer[request[r].on].version

\* What every endpoint of a customer starts with.
Locked(r, act) ==
    /\ request[r].act = act
    /\ There(request[r].on)
    /\ VersionIsRight(r)

\* Mutant: a status that is set does not move the version on.
WithStatusOnly(c, status) == [customer EXCEPT ![c].status = status]

WithStatus(c, status) == [customer EXCEPT ![c].status = status, ![c].version = @ + 1]

WithOwner(c, owner) == [customer EXCEPT ![c].owner = owner, ![c].version = @ + 1]

\* claim_customer, return_to_pool
ClaimOrReturn(r) ==
    LET c == request[r].on IN
    /\ \/ Locked(r, "claim") /\ customer[c].owner = nobody
       \/ Locked(r, "return") /\ customer[c].owner # nobody
    /\ customer' = WithOwner(c, request[r].to)
    /\ Done(r)
    /\ UNCHANGED <<lead, contract>>

\* Mutant: a transfer takes the contract along whatever its state.
MovedAnyway(c, to) == [contract EXCEPT ![c].owner = IF contract[c].row = "none" THEN @ ELSE to]

\* The contracts of a transfer, locked and read again; those under review or signed are skipped.
Moved(c, to) ==
    [contract EXCEPT ![c].owner = IF contract[c].row = "none" \/ contract[c].reviewed THEN @ ELSE to]

\* assign_customer; with "along" the opportunities and their contracts follow.
Assign(r) ==
    LET c == request[r].on
        to == request[r].to IN
    /\ \E act \in TransferAct : Locked(r, act)
    /\ customer[c].owner # to
    /\ customer' = [WithOwner(c, to) EXCEPT ![c].status = IF @ = "INACTIVE" THEN "FOLLOWING" ELSE @]
    /\ contract' = IF request[r].along THEN Moved(c, to) ELSE contract
    /\ Done(r)
    /\ UNCHANGED lead

\* update_status_with_version: the plan was made on the first read, the version is compared under the lock.
ChangeLifecycle(r) ==
    /\ Locked(r, "lifecycle")
    /\ customer' = WithStatus(request[r].on, request[r].to)
    /\ Done(r)
    /\ UNCHANGED <<lead, contract>>

\* update_with_audit, as far as the status goes.
Edit(r) ==
    LET c == request[r].on IN
    /\ Locked(r, "edit")
    /\ customer[c].status \in {"FOLLOWING", "WON"}
    /\ customer' = IF customer[c].status = request[r].to THEN customer ELSE WithStatus(c, request[r].to)
    /\ Done(r)
    /\ UNCHANGED <<lead, contract>>

\* update_status, mark_as_lost
SetStatus(r) ==
    /\ Locked(r, "setStatus") \/ Locked(r, "lose")
    /\ customer' = WithStatus(request[r].on, request[r].to)
    /\ Done(r)
    /\ UNCHANGED <<lead, contract>>

\* The lead after the deletion of its customer; it is read plainly.
Restored(loaded) ==
    IF loaded.row = "there" /\ loaded.status = "CONVERTED" THEN Flushed(loaded, loaded.owner, "FOLLOWING")
                                                           ELSE lead

\* delete: the customer is locked, its contracts are counted as seen; the foreign key takes those that are there.
Delete(r) ==
    LET c == request[r].on
        loaded == request[r].seen.lead IN
    /\ Locked(r, "delete")
    /\ ~request[r].seen.contracted
    /\ loaded.row = "there" /\ loaded.status = "CONVERTED" => lead.row = "there"
    /\ lead' = Restored(loaded)
    /\ customer' = [customer EXCEPT ![c] = [NoCustomer EXCEPT !.row = "gone"]]
    /\ contract' = [contract EXCEPT ![c] = NoContract]
    /\ Done(r)

-----------------------------------------------------------------------------
(* The contract of a customer: the rest of the program. *)

\* create; the foreign key asks for the customer.  The owner is asked for, the opportunity's or the creator.
CreateContract(c, owner) ==
    /\ There(c)
    /\ contract[c].row # "there"
    /\ contract' = [contract EXCEPT ![c] = [row |-> "there", owner |-> owner, reviewed |-> FALSE]]
    /\ UNCHANGED <<lead, customer, request, begun>>

\* A contract is submitted, or its review ends without a signature.
ReviewContract(c, reviewed) ==
    /\ contract[c].row = "there"
    /\ contract[c].reviewed # reviewed
    /\ contract' = [contract EXCEPT ![c].reviewed = reviewed]
    /\ UNCHANGED <<lead, customer, request, begun>>

\* delete of a contract sets deleted_at.
DeleteContract(c) ==
    /\ contract[c].row = "there" /\ ~contract[c].reviewed
    /\ contract' = [contract EXCEPT ![c].row = "deleted"]
    /\ UNCHANGED <<lead, customer, request, begun>>

-----------------------------------------------------------------------------
LeadStep(r) ==
    \/ \E act \in LeadAct, to \in Owner \cup LeadStatus : BeginLead(r, act, to)
    \/ WriteLead(r)
    \/ DeleteLead(r)
    \/ \E c \in Customers, name \in Names : Convert(r, c, name)

CustomerStep(r) ==
    \/ \E c \in Customers : Look(r, c)
    \/ \E act \in CustomerAct, to \in Owner \cup Status, along, versioned \in BOOLEAN :
          BeginCustomer(r, act, to, along, versioned)
    \/ ClaimOrReturn(r)
    \/ Assign(r)
    \/ ChangeLifecycle(r)
    \/ Edit(r)
    \/ SetStatus(r)
    \/ Delete(r)

ContractStep(c) ==
    \/ \E owner \in Users : CreateContract(c, owner)
    \/ \E reviewed \in BOOLEAN : ReviewContract(c, reviewed)
    \/ DeleteContract(c)

Next ==
    \/ \E r \in Requests : LeadStep(r) \/ CustomerStep(r) \/ GiveUp(r)
    \/ \E c \in Customers : ContractStep(c)

Spec == Init /\ [][Next]_vars

-----------------------------------------------------------------------------
(* Properties. *)

\* r has just changed its customer.
Changes(r) == /\ request[r].act # "none" /\ request'[r].act = "none"
              /\ customer' # customer

\* The customer has the owner and the status that the page of q showed.
AsShown(q) == /\ customer[q.on].owner = q.page.owner
              /\ customer[q.on].status = q.page.status

\* A claim, a return, an edit, a switch of the status or a transfer sent as a command, if it carries the version
\* of its page, is carried out only if the customer still has the owner and the status the page showed, whatever
\* happened in between (api/customers.py: "客户已被其他操作更新，请刷新后重试").  A legacy transfer is left out.
ActsOnWhatIsShown ==
    [][\A r \in Requests : Changes(r) /\ Compared(request[r]) => AsShown(request[r])]_vars

\* The same of every request that carries a version.  A legacy transfer breaks it: api/customers.py, assign_customer,
\* works the version out of the body and the header and does not pass it on.
VersionIsHonoured ==
    [][\A r \in Requests : Changes(r) /\ request[r].versioned => AsShown(request[r])]_vars

\* A customer that is lost or inactive comes back only by the endpoint that sets any status, or, when inactive,
\* by a transfer: the switch between following and won, planned on an unlocked read
\* (services/customer_status_transition_service.py), and the edit never revive it.
ClosedStaysClosed ==
    [][\A c \in Customers :
          /\ customer[c].row = "there" /\ customer'[c].row = "there"
          /\ customer[c].status \in {"LOST", "INACTIVE"} /\ customer'[c].status # customer[c].status
          => \E r \in Requests :
                /\ request[r].on = c /\ Changes(r)
                /\ \/ request[r].act \in {"setStatus", "lose"}
                   \/ request[r].act \in TransferAct /\ customer[c].status = "INACTIVE"]_vars

\* A contract under review or signed keeps its owner while customers change hands (crud/customer.py, assign_customer:
\* "合同处于审批中或已签署状态，未同步负责人").
ReviewedKeepsOwner ==
    [][\A c \in Customers :
          contract[c].row = "there" /\ contract[c].reviewed /\ contract'[c].row = "there"
             => contract'[c].owner = contract[c].owner]_vars

\* A lead is the source of one customer at a time (crud/customer.py: "该线索已被转化").  Two conversions that overlap
\* break it: both look for the customer before either has made one.
ConvertedOnce == \A c, d \in Customers : There(c) /\ There(d) => c = d

\* A contract that has not been deleted is not taken by the deletion of its customer
\* (crud/customer.py: "删除前会检查是否存在关联合同，如有则抛出异常").
ContractsSurvive ==
    [][\A c \in Customers : contract[c].row = "there" => contract'[c].row # "none"]_vars

\* A lead whose customer exists is not deleted (crud/lead.py: "已转化的线索无法删除（需先删除对应的客户）").
SourceLeadStays == (\E c \in Customers : There(c)) => lead.row = "there"

\* A claim does not take a lead away from its owner (api/leads.py: "该线索已被领取").
ClaimsAreExclusive ==
    [][\A r \in Requests :
          request[r].act = "claimLead" /\ request'[r].act = "none" /\ lead' # lead => lead.owner = nobody]_vars

\* A new customer belongs to the owner of its lead (api/customers.py: "inherited_fields ... owner_id").
OwnerIsInherited ==
    [][\A c \in Customers :
          ~There(c) /\ customer'[c].row = "there" /\ lead.owner # nobody
             => customer'[c].owner = lead.owner]_vars
=============================================================================
