------------------------ MODULE CustomerOwnershipProofs ------------------------
(***************************************************************************)
(* Theorems about CustomerOwnership, for any number of requests, users and *)
(* customers.                                                              *)
(*                                                                         *)
(* A version is worth something only because everything that changes a     *)
(* customer moves it on: as long as the row has the version of a page, it  *)
(* is as the page showed it (PageIsOld), and what was planned on an        *)
(* unlocked read of it still holds (Planned).                              *)
(***************************************************************************)
EXTENDS CustomerOwnership, TLAPS

Open == {"FOLLOWING", "WON"}

PageIsOld(q) ==
    q.page.row = "there" =>
        /\ customer[q.on].row # "none"
        /\ There(q.on) =>
              /\ q.page.version <= customer[q.on].version
              /\ q.page.version = customer[q.on].version =>
                    customer[q.on].owner = q.page.owner /\ customer[q.on].status = q.page.status

Planned(q) ==
    /\ q.act \in CustomerAct => q.page.row = "there"
    /\ q.act = "convert" => ~q.versioned
    /\ q.act = "lifecycle" =>
          /\ q.versioned
          /\ There(q.on) /\ q.page.version = customer[q.on].version => customer[q.on].status \in Open

\* Owners are given to those who want an owner, statuses to those who want a status.
Addressed(q) ==
    /\ q.act \in {"claimLead", "assignLead", "convert", "claim", "assign", "legacyAssign"} => q.to \in Owner
    /\ q.act \in {"invalidLead", "editLead"} => q.to \in LeadStatus
    /\ q.act = "return" => q.to = nobody
    /\ q.act \in {"lifecycle", "edit", "setStatus", "lose"} => q.to \in Status

Kept == \A r \in Requests : PageIsOld(request[r]) /\ Planned(request[r]) /\ Addressed(request[r])

IInv == TypeOK /\ Kept

-----------------------------------------------------------------------------
LEMMA Defaults ==
    /\ NoCustomer \in Customer
    /\ [NoCustomer EXCEPT !.row = "gone"] \in Customer
    /\ [NoCustomer EXCEPT !.row = "gone"].row = "gone"
    /\ NoContract \in Contract
    /\ NoLead \in Lead /\ \A creator \in Users : NewLead(creator) \in Lead
    /\ Idle \in Request
    /\ Idle.act = "none" /\ Idle.page.row = "none"
<1>1. NoCustomer \in Customer /\ [NoCustomer EXCEPT !.row = "gone"] \in Customer
      /\ [NoCustomer EXCEPT !.row = "gone"].row = "gone"
  BY OwnershipAssumption DEF NoCustomer, Customer, Owner, Status
<1>2. NoContract \in Contract /\ NoLead \in Lead /\ \A creator \in Users : NewLead(creator) \in Lead
  BY DEF NoContract, Contract, NoLead, NewLead, Lead, Owner, LeadStatus
<1>3. Idle.seen \in Seen
  BY <1>2 DEF Idle, Seen
<1>4. Idle \in Request
  BY <1>1, <1>3, OwnershipAssumption DEF Idle, Request, Owner
<1> QED
  BY <1>1, <1>2, <1>4 DEF Idle, NoCustomer

LEMMA InitIInv == Init => IInv
<1> SUFFICES ASSUME Init PROVE IInv
  OBVIOUS
<1>1. TypeOK
  BY Defaults, OwnershipAssumption DEF Init, TypeOK
<1>2. Kept
  BY Defaults DEF Init, Kept, PageIsOld, Planned, Addressed, CustomerAct
<1> QED
  BY <1>1, <1>2 DEF IInv

-----------------------------------------------------------------------------
(* How a step changes the requests. *)

LEMMA DoneTyped ==
    ASSUME TypeOK, NEW r \in Requests, request' = [request EXCEPT ![r] = Idle]
    PROVE  /\ request' \in [Requests -> Request]
           /\ request'[r] = Idle
           /\ \A q \in Requests \ {r} : request'[q] = request[q]
BY Defaults DEF TypeOK

LEMMA LookTyped ==
    ASSUME TypeOK, NEW r \in Requests, NEW c \in Customers, Look(r, c)
    PROVE  /\ request' \in [Requests -> Request]
           /\ request'[r].act = "none" /\ request'[r].on = c /\ request'[r].page = customer[c]
           /\ \A q \in Requests \ {r} : request'[q] = request[q]
<1> DEFINE new == [Idle EXCEPT !.on = c, !.page = customer[c]]
<1>1. new \in Request
  BY Defaults DEF Request, TypeOK
<1>2. new.act = "none" /\ new.on = c /\ new.page = customer[c]
  BY Defaults DEF Idle
<1>3. request' = [request EXCEPT ![r] = new]
  BY DEF Look, TypeOK
<1> HIDE DEF new
<1> QED
  BY <1>1, <1>2, <1>3 DEF TypeOK

LEMMA BeginLeadTyped ==
    ASSUME TypeOK, NEW r \in Requests, NEW act \in LeadAct, NEW to \in Owner \cup LeadStatus,
           BeginLead(r, act, to)
    PROVE  /\ request' \in [Requests -> Request]
           /\ request'[r].act = act /\ request'[r].page = Idle.page /\ request'[r].to = to
           /\ ~request'[r].versioned
           /\ \A q \in Requests \ {r} : request'[q] = request[q]
<1> DEFINE seen == [lead |-> lead, converted |-> \E d \in Customers : There(d), contracted |-> FALSE]
           new == [Idle EXCEPT !.act = act, !.to = to, !.seen = seen]
<1>1. seen \in Seen
  <2>1. lead \in Lead
    BY DEF TypeOK
  <2> QED
    BY <2>1 DEF Seen
<1> HIDE DEF seen
<1>2. new \in Request
  BY <1>1, Defaults DEF Request, BeginLead
<1>3. new.act = act /\ new.page = Idle.page /\ new.seen = seen /\ new.to = to /\ ~new.versioned
  BY Defaults DEF Request, Idle
<1>4. request' = [request EXCEPT ![r] = new]
  BY DEF BeginLead, TypeOK, seen
<1> HIDE DEF new
<1> QED
  BY <1>1, <1>2, <1>3, <1>4 DEF TypeOK

LEMMA BeginCustomerTyped ==
    ASSUME TypeOK, NEW r \in Requests, NEW act \in CustomerAct, NEW to \in Owner \cup Status,
           NEW along \in BOOLEAN, NEW versioned \in BOOLEAN,
           BeginCustomer(r, act, to, along, versioned)
    PROVE  /\ request' \in [Requests -> Request]
           /\ request'[r].act = act /\ request'[r].page = request[r].page /\ request'[r].on = request[r].on
           /\ request'[r].versioned = versioned /\ request'[r].to = to
           /\ \A q \in Requests \ {r} : request'[q] = request[q]
<1> DEFINE c == request[r].on
           seen == IF act = "delete"
                   THEN [lead |-> lead, converted |-> TRUE, contracted |-> contract[c].row = "there"]
                   ELSE request[r].seen
           old == request[r]
           new == [old EXCEPT !.act = act, !.to = to, !.along = along, !.versioned = versioned, !.seen = seen]
<1>1. old \in Request
  BY DEF TypeOK
<1>2. seen \in Seen
  <2>1. lead \in Lead /\ request[r].seen \in Seen
    BY <1>1 DEF TypeOK, Request
  <2> QED
    BY <2>1 DEF Seen
<1>3. request' = [request EXCEPT ![r] = new]
  BY DEF BeginCustomer, TypeOK
<1> HIDE DEF seen, old
<1>4. new \in Request
  BY <1>1, <1>2 DEF Request, BeginCustomer
<1>5. new.act = act /\ new.page = old.page /\ new.on = old.on /\ new.versioned = versioned
      /\ new.to = to
  BY <1>1 DEF Request
<1> HIDE DEF new
<1> QED
  BY <1>3, <1>4, <1>5 DEF TypeOK, old

-----------------------------------------------------------------------------
(* How a step changes the customers: one of them, and its version with it. *)

Moves(c) ==
    \/ customer'[c] = customer[c]
    \/ customer[c].row = "none"
    \/ customer'[c].row = "gone"
    \/ /\ customer[c].row = "there" /\ customer'[c].row = "there"
       /\ customer'[c].version = customer[c].version + 1

LEMMA StatusTyped ==
    ASSUME TypeOK, NEW c \in Customers, There(c), NEW status \in Status, customer' = WithStatus(c, status)
    PROVE  /\ customer' \in [Customers -> Customer]
           /\ customer'[c].row = "there" /\ customer'[c].version = customer[c].version + 1
           /\ customer'[c].status = status
           /\ \A d \in Customers \ {c} : customer'[d] = customer[d]
<1> DEFINE old == customer[c]
           new == [row |-> old.row, name |-> old.name, owner |-> old.owner, status |-> status,
                   version |-> old.version + 1]
<1>1. old \in Customer
  BY DEF TypeOK
<1>2. customer' = [customer EXCEPT ![c] = new]
  BY <1>1 DEF WithStatus, TypeOK, Customer
<1>3. old.row = "there"
  BY DEF There
<1> HIDE DEF old
<1>4. new \in Customer /\ new.row = "there" /\ new.version = old.version + 1 /\ new.status = status
  BY <1>1, <1>3 DEF Customer
<1> HIDE DEF new
<1> QED
  BY <1>2, <1>4 DEF TypeOK, old

LEMMA OwnerTyped ==
    ASSUME TypeOK, NEW c \in Customers, There(c), NEW owner \in Owner, customer' = WithOwner(c, owner)
    PROVE  /\ customer' \in [Customers -> Customer]
           /\ customer'[c].row = "there" /\ customer'[c].version = customer[c].version + 1
           /\ customer'[c].status = customer[c].status
           /\ \A d \in Customers \ {c} : customer'[d] = customer[d]
<1> DEFINE old == customer[c]
           new == [row |-> old.row, name |-> old.name, owner |-> owner, status |-> old.status,
                   version |-> old.version + 1]
<1>1. old \in Customer
  BY DEF TypeOK
<1>2. customer' = [customer EXCEPT ![c] = new]
  BY <1>1 DEF WithOwner, TypeOK, Customer
<1>3. old.row = "there"
  BY DEF There
<1> HIDE DEF old
<1>4. new \in Customer /\ new.row = "there" /\ new.version = old.version + 1 /\ new.status = old.status
  BY <1>1, <1>3 DEF Customer
<1> HIDE DEF new
<1> QED
  BY <1>2, <1>4 DEF TypeOK, old

LEMMA AssignTyped ==
    ASSUME TypeOK, NEW c \in Customers, There(c), NEW owner \in Owner,
           customer' = [WithOwner(c, owner) EXCEPT ![c].status = IF @ = "INACTIVE" THEN "FOLLOWING" ELSE @]
    PROVE  /\ customer' \in [Customers -> Customer]
           /\ customer'[c].row = "there" /\ customer'[c].version = customer[c].version + 1
           /\ customer[c].status # "INACTIVE" => customer'[c].status = customer[c].status
           /\ \A d \in Customers \ {c} : customer'[d] = customer[d]
<1> DEFINE old == customer[c]
           status == IF old.status = "INACTIVE" THEN "FOLLOWING" ELSE old.status
           new == [row |-> old.row, name |-> old.name, owner |-> owner, status |-> status,
                   version |-> old.version + 1]
<1>1. old \in Customer
  BY DEF TypeOK
<1>2. status \in Status /\ (old.status # "INACTIVE" => status = old.status)
  BY <1>1 DEF Customer, Status
<1>3. customer' = [customer EXCEPT ![c] = new]
  BY <1>1 DEF WithOwner, TypeOK, Customer
<1>4. old.row = "there"
  BY DEF There
<1> HIDE DEF old, status
<1>5. new \in Customer /\ new.row = "there" /\ new.version = old.version + 1 /\ new.status = status
  BY <1>1, <1>2, <1>4 DEF Customer
<1> HIDE DEF new
<1> QED
  BY <1>2, <1>3, <1>5 DEF TypeOK, old

LEMMA FlushTyped ==
    ASSUME TypeOK, NEW loaded, NEW owner \in Owner, NEW status \in LeadStatus
    PROVE  Flushed(loaded, owner, status) \in Lead
<1>1. lead \in Lead
  BY DEF TypeOK
<1> QED
  BY <1>1 DEF Flushed, Lead

\* What a page shows, and what is planned on it, stays right while customers move.
LEMMA Ageing ==
    ASSUME TypeOK, NEW q \in Request, PageIsOld(q), Planned(q),
           customer' \in [Customers -> Customer], \A c \in Customers : Moves(c)
    PROVE  PageIsOld(q)' /\ Planned(q)'
<1>1. q.on \in Customers /\ q.page.version \in Nat
  BY DEF Request, Customer
<1>2. customer[q.on].version \in Nat /\ customer'[q.on].version \in Nat
  BY <1>1 DEF TypeOK, Customer
<1>3. Moves(q.on)
  BY <1>1
<1>4. PageIsOld(q)'
  BY <1>1, <1>2, <1>3 DEF PageIsOld, Moves, There
<1>5. Planned(q)'
  BY <1>1, <1>2, <1>3 DEF Planned, PageIsOld, Moves, There, CustomerAct
<1> QED
  BY <1>4, <1>5

LEMMA KeptExcept ==
    ASSUME TypeOK, Kept, NEW r \in Requests,
           customer' \in [Customers -> Customer], \A c \in Customers : Moves(c),
           \A q \in Requests \ {r} : request'[q] = request[q],
           (PageIsOld(request[r]) /\ Planned(request[r]) /\ Addressed(request[r]))'
    PROVE  Kept'
<1> SUFFICES ASSUME NEW q \in Requests
             PROVE  (PageIsOld(request[q]) /\ Planned(request[q]) /\ Addressed(request[q]))'
  BY DEF Kept
<1>1. CASE q = r
  BY <1>1
<1>2. CASE q # r
  <2>1. PICK old \in Request : old = request[q]
    BY DEF TypeOK
  <2>2. PageIsOld(old)' /\ Planned(old)'
    BY <2>1, Ageing DEF Kept
  <2>3. request'[q] = old
    BY <1>2, <2>1
  <2> QED
    BY <2>1, <2>2, <2>3 DEF PageIsOld, Planned, Addressed, There, Kept
<1> QED
  BY <1>1, <1>2

\* The end of a request.
LEMMA DoneKeeps ==
    ASSUME TypeOK, Kept, NEW r \in Requests, request' = [request EXCEPT ![r] = Idle],
           customer' \in [Customers -> Customer], \A c \in Customers : Moves(c)
    PROVE  request' \in [Requests -> Request] /\ Kept'
<1>1. /\ request' \in [Requests -> Request]
      /\ request'[r] = Idle
      /\ \A q \in Requests \ {r} : request'[q] = request[q]
  BY DoneTyped
<1>2. (PageIsOld(request[r]) /\ Planned(request[r]) /\ Addressed(request[r]))'
  BY <1>1, Defaults DEF PageIsOld, Planned, Addressed, CustomerAct
<1> QED
  BY <1>1, <1>2, KeptExcept

\* A step that leaves requests and customers alone.
LEMMA StutterKeeps ==
    ASSUME Kept, UNCHANGED <<request, customer>>
    PROVE  Kept'
BY DEF Kept, PageIsOld, Planned, Addressed, There

LEMMA StatusOfRequest ==
    ASSUME TypeOK, NEW r \in Requests, NEW c, c = request[r].on
    PROVE  /\ c \in Customers
           /\ customer[c] \in Customer
           /\ request[r].page \in Customer
BY DEF TypeOK, Request

-----------------------------------------------------------------------------
(* Steps that begin or end something, without a change of a customer. *)

\* What is asked for fits what is done.
LEMMA Asked ==
    ASSUME NEW act, NEW c, NEW to, Admissible(act, c, to)
    PROVE  /\ act \in {"claimLead", "assignLead", "convert", "claim", "assign", "legacyAssign"} => to \in Owner
           /\ act \in {"invalidLead", "editLead"} => to \in LeadStatus
           /\ act = "return" => to = nobody
           /\ act \in {"lifecycle", "edit", "setStatus", "lose"} => to \in Status
<1>1. CASE act \in {"claimLead", "assignLead"}
  BY <1>1 DEF Admissible, TransferAct, Owner
<1>2. CASE act \in {"convert", "claim", "assign", "legacyAssign"}
  BY <1>2 DEF Admissible, TransferAct, Owner
<1>3. CASE act = "invalidLead"
  BY <1>3 DEF Admissible, TransferAct, LeadStatus
<1>4. CASE act = "editLead"
  BY <1>4 DEF Admissible, TransferAct
<1>5. CASE act = "return"
  BY <1>5 DEF Admissible, TransferAct
<1>6. CASE act = "lifecycle"
  BY <1>6 DEF Admissible, TransferAct, Status
<1>7. CASE act = "edit"
  BY <1>7 DEF Admissible, TransferAct, Status
<1>8. CASE act \in {"setStatus", "lose"}
  BY <1>8 DEF Admissible, TransferAct, Status
<1> QED
  BY <1>1, <1>2, <1>3, <1>4, <1>5, <1>6, <1>7, <1>8

LEMMA LookKeeps ==
    ASSUME TypeOK, Kept, NEW r \in Requests, NEW c \in Customers, Look(r, c)
    PROVE  TypeOK' /\ Kept'
<1>1. UNCHANGED <<lead, customer, contract, begun>> /\ There(c)
  BY DEF Look
<1>2. TypeOK'
  BY <1>1, LookTyped DEF TypeOK
<1>3. (PageIsOld(request[r]) /\ Planned(request[r]) /\ Addressed(request[r]))'
  <2>1. customer[c] \in Customer
    BY DEF TypeOK
  <2> QED
    BY <1>1, <2>1, LookTyped DEF PageIsOld, Planned, Addressed, There, CustomerAct, Customer
<1>4. Kept'
  BY <1>1, <1>3, LookTyped, KeptExcept DEF Moves, TypeOK
<1> QED
  BY <1>2, <1>4

LEMMA BeginLeadKeeps ==
    ASSUME TypeOK, Kept, NEW r \in Requests, NEW act \in LeadAct, NEW to \in Owner \cup LeadStatus,
           BeginLead(r, act, to)
    PROVE  TypeOK' /\ Kept'
<1>1. UNCHANGED <<lead, customer, contract>> /\ begun' \in 0 .. MaxRequests
  BY OwnershipAssumption DEF BeginLead, TypeOK
<1>2. TypeOK'
  BY <1>1, BeginLeadTyped DEF TypeOK
<1>3. (PageIsOld(request[r]) /\ Planned(request[r]))'
  BY BeginLeadTyped, Defaults DEF PageIsOld, Planned, LeadAct, CustomerAct
<1>4. Addressed(request[r])'
  <2>1. Admissible(act, request[r].on, to)
    BY DEF BeginLead
  <2>2. /\ act \in {"claimLead", "assignLead", "convert", "claim", "assign", "legacyAssign"} => to \in Owner
        /\ act \in {"invalidLead", "editLead"} => to \in LeadStatus
        /\ act = "return" => to = nobody
        /\ act \in {"lifecycle", "edit", "setStatus", "lose"} => to \in Status
    BY <2>1, Asked
  <2>3. request'[r].act = act /\ request'[r].to = to
    BY BeginLeadTyped
  <2> QED
    BY <2>2, <2>3 DEF Addressed
<1>5. Kept'
  BY <1>1, <1>3, <1>4, BeginLeadTyped, KeptExcept DEF Moves, TypeOK
<1> QED
  BY <1>2, <1>5

LEMMA BeginCustomerKeeps ==
    ASSUME TypeOK, Kept, NEW r \in Requests, NEW act \in CustomerAct, NEW to \in Owner \cup Status,
           NEW along \in BOOLEAN, NEW versioned \in BOOLEAN,
           BeginCustomer(r, act, to, along, versioned)
    PROVE  TypeOK' /\ Kept'
<1>1. UNCHANGED <<lead, customer, contract>> /\ begun' \in 0 .. MaxRequests
  BY OwnershipAssumption DEF BeginCustomer, TypeOK
<1>2. TypeOK'
  BY <1>1, BeginCustomerTyped DEF TypeOK
<1>3. PageIsOld(request[r])
  BY DEF Kept
<1>4. /\ request[r].page.row = "there"
      /\ act = "lifecycle" => versioned /\ customer[request[r].on].status \in Open
  BY DEF BeginCustomer, Admissible, Open
<1>5. PageIsOld(request[r])'
  BY <1>1, <1>3, BeginCustomerTyped DEF PageIsOld, There
<1>6. Planned(request[r])'
  BY <1>1, <1>4, BeginCustomerTyped DEF Planned, There, CustomerAct
<1>7. Addressed(request[r])'
  <2>1. Admissible(act, request[r].on, to)
    BY DEF BeginCustomer
  <2>2. /\ act \in {"claimLead", "assignLead", "convert", "claim", "assign", "legacyAssign"} => to \in Owner
        /\ act \in {"invalidLead", "editLead"} => to \in LeadStatus
        /\ act = "return" => to = nobody
        /\ act \in {"lifecycle", "edit", "setStatus", "lose"} => to \in Status
    BY <2>1, Asked
  <2>3. request'[r].act = act /\ request'[r].to = to
    BY BeginCustomerTyped
  <2> QED
    BY <2>2, <2>3 DEF Addressed
<1>8. Kept'
  BY <1>1, <1>5, <1>6, <1>7, BeginCustomerTyped, KeptExcept DEF Moves, TypeOK
<1> QED
  BY <1>2, <1>8

-----------------------------------------------------------------------------
(* Steps that end a request. *)

LEMMA WriteLeadKeeps ==
    ASSUME TypeOK, Kept, NEW r \in Requests, WriteLead(r) \/ DeleteLead(r) \/ GiveUp(r)
    PROVE  TypeOK' /\ Kept'
<1>1. /\ request' = [request EXCEPT ![r] = Idle]
      /\ UNCHANGED <<customer, contract, begun>>
  BY DEF WriteLead, DeleteLead, GiveUp, Done
<1>2. lead' \in Lead
  <2>1. lead \in Lead /\ request[r] \in Request
    BY DEF TypeOK
  <2>2. request[r].seen.lead \in Lead
    BY <2>1 DEF Request, Seen
  <2>3. CASE WriteLead(r)
    <3>1. Addressed(request[r])
      BY DEF Kept
    <3>2. CASE request[r].act \in {"claimLead", "assignLead"}
      BY <2>3, <3>1, <3>2, FlushTyped DEF WriteLead, Addressed, LeadStatus
    <3>3. CASE request[r].act = "returnLead"
      BY <2>3, <3>3, FlushTyped DEF WriteLead, Owner, LeadStatus
    <3>4. CASE request[r].act \in {"invalidLead", "editLead"}
      BY <2>2, <2>3, <3>1, <3>4, FlushTyped DEF WriteLead, Addressed, Lead
    <3> QED
      BY <2>3, <3>2, <3>3, <3>4 DEF WriteLead
  <2>4. CASE DeleteLead(r)
    BY <2>1, <2>4 DEF DeleteLead, Lead
  <2>5. CASE GiveUp(r)
    BY <2>1, <2>5 DEF GiveUp
  <2> QED
    BY <2>3, <2>4, <2>5
<1>3. customer' \in [Customers -> Customer] /\ \A c \in Customers : Moves(c)
  BY <1>1 DEF TypeOK, Moves
<1>4. request' \in [Requests -> Request] /\ Kept'
  BY <1>1, <1>3, DoneKeeps
<1>5. TypeOK'
  BY <1>1, <1>2, <1>4 DEF TypeOK
<1> QED
  BY <1>4, <1>5

LEMMA StatusKeeps ==
    ASSUME TypeOK, Kept, NEW r \in Requests, ChangeLifecycle(r) \/ Edit(r) \/ SetStatus(r)
    PROVE  /\ TypeOK' /\ Kept'
           /\ \A d \in Customers : customer'[d] = customer[d] \/ (d = request[r].on /\ There(d) /\ There(d)')
<1>1. PICK c \in Customers : c = request[r].on
  BY StatusOfRequest
<1>2. There(c) /\ request[r].act \in {"lifecycle", "edit", "setStatus", "lose"}
  BY <1>1 DEF ChangeLifecycle, Edit, SetStatus, Locked
<1>3. PICK to \in Status : to = request[r].to
  BY <1>2 DEF Kept, Addressed
<1>4. /\ request' = [request EXCEPT ![r] = Idle]
      /\ UNCHANGED <<lead, contract, begun>>
      /\ customer' = customer \/ customer' = WithStatus(c, to)
  BY <1>1, <1>3 DEF ChangeLifecycle, Edit, SetStatus, Done
<1>5. /\ customer' \in [Customers -> Customer]
      /\ \A d \in Customers : Moves(d)
      /\ \A d \in Customers : customer'[d] = customer[d] \/ (d = c /\ There(d) /\ There(d)')
  <2>1. CASE customer' = customer
    BY <2>1 DEF TypeOK, Moves
  <2>2. CASE customer' = WithStatus(c, to)
    BY <1>2, <2>2, StatusTyped DEF Moves, There
  <2> QED
    BY <1>4, <2>1, <2>2
<1>6. request' \in [Requests -> Request] /\ Kept'
  BY <1>4, <1>5, DoneKeeps
<1> QED
  BY <1>1, <1>4, <1>5, <1>6 DEF TypeOK

LEMMA OwnerKeeps ==
    ASSUME TypeOK, Kept, NEW r \in Requests, ClaimOrReturn(r) \/ Assign(r)
    PROVE  /\ TypeOK' /\ Kept'
           /\ \A d \in Customers : customer'[d] = customer[d] \/ (d = request[r].on /\ There(d) /\ There(d)')
<1>1. PICK c \in Customers : c = request[r].on
  BY StatusOfRequest
<1>2. There(c) /\ request[r].act \in {"claim", "return", "assign", "legacyAssign"}
  BY <1>1 DEF ClaimOrReturn, Assign, Locked, TransferAct
<1>3. PICK to \in Owner : to = request[r].to
  BY <1>2 DEF Kept, Addressed, Owner
<1>4. /\ request' = [request EXCEPT ![r] = Idle]
      /\ UNCHANGED <<lead, begun>>
      /\ contract' = contract \/ contract' = Moved(c, to)
      /\ \/ customer' = WithOwner(c, to)
         \/ customer' = [WithOwner(c, to) EXCEPT ![c].status = IF @ = "INACTIVE" THEN "FOLLOWING" ELSE @]
  <2>1. CASE ClaimOrReturn(r)
    BY <1>1, <1>3, <2>1 DEF ClaimOrReturn, Done
  <2>2. CASE Assign(r)
    BY <1>1, <1>3, <2>2 DEF Assign, Done
  <2> QED
    BY <2>1, <2>2
<1>5. /\ customer' \in [Customers -> Customer]
      /\ \A d \in Customers : Moves(d)
      /\ \A d \in Customers : customer'[d] = customer[d] \/ (d = c /\ There(d) /\ There(d)')
  <2>1. CASE customer' = WithOwner(c, to)
    BY <1>2, <2>1, OwnerTyped DEF Moves, There
  <2>2. CASE customer' = [WithOwner(c, to) EXCEPT ![c].status = IF @ = "INACTIVE" THEN "FOLLOWING" ELSE @]
    BY <1>2, <2>2, AssignTyped DEF Moves, There
  <2> QED
    BY <1>4, <2>1, <2>2
<1>6. request' \in [Requests -> Request] /\ Kept'
  BY <1>4, <1>5, DoneKeeps
<1>7. contract' \in [Customers -> Contract]
  <2>1. contract[c] \in Contract
    BY DEF TypeOK
  <2>2. [contract[c] EXCEPT !.owner = to] \in Contract
    BY <2>1 DEF Contract
  <2>3. Moved(c, to) = contract \/ Moved(c, to) = [contract EXCEPT ![c] = [contract[c] EXCEPT !.owner = to]]
    <3>1. CASE contract[c].row = "none" \/ contract[c].reviewed
      <4>1. Moved(c, to) = [contract EXCEPT ![c] = [contract[c] EXCEPT !.owner = contract[c].owner]]
        BY <3>1 DEF Moved
      <4>2. [contract[c] EXCEPT !.owner = contract[c].owner] = contract[c]
        BY <2>1 DEF Contract
      <4> QED
        BY <4>1, <4>2 DEF TypeOK
    <3>2. CASE ~(contract[c].row = "none" \/ contract[c].reviewed)
      BY <3>2 DEF Moved
    <3> QED
      BY <3>1, <3>2
  <2> QED
    BY <1>4, <2>2, <2>3 DEF TypeOK
<1> QED
  BY <1>1, <1>4, <1>5, <1>6, <1>7 DEF TypeOK

LEMMA DeleteKeeps ==
    ASSUME TypeOK, Kept, NEW r \in Requests, Delete(r)
    PROVE  /\ TypeOK' /\ Kept'
           /\ \A d \in Customers : customer'[d] = customer[d] \/ customer'[d].row = "gone"
<1>1. PICK c \in Customers : c = request[r].on
  BY StatusOfRequest
<1>2. /\ request' = [request EXCEPT ![r] = Idle]
      /\ begun' = begun
      /\ customer' = [customer EXCEPT ![c] = [NoCustomer EXCEPT !.row = "gone"]]
      /\ contract' = [contract EXCEPT ![c] = NoContract]
  BY <1>1 DEF Delete, Done
<1>3. /\ customer' \in [Customers -> Customer]
      /\ \A d \in Customers : customer'[d] = customer[d] \/ customer'[d].row = "gone"
  BY <1>2, Defaults DEF TypeOK
<1>4. \A d \in Customers : Moves(d)
  BY <1>3 DEF Moves
<1>5. request' \in [Requests -> Request] /\ Kept'
  BY <1>2, <1>3, <1>4, DoneKeeps
<1>6. lead' \in Lead
  <2>1. lead \in Lead /\ request[r].seen.lead \in Lead
    BY DEF TypeOK, Request, Seen
  <2>2. Flushed(request[r].seen.lead, request[r].seen.lead.owner, "FOLLOWING") \in Lead
    BY <2>1, FlushTyped DEF Lead, LeadStatus
  <2> QED
    BY <2>1, <2>2 DEF Delete, Restored
<1> QED
  BY <1>2, <1>3, <1>5, <1>6, Defaults DEF TypeOK

LEMMA ConvertKeeps ==
    ASSUME TypeOK, Kept, NEW r \in Requests, NEW c \in Customers, NEW name \in Names, Convert(r, c, name)
    PROVE  /\ TypeOK' /\ Kept'
           /\ \A d \in Customers \ {c} : customer'[d] = customer[d]
<1> DEFINE loaded == request[r].seen.lead
           new == [row |-> "there", name |-> name, status |-> "FOLLOWING", version |-> 1,
                   owner |-> IF loaded.owner = nobody THEN request[r].to ELSE loaded.owner]
<1>1. request' = [request EXCEPT ![r] = Idle] /\ UNCHANGED <<contract, begun>>
  BY DEF Convert, Done
<1>2. lead \in Lead /\ loaded \in Lead
  BY DEF TypeOK, Request, Seen
<1>3. request[r].to \in Owner
  BY DEF Convert, Kept, Addressed
<1>4. new \in Customer
  BY <1>2, <1>3 DEF Customer, Status, Lead
<1>5. customer' = [customer EXCEPT ![c] = new] /\ customer[c].row = "none"
  BY DEF Convert
<1>6. lead' \in Lead
  BY <1>2, FlushTyped DEF Convert, Lead, LeadStatus
<1> HIDE DEF new
<1>7. /\ customer' \in [Customers -> Customer]
      /\ \A d \in Customers \ {c} : customer'[d] = customer[d]
  BY <1>4, <1>5 DEF TypeOK
<1>8. \A d \in Customers : Moves(d)
  BY <1>5, <1>7 DEF Moves
<1>9. request' \in [Requests -> Request] /\ Kept'
  BY <1>1, <1>7, <1>8, DoneKeeps
<1> QED
  BY <1>1, <1>6, <1>7, <1>9 DEF TypeOK

LEMMA ContractKeeps ==
    ASSUME TypeOK, Kept, NEW c \in Customers, ContractStep(c)
    PROVE  /\ TypeOK' /\ Kept'
           /\ UNCHANGED <<lead, customer, request, begun>>
<1>1. UNCHANGED <<lead, customer, request, begun>>
  BY DEF ContractStep, CreateContract, ReviewContract, DeleteContract
<1>2. contract' \in [Customers -> Contract]
  <2>1. contract[c] \in Contract
    BY DEF TypeOK
  <2>2. ASSUME NEW owner \in Users, CreateContract(c, owner)
        PROVE  contract' \in [Customers -> Contract]
    <3>1. [row |-> "there", owner |-> owner, reviewed |-> FALSE] \in Contract
      BY DEF Contract, Owner
    <3> QED
      BY <2>2, <3>1 DEF CreateContract, TypeOK
  <2>3. ASSUME NEW reviewed \in BOOLEAN, ReviewContract(c, reviewed)
        PROVE  contract' \in [Customers -> Contract]
    <3>1. [contract[c] EXCEPT !.reviewed = reviewed] \in Contract
      BY <2>1 DEF Contract
    <3> QED
      BY <2>3, <3>1 DEF ReviewContract, TypeOK
  <2>4. ASSUME DeleteContract(c)
        PROVE  contract' \in [Customers -> Contract]
    <3>1. [contract[c] EXCEPT !.row = "deleted"] \in Contract
      BY <2>1 DEF Contract
    <3> QED
      BY <2>4, <3>1 DEF DeleteContract, TypeOK
  <2> QED
    BY <2>2, <2>3, <2>4 DEF ContractStep
<1> QED
  BY <1>1, <1>2, StutterKeeps DEF TypeOK

LEMMA StepKeeps == TypeOK /\ Kept /\ Next => TypeOK' /\ Kept'
<1> SUFFICES ASSUME TypeOK, Kept, Next PROVE TypeOK' /\ Kept'
  OBVIOUS
<1>1. CASE \E c \in Customers : ContractStep(c)
  BY <1>1, ContractKeeps
<1>2. ASSUME NEW r \in Requests, LeadStep(r) PROVE TypeOK' /\ Kept'
  BY <1>2, BeginLeadKeeps, WriteLeadKeeps, ConvertKeeps DEF LeadStep
<1>3. ASSUME NEW r \in Requests, CustomerStep(r) PROVE TypeOK' /\ Kept'
  BY <1>3, LookKeeps, BeginCustomerKeeps, StatusKeeps, OwnerKeeps, DeleteKeeps DEF CustomerStep
<1>4. ASSUME NEW r \in Requests, GiveUp(r) PROVE TypeOK' /\ Kept'
  BY <1>4, WriteLeadKeeps
<1> QED
  BY <1>1, <1>2, <1>3, <1>4 DEF Next

-----------------------------------------------------------------------------
LEMMA NextIInv == IInv /\ [Next]_vars => IInv'
<1>1. IInv /\ Next => IInv'
  BY StepKeeps DEF IInv
<1>2. IInv /\ UNCHANGED vars => IInv'
  <2> SUFFICES ASSUME IInv, UNCHANGED vars PROVE IInv'
    OBVIOUS
  <2> QED
    BY StutterKeeps DEF IInv, TypeOK, vars
<1> QED
  BY <1>1, <1>2

\* Every reachable state has the types that are declared: rows of leads, customers and contracts, and requests.
THEOREM TypeCorrect == Spec => []TypeOK
<1>1. IInv => TypeOK
  BY DEF IInv
<1> QED
  BY InitIInv, NextIInv, <1>1, PTL DEF Spec

LEMMA Invariance == Spec => []IInv
BY InitIInv, NextIInv, PTL DEF Spec

-----------------------------------------------------------------------------
(* What a step may not do. *)

\* Whose step it is: other requests keep what they are.
Of(r) == \A q \in Requests \ {r} : request'[q] = request[q]

\* The steps that touch a customer that is there.
Works(r) == ClaimOrReturn(r) \/ Assign(r) \/ ChangeLifecycle(r) \/ Edit(r) \/ SetStatus(r) \/ Delete(r)

LEMMA OwnStep ==
    ASSUME TypeOK, NEW r \in Requests, Works(r) \/ \E c \in Customers, name \in Names : Convert(r, c, name)
    PROVE  /\ Of(r) /\ request'[r].act = "none" /\ request[r].act # "none"
           /\ request' = [request EXCEPT ![r] = Idle]
<1>1. request' = [request EXCEPT ![r] = Idle] /\ request[r].act # "none"
  BY DEF Works, ClaimOrReturn, Assign, ChangeLifecycle, Edit, SetStatus, Delete, Convert, Done, Locked,
      TransferAct
<1> QED
  BY <1>1, DoneTyped, Defaults DEF Of

\* The other steps leave all customers as they are.
LEMMA WhoWorks ==
    ASSUME TypeOK, [Next]_vars, customer' # customer
    PROVE  \E r \in Requests : Works(r) \/ \E c \in Customers, name \in Names : Convert(r, c, name)
<1>1. Next
  BY DEF vars
<1>2. ASSUME NEW c \in Customers, ContractStep(c) PROVE FALSE
  BY <1>2 DEF ContractStep, CreateContract, ReviewContract, DeleteContract
<1>3. ASSUME NEW r \in Requests, GiveUp(r) PROVE FALSE
  BY <1>3 DEF GiveUp
<1>4. ASSUME NEW r \in Requests, LeadStep(r)
      PROVE  \E c \in Customers, name \in Names : Convert(r, c, name)
  BY <1>4 DEF LeadStep, BeginLead, WriteLead, DeleteLead
<1>5. ASSUME NEW r \in Requests, CustomerStep(r) PROVE Works(r)
  <2>1. ASSUME NEW c \in Customers, Look(r, c) PROVE FALSE
    BY <2>1 DEF Look
  <2>2. ASSUME NEW act, NEW to, NEW along, NEW versioned, BeginCustomer(r, act, to, along, versioned) PROVE FALSE
    BY <2>2 DEF BeginCustomer
  <2> QED
    BY <1>5, <2>1, <2>2 DEF CustomerStep, Works
<1> QED
  BY <1>1, <1>2, <1>3, <1>4, <1>5 DEF Next

\* A request that carries the version of its page acts on the owner and the status that were shown, unless it is a
\* legacy transfer, which does not compare it.
THEOREM OnWhatIsShown == Spec => ActsOnWhatIsShown
<1>1. ASSUME IInv, [Next]_vars, NEW r \in Requests, Changes(r), Compared(request[r])
      PROVE  AsShown(request[r])
  <2>1. TypeOK /\ Kept
    BY <1>1 DEF IInv
  <2>2. PICK s \in Requests : Works(s) \/ \E c \in Customers, name \in Names : Convert(s, c, name)
    BY <1>1, <2>1, WhoWorks DEF Changes
  <2>3. r = s
    BY <1>1, <2>1, <2>2, OwnStep DEF Of, Changes
  <2>4. request[r].act # "convert"
    BY <1>1, <2>1 DEF Kept, Planned, Compared
  <2>5. Works(r)
    BY <2>2, <2>3, <2>4 DEF Convert
  <2>6. request[r].act \in CustomerAct /\ There(request[r].on) /\ VersionIsRight(r)
    BY <2>5 DEF Works, ClaimOrReturn, Assign, ChangeLifecycle, Edit, SetStatus, Delete, Locked, CustomerAct, TransferAct
  <2>7. request[r].page.row = "there" /\ PageIsOld(request[r])
    BY <2>1, <2>6 DEF Kept, Planned
  <2> QED
    BY <1>1, <2>6, <2>7 DEF PageIsOld, VersionIsRight, AsShown
<1>2. IInv /\ [Next]_vars =>
        [\A r \in Requests : Changes(r) /\ Compared(request[r]) => AsShown(request[r])]_vars
  BY <1>1
<1> QED
  BY Invariance, <1>2, PTL DEF Spec, ActsOnWhatIsShown

\* The switch between following and won and the edit never revive a customer that is lost or inactive.
THEOREM ClosedCustomers == Spec => ClosedStaysClosed
<1> DEFINE Revived(c) == /\ customer[c].row = "there" /\ customer'[c].row = "there"
                         /\ customer[c].status \in {"LOST", "INACTIVE"} /\ customer'[c].status # customer[c].status
           By(c, r) == /\ request[r].on = c /\ Changes(r)
                       /\ \/ request[r].act \in {"setStatus", "lose"}
                          \/ request[r].act \in TransferAct /\ customer[c].status = "INACTIVE"
<1>1. ASSUME IInv, [Next]_vars, NEW c \in Customers, Revived(c) PROVE \E r \in Requests : By(c, r)
  <2>1. TypeOK /\ Kept
    BY <1>1 DEF IInv
  <2>2. customer' # customer
    BY <1>1
  <2>3. PICK r \in Requests : Works(r) \/ \E d \in Customers, name \in Names : Convert(r, d, name)
    BY <1>1, <2>1, <2>2, WhoWorks
  <2>4. Changes(r)
    BY <2>1, <2>2, <2>3, OwnStep DEF Changes
  <2>5. ASSUME NEW d \in Customers, NEW name \in Names, Convert(r, d, name) PROVE FALSE
    BY <1>1, <2>1, <2>5, ConvertKeeps DEF Convert
  <2>6. CASE Delete(r)
    BY <1>1, <2>1, <2>6, DeleteKeeps
  <2>7. CASE SetStatus(r)
    BY <1>1, <2>1, <2>4, <2>7, StatusKeeps DEF SetStatus, Locked
  <2>8. CASE Edit(r)
    BY <1>1, <2>1, <2>8, StatusKeeps DEF Edit
  <2>9. CASE ChangeLifecycle(r)
    <3>1. request[r].on = c
      BY <1>1, <2>1, <2>9, StatusKeeps
    <3>2. request[r].act = "lifecycle" /\ There(c) /\ VersionIsRight(r)
      BY <2>9, <3>1 DEF ChangeLifecycle, Locked
    <3>3. customer[c].status \in Open
      BY <2>1, <3>1, <3>2 DEF Kept, Planned, VersionIsRight, Compared
    <3> QED
      BY <1>1, <3>3 DEF Open
  <2>10. CASE Assign(r)
    <3>1. request[r].on = c
      BY <1>1, <2>1, <2>10, OwnerKeeps
    <3>2. request[r].to \in Owner
      BY <2>1, <2>10 DEF Assign, Locked, Kept, Addressed, TransferAct
    <3>3. customer[c].status = "INACTIVE"
      BY <1>1, <2>1, <2>10, <3>1, <3>2, AssignTyped DEF Assign, Locked
    <3> QED
      BY <2>4, <2>10, <3>1, <3>3 DEF Assign, Locked
  <2>11. CASE ClaimOrReturn(r)
    <3>1. request[r].on = c
      BY <1>1, <2>1, <2>11, OwnerKeeps
    <3>2. request[r].to \in Owner
      BY <2>1, <2>11 DEF ClaimOrReturn, Locked, Kept, Addressed, Owner
    <3> QED
      BY <1>1, <2>1, <2>11, <3>1, <3>2, OwnerTyped DEF ClaimOrReturn, Locked
  <2> QED
    BY <2>3, <2>5, <2>6, <2>7, <2>8, <2>9, <2>10, <2>11 DEF Works
<1>2. IInv /\ [Next]_vars =>
        [\A c \in Customers :
            /\ customer[c].row = "there" /\ customer'[c].row = "there"
            /\ customer[c].status \in {"LOST", "INACTIVE"} /\ customer'[c].status # customer[c].status
            => \E r \in Requests :
                  /\ request[r].on = c /\ Changes(r)
                  /\ \/ request[r].act \in {"setStatus", "lose"}
                     \/ request[r].act \in TransferAct /\ customer[c].status = "INACTIVE"]_vars
  BY <1>1
<1> QED
  BY Invariance, <1>2, PTL DEF Spec, ClosedStaysClosed

\* A contract under review or signed keeps its owner.
THEOREM ReviewedContracts == Spec => ReviewedKeepsOwner
<1>1. ASSUME TypeOK, Next, NEW c \in Customers,
             contract[c].row = "there", contract[c].reviewed, contract'[c].row = "there"
      PROVE  contract'[c].owner = contract[c].owner
  <2>1. contract[c] \in Contract
    BY <1>1 DEF TypeOK
  <2>2. CASE contract' = contract
    BY <2>2
  <2>3. ASSUME NEW d \in Customers, ContractStep(d) PROVE contract'[c].owner = contract[c].owner
    <3>1. CASE d # c
      BY <2>3, <3>1, <1>1 DEF ContractStep, CreateContract, ReviewContract, DeleteContract, TypeOK
    <3>2. CASE d = c
      <4>1. ASSUME NEW owner \in Users, CreateContract(d, owner) PROVE FALSE
        BY <1>1, <3>2, <4>1 DEF CreateContract
      <4>2. ASSUME DeleteContract(d) PROVE FALSE
        BY <1>1, <3>2, <4>2 DEF DeleteContract
      <4>3. ASSUME NEW reviewed \in BOOLEAN, ReviewContract(d, reviewed)
            PROVE  contract'[c].owner = contract[c].owner
        <5>1. contract'[c] = [contract[c] EXCEPT !.reviewed = reviewed]
          BY <1>1, <3>2, <4>3 DEF ReviewContract, TypeOK
        <5> QED
          BY <2>1, <5>1 DEF Contract
      <4> QED
        BY <2>3, <4>1, <4>2, <4>3 DEF ContractStep
    <3> QED
      BY <3>1, <3>2
  <2>4. ASSUME NEW r \in Requests, Assign(r) PROVE contract'[c].owner = contract[c].owner
    <3>1. contract' = contract \/ contract' = Moved(request[r].on, request[r].to)
      BY <2>4 DEF Assign
    <3>2. CASE contract' = Moved(request[r].on, request[r].to)
      BY <1>1, <2>1, <3>2 DEF Moved, TypeOK, Contract
    <3> QED
      BY <3>1, <3>2
  <2>5. ASSUME NEW r \in Requests, Delete(r) PROVE contract'[c].owner = contract[c].owner
    <3>1. contract' = [contract EXCEPT ![request[r].on] = NoContract]
      BY <2>5 DEF Delete
    <3>2. request[r].on # c
      BY <1>1, <3>1 DEF NoContract, TypeOK
    <3> QED
      BY <1>1, <3>1, <3>2 DEF TypeOK
  <2>6. ASSUME NEW r \in Requests, LeadStep(r) \/ GiveUp(r) PROVE contract' = contract
    BY <2>6 DEF LeadStep, BeginLead, WriteLead, DeleteLead, Convert, GiveUp
  <2>7. ASSUME NEW r \in Requests, CustomerStep(r), ~Assign(r), ~Delete(r) PROVE contract' = contract
    <3>1. ASSUME NEW act, NEW to, NEW along, NEW versioned, BeginCustomer(r, act, to, along, versioned)
          PROVE  contract' = contract
      BY <3>1 DEF BeginCustomer
    <3> QED
      BY <2>7, <3>1 DEF CustomerStep, Look, ClaimOrReturn, ChangeLifecycle, Edit, SetStatus
  <2> QED
    BY <1>1, <2>2, <2>3, <2>4, <2>5, <2>6, <2>7 DEF Next
<1>2. TypeOK /\ [Next]_vars =>
        [\A c \in Customers :
            contract[c].row = "there" /\ contract[c].reviewed /\ contract'[c].row = "there"
               => contract'[c].owner = contract[c].owner]_vars
  BY <1>1
<1> QED
  BY TypeCorrect, <1>2, PTL DEF Spec, ReviewedKeepsOwner
=============================================================================
