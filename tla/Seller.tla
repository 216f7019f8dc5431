------------------------------- MODULE Seller -------------------------------
(***************************************************************************)
(* The seller context: applications and their moderation, the seller's     *)
(* members and bank account, its rating, and the commission rates.         *)
(*                                                                         *)
(* A request is one goroutine in one handler.  It reads the seller in two  *)
(* steps, the row and then the rows of its children, changes what it has   *)
(* read, and saves the whole of it if the version is still the one read.   *)
(* Staff are known by their permissions: what they may run is MayRun.      *)
(***************************************************************************)
EXTENDS Integers, FiniteSets

CONSTANTS
    Users, Sellers,            \* user ids, seller ids
    Legal, Form, Tax,          \* legal details, and the form and tax id of each
    Banks,                     \* bank accounts
    Documents, Kind,           \* object keys of documents, and the kind of each
    RatedCategories, Rates,    \* categories, basis points
    Metrics,                   \* what a seller's performance may be
    MinOrders, SuspendBelow, CancellationWeight, LatenessWeight, ReviewWeight,
    DefaultRate,               \* CommissionPolicy
    maxDocuments, maxMembers,
    Callers, MayRun,           \* goroutines of requests, what each may run
    MaxSellerVersion,          \* bound on the changes of one seller or category
    Absent

BasisPoints == 0 .. 10000

(* Rates are parts of the whole, counts and weights are not negative, and  *)
(* some weight counts: basis points and policies are validated.            *)
ASSUME SellerAssumption ==
    /\ Rates \cup {DefaultRate} \subseteq BasisPoints
    /\ MinOrders \in Nat
    /\ CancellationWeight \in Nat /\ LatenessWeight \in Nat /\ ReviewWeight \in Nat
    /\ CancellationWeight + LatenessWeight + ReviewWeight > 0
    /\ Metrics \subseteq [orders : Nat, cancelled : Nat, late : Nat, reviews : Nat, stars : Nat]

VARIABLES
    seller,      \* seller.sellers with its children
    commission,  \* seller.category_commissions
    call,        \* request -> the handler it runs, and what it has read
    filed        \* seller -> legal details and documents as last submitted

sellerVars == <<seller, commission, call, filed>>

-----------------------------------------------------------------------------
(* Rows.                                                                   *)

Status == {"draft", "pending_review", "active", "suspended", "terminated"}
MemberRole == {"seller_admin", "seller_operator"}

Rating == [score : 0 .. 100, provisional : BOOLEAN]
SellerRow == [status : Status \cup {"none"}, owner : Users \cup {Absent},
              legal : Legal \cup {Absent}, bank : Banks \cup {Absent}, verified : BOOLEAN,
              documents : SUBSET Documents, members : [Users -> MemberRole \cup {"none"}],
              overrides : [RatedCategories -> Rates \cup {Absent}], rating : Rating \cup {Absent},
              version : Nat]
NoSeller == [status |-> "none", owner |-> Absent, legal |-> Absent, bank |-> Absent,
             verified |-> FALSE, documents |-> {}, members |-> [u \in Users |-> "none"],
             overrides |-> [c \in RatedCategories |-> Absent], rating |-> Absent, version |-> 0]

CommissionRow == [rate : Rates \cup {Absent}, version : Nat]
NoCommission == [rate |-> Absent, version |-> 0]

Quiet == [at |-> "idle", op |-> "none", id |-> Absent, actor |-> Absent, arg |-> Absent,
          row |-> NoSeller]

SellerTypeOK ==
    /\ seller \in [Sellers -> SellerRow]
    /\ commission \in [RatedCategories -> CommissionRow]
    /\ \A r \in Callers : /\ call[r].at \in {"idle", "root", "children", "category", "save"}
                           /\ call[r].op \in {"none"} \cup MayRun[r]
    /\ filed \in [Sellers -> [legal : Legal \cup {Absent}, documents : SUBSET Documents]]

SellerInit ==
    /\ seller = [s \in Sellers |-> NoSeller]
    /\ commission = [c \in RatedCategories |-> NoCommission]
    /\ call = [r \in Callers |-> Quiet]
    /\ filed = [s \in Sellers |-> [legal |-> Absent, documents |-> {}]]

-----------------------------------------------------------------------------
(* The aggregate: what a method makes of a row, None where it refuses.     *)

CanTransition(s, target) ==
    CASE s.status = "draft" -> target = "pending_review"
      [] s.status = "pending_review" -> target \in {"active", "draft"}
      [] s.status = "active" -> target \in {"suspended", "terminated"}
      [] s.status = "suspended" -> target \in {"active", "terminated"}
      [] OTHER -> FALSE
Transition(s, target) == IF CanTransition(s, target) THEN [s EXCEPT !.status = target] ELSE Absent

IsAdmin(s, actor) == s.members[actor] = "seller_admin"
IsMember(s, u) == s.members[u] # "none"
Terminated(s) == s.status = "terminated"

OpenApplication(owner, legal) ==
    [NoSeller EXCEPT !.status = "draft", !.owner = owner, !.legal = legal,
                     !.members[owner] = "seller_admin"]

UpdateLegalDetails(s, actor, legal) ==
    IF IsAdmin(s, actor) /\ s.status = "draft" THEN [s EXCEPT !.legal = legal] ELSE Absent

ChangeBankAccount(s, actor, bank) ==
    IF ~IsAdmin(s, actor) \/ Terminated(s) THEN Absent
    ELSE IF s.bank = bank THEN s
    ELSE [s EXCEPT !.bank = bank, !.verified = FALSE]

VerifyBankAccount(s) ==
    IF Terminated(s) \/ s.bank = Absent \/ s.verified THEN Absent
    ELSE [s EXCEPT !.verified = TRUE]

AttachDocument(s, actor, document) ==
    IF /\ IsAdmin(s, actor) /\ s.status = "draft"
       /\ Cardinality(s.documents) < maxDocuments /\ document \notin s.documents
      THEN [s EXCEPT !.documents = @ \cup {document}] ELSE Absent

Required(s) == {"registration_certificate", "bank_confirmation"}
                 \cup (IF Form[s.legal] = "legal_entity" THEN {"charter"} ELSE {})
MissingForReview(s) == s.bank = Absent \/ ~(Required(s) \subseteq {Kind[d] : d \in s.documents})

SubmitForReview(s, actor) ==
    IF IsAdmin(s, actor) /\ ~MissingForReview(s) THEN Transition(s, "pending_review") ELSE Absent

Approve(s) ==
    IF s.status = "pending_review"
      THEN [s EXCEPT !.status = "active", !.verified = TRUE] ELSE Absent
Reject(s) == Transition(s, "draft")
Suspend(s) == Transition(s, "suspended")
Reinstate(s) == IF s.status = "suspended" THEN Transition(s, "active") ELSE Absent
Terminate(s) == Transition(s, "terminated")

AddMember(s, actor, u, role) ==
    IF /\ IsAdmin(s, actor) /\ ~Terminated(s) /\ ~IsMember(s, u)
       /\ Cardinality({v \in Users : IsMember(s, v)}) < maxMembers
      THEN [s EXCEPT !.members[u] = role] ELSE Absent

RemoveMember(s, actor, u) ==
    IF IsAdmin(s, actor) /\ u # s.owner /\ IsMember(s, u)
      THEN [s EXCEPT !.members[u] = "none"] ELSE Absent

SetCommissionOverride(s, category, rate) ==
    IF Terminated(s) THEN Absent ELSE [s EXCEPT !.overrides[category] = rate]
ClearCommissionOverride(s, category) == [s EXCEPT !.overrides[category] = Absent]

(* The rate in force for a seller and a category.                          *)
RateFor(s, category) ==
    IF s.overrides[category] # Absent THEN s.overrides[category]
    ELSE IF commission[category].rate # Absent THEN commission[category].rate
    ELSE DefaultRate

-----------------------------------------------------------------------------
(* The rating, from what a seller has done.                                *)

ValidMetrics(m) ==
    /\ m.cancelled <= m.orders /\ m.late <= m.orders
    /\ m.reviews <= m.stars /\ m.stars <= 5 * m.reviews

Ratio(part, total) == IF total = 0 THEN 0 ELSE (part * 10000) \div total
(* Faulty: the score of a seller may fall below zero.                      *)
AsItIs(n) == n

AtLeastZero(n) == IF n < 0 THEN 0 ELSE n

Calculate(m) ==
    LET cancellation == AtLeastZero(100 - (Ratio(m.cancelled, m.orders) * 5) \div 100)
        lateness == AtLeastZero(100 - (Ratio(m.late, m.orders) * 4) \div 100)
        review == IF m.reviews = 0 THEN 80
                  ELSE (((m.stars * 100) \div m.reviews - 100) * 100) \div 400
    IN  [score |-> (cancellation * CancellationWeight + lateness * LatenessWeight
                     + review * ReviewWeight)
                   \div (CancellationWeight + LatenessWeight + ReviewWeight),
         provisional |-> m.orders < MinOrders]

ApplyPerformance(s, m) ==
    IF ~ValidMetrics(m) THEN Absent
    ELSE LET rated == [s EXCEPT !.rating = Calculate(m)]
         IN  IF s.status = "active" /\ ~rated.rating.provisional
                /\ rated.rating.score < SuspendBelow
               THEN Suspend(rated) ELSE rated

-----------------------------------------------------------------------------
(* The repository.  Among the sellers that are not terminated an owner and *)
(* a tax id are unique.                                                    *)

Standing(s) == seller[s].status \notin {"none", "terminated"}
Taken(id, row) ==
    \E s \in Sellers \ {id} : /\ Standing(s)
                              /\ \/ seller[s].owner = row.owner
                                 \/ Tax[seller[s].legal] = Tax[row.legal]

(* Faulty: the update does not ask for the version.                        *)
SaveAnySeller(id, row) ==
    /\ row.version = 0 => seller[id].version = 0
    /\ ~Terminated(row) => ~Taken(id, row)

CanSave(id, row) ==
    /\ seller[id].version = row.version
    /\ ~Terminated(row) => ~Taken(id, row)

Save(id, row) == seller' = [seller EXCEPT ![id] = [row EXCEPT !.version = @ + 1]]

-----------------------------------------------------------------------------
(* Handlers.                                                               *)

MemberOps == {"legal", "bank", "attach", "submit", "add", "remove"}

(* What a handler makes of the row it has read: a member's, or the staff's.*)
Changed(op, actor, arg, s) ==
    CASE op = "legal" -> UpdateLegalDetails(s, actor, arg)
      [] op = "bank" -> ChangeBankAccount(s, actor, arg)
      [] op = "attach" -> AttachDocument(s, actor, arg)
      [] op = "submit" -> SubmitForReview(s, actor)
      [] op = "add" -> AddMember(s, actor, arg[1], arg[2])
      [] op = "remove" -> RemoveMember(s, actor, arg)
      [] op = "approve" -> Approve(s)
      [] op = "reject" -> Reject(s)
      [] op = "verify" -> VerifyBankAccount(s)
      [] op = "suspend" -> Suspend(s)
      [] op = "reinstate" -> Reinstate(s)
      [] op = "terminate" -> Terminate(s)
      [] op = "override" -> SetCommissionOverride(s, arg[1], arg[2])
      [] op = "clear" -> ClearCommissionOverride(s, arg)
      [] op = "performance" -> ApplyPerformance(s, arg)

Arguments ==
    [legal |-> Legal, bank |-> Banks, attach |-> Documents, submit |-> {Absent},
     add |-> Users \X MemberRole, remove |-> Users,
     approve |-> {Absent}, reject |-> {Absent}, verify |-> {Absent}, suspend |-> {Absent},
     reinstate |-> {Absent}, terminate |-> {Absent},
     override |-> RatedCategories \X Rates, clear |-> RatedCategories, performance |-> Metrics]

StartOpen(r, id, owner, legal) ==
    /\ call[r].at = "idle" /\ "open" \in MayRun[r]
    /\ seller[id].status = "none" /\ \A q \in Callers : call[q].id # id
    /\ call' = [call EXCEPT ![r] = [at |-> "save", op |-> "open", id |-> id, actor |-> owner,
                                    arg |-> Absent, row |-> OpenApplication(owner, legal)]]
    /\ UNCHANGED <<seller, commission, filed>>

StartCall(r, id, actor, op, arg) ==
    /\ call[r].at = "idle" /\ op \in MayRun[r]
    /\ seller[id].status # "none" /\ seller[id].version < MaxSellerVersion
    /\ call' = [call EXCEPT ![r] = [at |-> "root", op |-> op, id |-> id, actor |-> actor,
                                    arg |-> arg, row |-> NoSeller]]
    /\ UNCHANGED <<seller, commission, filed>>

FindByID(r) ==
    /\ call[r].at = "root"
    /\ call' = [call EXCEPT ![r].at = "children", ![r].row = seller[call[r].id]]
    /\ UNCHANGED <<seller, commission, filed>>

LoadChildren(r) ==
    /\ call[r].at = "children"
    /\ LET children == seller[call[r].id]
       IN  call' = [call EXCEPT ![r].at = "save", ![r].row.members = children.members,
                                ![r].row.documents = children.documents,
                                ![r].row.overrides = children.overrides]
    /\ UNCHANGED <<seller, commission, filed>>

Commit(r) ==
    /\ call[r].at = "save" /\ call[r].op # "category"
    /\ LET q == call[r]
           row == IF q.op = "open" THEN q.row
                  ELSE IF q.op \in MemberOps /\ ~IsMember(q.row, q.actor) THEN Absent
                  ELSE Changed(q.op, q.actor, q.arg, q.row)
       IN  IF row # Absent /\ CanSave(q.id, row)
             THEN /\ Save(q.id, row)
                  /\ filed' = IF q.op = "submit"
                       THEN [filed EXCEPT ![q.id] = [legal |-> row.legal,
                                                         documents |-> row.documents]]
                       ELSE filed
             ELSE UNCHANGED <<seller, filed>>
    /\ call' = [call EXCEPT ![r] = Quiet]
    /\ UNCHANGED commission

(* The rate of a category: an insert of the first, an update by version.   *)
StartCategory(r, category, rate) ==
    /\ call[r].at = "idle" /\ "category" \in MayRun[r]
    /\ commission[category].version < MaxSellerVersion
    /\ call' = [call EXCEPT ![r] = [Quiet EXCEPT !.at = "category", !.op = "category",
                                                 !.id = category, !.arg = rate]]
    /\ UNCHANGED <<seller, commission, filed>>

FindByCategory(r) ==
    /\ call[r].at = "category"
    /\ call' = [call EXCEPT ![r].at = "save", ![r].row = commission[call[r].id]]
    /\ UNCHANGED <<seller, commission, filed>>

CommitRate(r) ==
    /\ call[r].at = "save" /\ call[r].op = "category"
    /\ LET q == call[r]
       IN  commission' = IF commission[q.id].version = q.row.version
             THEN [commission EXCEPT ![q.id] = [rate |-> q.arg, version |-> q.row.version + 1]]
             ELSE commission
    /\ call' = [call EXCEPT ![r] = Quiet]
    /\ UNCHANGED <<seller, filed>>

SellerNext ==
    \E r \in Callers :
        \/ FindByID(r) \/ LoadChildren(r) \/ Commit(r)
        \/ FindByCategory(r) \/ CommitRate(r)
        \/ \E id \in Sellers, u \in Users :
              \/ \E legal \in Legal : StartOpen(r, id, u, legal)
              \/ \E op \in MayRun[r] \cap DOMAIN Arguments :
                    /\ op \notin MemberOps => u = seller[id].owner
                    /\ \E arg \in Arguments[op] : StartCall(r, id, u, op, arg)
        \/ \E c \in RatedCategories, rate \in Rates : StartCategory(r, c, rate)

SellerSpec == SellerInit /\ [][SellerNext]_sellerVars

-----------------------------------------------------------------------------
(* A seller is approved as it was submitted: what moderation has before it *)
(* does not change under it, nor does an approval bring back what was      *)
(* submitted before.  Nothing but an approval or a reinstatement makes it  *)
(* active, and a bank account that takes another's place is not verified.  *)
ApprovedAsSubmitted ==
    [][\A s \in Sellers :
         LET row == seller[s]
             after == seller'[s]
         IN  /\ (after.status = "active" /\ row.status # "active") =>
                  \/ row.status = "suspended"
                  \/ /\ row.status = "pending_review"
                     /\ filed[s] = [legal |-> after.legal, documents |-> after.documents]
             /\ after.bank # row.bank => ~after.verified]_sellerVars
=============================================================================
