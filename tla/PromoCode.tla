----------------------------- MODULE PromoCode -----------------------------
(***************************************************************************)
(* A promo code of the pricing context: its row with the number of uses,   *)
(* and a row per redemption.                                               *)
(*                                                                         *)
(* A command is one database transaction at the level read committed: each *)
(* of its queries sees what has been committed by then.  Nothing is locked *)
(* until the transaction saves: the update of the row succeeds only if its *)
(* version is still the one that was read first.                           *)
(*                                                                         *)
(* The period of the code and the smallest cart it is for are not          *)
(* modelled: a redemption may be refused for them at any time.             *)
(***************************************************************************)
EXTENDS Naturals, FiniteSets

CONSTANTS
    Orders, Buyer, TotalLimit, CustomerLimit,  \* as in module Quota
    Sessions,    \* database sessions, each with one transaction at a time
    MaxVersion,  \* bound: no transaction begins at a later version of the row
    NoSubject    \* no order

ASSUME PromoCodeAssumption ==
    /\ TotalLimit \in Nat /\ CustomerLimit \in Nat
    /\ MaxVersion \in Nat \ {0}
    /\ NoSubject \notin Orders

VARIABLES
    row,        \* the row of the code: uses, status, version
    redeemed,   \* orders with a redemption row
    op,         \* session -> the command it runs
    subject,    \* session -> the order the command is about
    at,         \* session -> the next query of its transaction
    seen,       \* session -> the row of the code as it has read it
    usage       \* session -> the redemptions of the customer it has counted

vars == <<row, redeemed, op, subject, at, seen, usage>>

Status == {"active", "disabled"}
Row == [used : Nat, status : Status, version : Nat]

UsedBy(c) == {o \in redeemed : Buyer[o] = c}

NoRow == [used |-> 0, status |-> "active", version |-> 0]

Below(n, limit) == limit = 0 \/ n < limit

(* CreatePromoCode has inserted the row.                                   *)
Init ==
    /\ row = [used |-> 0, status |-> "active", version |-> 1]
    /\ redeemed = {}
    /\ op = [s \in Sessions |-> "none"]
    /\ at = [s \in Sessions |-> "idle"]
    /\ subject = [s \in Sessions |-> NoSubject]
    /\ seen = [s \in Sessions |-> NoRow]
    /\ usage = [s \in Sessions |-> 0]

-----------------------------------------------------------------------------
Goto(s, l) == at' = [at EXCEPT ![s] = l]

(* The session forgets what it has read.                                   *)
End(s) ==
    /\ op' = [op EXCEPT ![s] = "none"]
    /\ subject' = [subject EXCEPT ![s] = NoSubject]
    /\ at' = [at EXCEPT ![s] = "idle"]
    /\ seen' = [seen EXCEPT ![s] = NoRow]
    /\ usage' = [usage EXCEPT ![s] = 0]

Command(s) ==
    /\ at[s] = "idle" /\ row.version <= MaxVersion
    /\ \/ \E c \in {"redeem", "release"}, o \in Orders :
             /\ op' = [op EXCEPT ![s] = c]
             /\ subject' = [subject EXCEPT ![s] = o]
       \/ \E c \in {"enable", "disable"} :
             /\ op' = [op EXCEPT ![s] = c]
             /\ UNCHANGED subject
    /\ Goto(s, "find")
    /\ UNCHANGED <<row, redeemed, seen, usage>>

FindByCode(s) ==
    /\ at[s] = "find"
    /\ seen' = [seen EXCEPT ![s] = row]
    /\ Goto(s, IF op[s] \in {"redeem", "release"} THEN "redeemed" ELSE "save")
    /\ UNCHANGED <<row, redeemed, op, subject, usage>>

(* Redeeming twice is an error, releasing what is not redeemed is not; the *)
(* transaction ends in both cases.                                         *)
Redeemed(s) ==
    /\ at[s] = "redeemed"
    /\ \/ /\ op[s] = "redeem" /\ subject[s] \notin redeemed
          /\ Goto(s, "usage")
          /\ UNCHANGED <<op, subject, seen, usage>>
       \/ /\ op[s] = "release" /\ subject[s] \in redeemed
          /\ Goto(s, "save")
          /\ UNCHANGED <<op, subject, seen, usage>>
       \/ /\ op[s] = "redeem" <=> subject[s] \in redeemed
          /\ End(s)
    /\ UNCHANGED <<row, redeemed>>

CustomerUsage(s) ==
    /\ at[s] = "usage"
    /\ usage' = [usage EXCEPT ![s] = Cardinality(UsedBy(Buyer[subject[s]]))]
    /\ Goto(s, "save")
    /\ UNCHANGED <<row, redeemed, op, subject, seen>>

(* EnsureUsable.                                                           *)
Usable(s) ==
    /\ seen[s].status = "active"
    /\ Below(seen[s].used, TotalLimit)
    /\ Below(usage[s], CustomerLimit)

(* Faulty: the row is updated whatever its version.                        *)
SaveUnversioned(s, used, status) ==
    row' = [used |-> used, status |-> status, version |-> row.version + 1]

(* Faulty: the update adds the difference to what the row holds by now.    *)
SaveDifference(s, used, status) ==
    row' = [used |-> row.used + used - seen[s].used, status |-> status,
            version |-> row.version + 1]

(* The update that ends every transaction; it writes all of the row.       *)
Save(s, used, status) ==
    /\ row.version = seen[s].version
    /\ row' = [used |-> used, status |-> status, version |-> row.version + 1]

(* The redemption row is inserted first; its primary key refuses a second  *)
(* one of the order.                                                       *)
Redeem(s) ==
    /\ at[s] = "save" /\ op[s] = "redeem"
    /\ Usable(s)
    /\ subject[s] \notin redeemed
    /\ Save(s, seen[s].used + 1, seen[s].status)
    /\ redeemed' = redeemed \cup {subject[s]}
    /\ End(s)

Release(s) ==
    /\ at[s] = "save" /\ op[s] = "release"
    /\ Save(s, IF seen[s].used > 0 THEN seen[s].used - 1 ELSE 0, seen[s].status)
    /\ redeemed' = redeemed \ {subject[s]}
    /\ End(s)

(* A code that has the status already is saved all the same.               *)
SetStatus(s) ==
    /\ at[s] = "save" /\ op[s] \in {"enable", "disable"}
    /\ Save(s, seen[s].used, IF op[s] = "enable" THEN "active" ELSE "disabled")
    /\ End(s)
    /\ UNCHANGED redeemed

(* The transaction rolls back: the code may not be used, the version has   *)
(* changed, or the database fails.                                         *)
RollBack(s) ==
    /\ at[s] # "idle"
    /\ End(s)
    /\ UNCHANGED <<row, redeemed>>

Step(s) ==
    \/ Command(s) \/ FindByCode(s) \/ Redeemed(s) \/ CustomerUsage(s)
    \/ Redeem(s) \/ Release(s) \/ SetStatus(s) \/ RollBack(s)

Next == \E s \in Sessions : Step(s)

Spec == Init /\ [][Next]_vars

-----------------------------------------------------------------------------
(* Every variable stays in its range.                                      *)
TypeOK ==
    /\ row \in Row
    /\ redeemed \subseteq Orders
    /\ op \in [Sessions -> {"none", "redeem", "release", "enable", "disable"}]
    /\ subject \in [Sessions -> Orders \cup {NoSubject}]
    /\ at \in [Sessions -> {"idle", "find", "redeemed", "usage", "save"}]
    /\ seen \in [Sessions -> Row]
    /\ usage \in [Sessions -> Nat]

(* The counter in the row is the number of redemptions, although commands  *)
(* write it from what they read before.                                    *)
UsedIsCounted == row.used = Cardinality(redeemed)

(* Nobody gets more uses than the limits allow, however many checkouts     *)
(* redeem at once: the version of the row protects what was counted from   *)
(* another table.                                                          *)
LimitsHold ==
    /\ TotalLimit > 0 => Cardinality(redeemed) <= TotalLimit
    /\ CustomerLimit > 0 =>
          \A o \in Orders : Cardinality(UsedBy(Buyer[o])) <= CustomerLimit

Promise == INSTANCE Quota WITH status <- row.status

(* The transactions, which write the whole row from what they have read,   *)
(* look like taking and giving back one use at a time: a code that a       *)
(* manager has disabled is neither redeemed nor enabled again by a command *)
(* that read it before.                                                    *)
KeepsQuota == Promise!Spec
=============================================================================
