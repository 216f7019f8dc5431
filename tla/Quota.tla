------------------------------- MODULE Quota -------------------------------
(***************************************************************************)
(* What pricing promises of a promo code: while it is active, orders take  *)
(* a use of it, and at any time they give one back, one at a time; the     *)
(* uses taken never exceed the limits of the code, in total and for each   *)
(* customer.  Managers disable the code and enable it again, and nobody    *)
(* else does.                                                              *)
(***************************************************************************)
EXTENDS Naturals, FiniteSets

CONSTANTS
    Orders,         \* orders that may use the code
    Buyer,          \* order -> its customer
    TotalLimit,     \* uses in total, 0 for no limit
    CustomerLimit   \* uses per customer, 0 for no limit

VARIABLES
    redeemed,       \* orders that have taken a use
    status          \* "active" or "disabled"

quotaVars == <<redeemed, status>>

UsedBy(c) == {o \in redeemed : Buyer[o] = c}

Below(n, limit) == limit = 0 \/ n < limit

Init == redeemed = {} /\ status = "active"

Take(o) ==
    /\ status = "active"
    /\ o \notin redeemed
    /\ Below(Cardinality(redeemed), TotalLimit)
    /\ Below(Cardinality(UsedBy(Buyer[o])), CustomerLimit)
    /\ redeemed' = redeemed \cup {o}
    /\ UNCHANGED status

GiveBack(o) ==
    /\ o \in redeemed
    /\ redeemed' = redeemed \ {o}
    /\ UNCHANGED status

SetStatus ==
    /\ status' \in {"active", "disabled"}
    /\ UNCHANGED redeemed

Next == SetStatus \/ \E o \in Orders : Take(o) \/ GiveBack(o)

Spec == Init /\ [][Next]_quotaVars
=============================================================================
