---------------------------- MODULE Reservation ----------------------------
(***************************************************************************)
(* What the inventory context promises to its only client, ordering: a     *)
(* reservation is one thing, however many stock items its lines hold.  It  *)
(* is taken whole, then either sold, given back or lapsed, and only a sold *)
(* one can come back to stock.                                             *)
(***************************************************************************)
CONSTANT Reservations

VARIABLE state

Init == state = [r \in Reservations |-> "none"]

Move(r, from, to) == state[r] = from /\ state' = [state EXCEPT ![r] = to]

Take(r) == Move(r, "none", "held")
Commit(r) == Move(r, "held", "committed")
Release(r) == Move(r, "held", "released")
Restore(r) == Move(r, "committed", "restored")

(* The expiry job takes a batch of stock items, with whatever reservations *)
(* are due on them.                                                        *)
Lapse(batch) ==
    /\ \A r \in batch : state[r] = "held"
    /\ state' = [r \in Reservations |-> IF r \in batch THEN "lapsed" ELSE state[r]]

Next ==
    \/ \E r \in Reservations : Take(r) \/ Commit(r) \/ Release(r) \/ Restore(r)
    \/ \E batch \in (SUBSET Reservations) \ {{}} : Lapse(batch)

Spec == Init /\ [][Next]_state
=============================================================================
