------------------------------ MODULE Delivery ------------------------------
(***************************************************************************)
(* What the platform promises of an event: it is written with the change   *)
(* it announces, each of its consumers registers it once, and it counts as *)
(* published when all of them have.                                        *)
(***************************************************************************)
EXTENDS Naturals

CONSTANTS
    Events,       \* events, by the order of their ids
    Subscribers   \* event -> the consumers subscribed to it

VARIABLES
    row,          \* event -> its row in the outbox
    inbox         \* <<consumer, event>> pairs that have been processed

vars == <<row, inbox>>

Init ==
    /\ row = [e \in Events |-> "none"]
    /\ inbox = {}

Write(e) ==
    /\ row[e] = "none"
    /\ row' = [row EXCEPT ![e] = "pending"]
    /\ UNCHANGED inbox

Receive(c, e) ==
    /\ row[e] = "pending"
    /\ <<c, e>> \notin inbox
    /\ inbox' = inbox \cup {<<c, e>>}
    /\ UNCHANGED row

Publish(S) ==
    /\ \A e \in S : row[e] = "pending" /\ Subscribers[e] \X {e} \subseteq inbox
    /\ row' = [e \in Events |-> IF e \in S THEN "published" ELSE row[e]]
    /\ UNCHANGED inbox

Next ==
    \/ \E e \in Events : Write(e) \/ \E c \in Subscribers[e] : Receive(c, e)
    \/ \E S \in SUBSET Events : Publish(S)

Spec == Init /\ [][Next]_vars
=============================================================================
