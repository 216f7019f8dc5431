------------------------------ MODULE MCOutbox ------------------------------
(* Two events of one aggregate and one of another, for TLC.               *)
EXTENDS Outbox, TLC

Aggregates == 1 :> "product" @@ 2 :> "product" @@ 3 :> "order"
Subscriptions == 1 :> {"index", "stock"} @@ 2 :> {"index"} @@ 3 :> {"stock"}
=============================================================================
