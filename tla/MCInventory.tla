---------------------------- MODULE MCInventory ----------------------------
(* Instances of Inventory for TLC: two reservations over two stock items,  *)
(* one of both items and one of the first, so that a batch of one item may *)
(* take a part of one reservation together with the whole of the other.    *)
EXTENDS Inventory, TLC

CONSTANTS r1, r2

TwoLines == r1 :> (1 :> 1 @@ 2 :> 1) @@ r2 :> (1 :> 1 @@ 2 :> 0)
=============================================================================
