----------------------------- MODULE MCInventory -----------------------------
(* Instances of Inventory for TLC: one stock row, or two for the transfers.  *)
EXTENDS Inventory, TLC

CONSTANTS x, y

SameItem == [row \in Rows |-> "item"]
OneRow == [row \in Rows |-> 2]
TwoRows == x :> 2 @@ y :> 1

Symmetries == Permutations(Reservations) \cup Permutations(ApiSessions)
=============================================================================
