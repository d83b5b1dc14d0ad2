---------------------------- MODULE MCProductSale ----------------------------
(***************************************************************************)
(* Small instances of ProductSale: an older batch of two units and a newer *)
(* one of a single unit; an order of three units is split over both.       *)
(***************************************************************************)
EXTENDS ProductSale, TLC

CONSTANTS older, newer

ItemOf == [b \in Batch |-> "panel"]
Age1 == [b \in Batch |-> IF b = older THEN 1 ELSE 2]
Units == [b \in Batch |-> IF b = older THEN 2 ELSE 1]

Panels(n) == [inventory |-> "panel", quantity |-> n]
OneUnit == {Panels(1)}
ThreeUnits == {Panels(3)}

RowSymmetry == Permutations(Sale) \cup Permutations(Payment) \cup Permutations(Job)
=============================================================================
