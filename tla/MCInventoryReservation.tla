------------------------ MODULE MCInventoryReservation ------------------------
(***************************************************************************)
(* Small instances of InventoryReservation: one inventory item received in *)
(* an older batch of two units and a newer one of a single unit, so that   *)
(* an order of two units fits in the older batch, or is split over both.   *)
(***************************************************************************)
EXTENDS InventoryReservation, TLC

CONSTANTS older, newer

ItemOf == [b \in Batch |-> "panel"]
Age == [b \in Batch |-> IF b = older THEN 1 ELSE 2]
Units == [b \in Batch |-> IF b = older THEN 2 ELSE 1]

Panels(n) == [inventory |-> "panel", quantity |-> n]

\* One unit, two units, and two items that name the same inventory.
OneUnit == {<<Panels(1)>>}
TwoUnits == {<<Panels(2)>>}
OneOrTwoUnits == OneUnit \cup TwoUnits
OneItemOrTwo == {<<Panels(2)>>, <<Panels(1), Panels(1)>>}
NoOrders == {}

CashOnly == {"CASH"}
CashOrSystem == {"CASH", "SYSTEM"}

RequestSymmetry == Permutations(Request)
=============================================================================
