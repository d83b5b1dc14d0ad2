---------------------------- MODULE BatchAllocation ----------------------------
(***************************************************************************)
(* Taking stock from the batches of an inventory item, oldest batch first: *)
(* what the allocation loops of the inventory sales and the product sales  *)
(* have in common.  An allocation gives the quantity taken of each batch.  *)
(***************************************************************************)
EXTENDS Integers, FiniteSets

CONSTANTS
  Batch,          \* inventory batches
  InventoryOf,    \* InventoryOf[b]: the inventory item b is a batch of
  CreatedAt,      \* CreatedAt[b]: its age, which orders FIFO allocation
  MaxQuantity     \* bound on the quantity of an item

Item == [inventory : {InventoryOf[b] : b \in Batch}, quantity : 1..MaxQuantity]

Allocation == [Batch -> 0..MaxQuantity]

\* The units of one allocation, so that their number is its total.
UnitsOf(a) == {x \in Batch \X (1..MaxQuantity) : x[2] <= a[x[1]]}

Older(b, c) == InventoryOf[b] = InventoryOf[c] /\ CreatedAt[b] < CreatedAt[c]

\* The oldest batches that have stock, each used up before the next one is
\* touched.  No allocation when the stock is short.
FifoAllocations(item, available) ==
  {a \in Allocation :
     /\ \A b \in Batch : a[b] > 0 =>
          InventoryOf[b] = item.inventory /\ a[b] <= available[b]
     /\ \A b, c \in Batch : Older(b, c) /\ a[c] > 0 => a[b] >= available[b]
     /\ Cardinality(UnitsOf(a)) = item.quantity}

Nothing == [b \in Batch |-> 0]

Minus(f, g) == [b \in Batch |-> f[b] - g[b]]
Plus(f, g) == [b \in Batch |-> f[b] + g[b]]
=============================================================================
