----------------------------- MODULE MCStockCheck -----------------------------
(***************************************************************************)
(* Instances of StockCheck: panels in two batches, batteries in one; a kit *)
(* of a panel and a battery, a lamp of two batteries, a fan of one panel.  *)
(***************************************************************************)
EXTENDS StockCheck, FiniteSetsExt

CONSTANTS older, newer, cells

ItemOf == [b \in Batch |-> IF b = cells THEN "battery" ELSE "panel"]
AgeOf == [b \in Batch |-> IF b = newer THEN 2 ELSE 1]

Recipes == [kit |-> [panel |-> 1, battery |-> 1],
            lamp |-> [battery |-> 2],
            fan |-> [panel |-> 1]]

Line == [product : Product, quantity : 1..2]
UpToTwoLines ==
  {<<l>> : l \in Line} \cup
  {<<l[1], l[2]>> : l \in {m \in Line \X Line : m[1].product # m[2].product}}
UpToThreeUnits == [Batch -> 0..3]
UpToTwoUnits == [Batch -> 0..2]

\* "All products have sufficient inventory": the lines of an order that passes
\* the check fit in the stock together.
CheckedFitsTogether ==
  at = "price" =>
    \A i \in Inventory :
      MapThenSumSet(LAMBDA k : Needs(cart[k], i), DOMAIN cart) <= InStock(i)
=============================================================================
