------------------------------ MODULE StockCheck ------------------------------
(***************************************************************************)
(* How createSale decides that an order of several products is in stock,   *)
(* and from which batches it is taken: validateSaleProductQuantity and     *)
(* processBatches of sales.service.ts.  A step is one round of a loop.  A  *)
(* product is made of inventory items, and products may share them.  Only  *)
(* this order is at work; ProductSale has the races.                       *)
(*                                                                         *)
(* The rows of a product or an inventory come in any order the queries     *)
(* leave open.  ProductSaleProofs extends this module and ProductSale, so  *)
(* the two have no name in common.                                         *)
(***************************************************************************)
EXTENDS BatchAllocation, Sequences

CONSTANTS
  Product,  \* the products
  Recipe,   \* Recipe[p][i]: how many units of inventory i a product p has
  Carts,    \* orders: sequences of products, all different, with quantities
  Shelves,  \* remaining quantities of the batches to start from
  NoPart    \* no inventory

Inventory == {InventoryOf[b] : b \in Batch}

ASSUME RecipeAssumption ==
  \A p \in Product : \A i \in DOMAIN Recipe[p] : i \in Inventory /\ Recipe[p][i] \in Nat \ {0}
ASSUME CartAssumption == Carts \subseteq Seq([product : Product, quantity : Nat \ {0}])
ASSUME ShelfAssumption ==
  IsFiniteSet(Batch) /\ MaxQuantity \in Nat /\ Shelves \subseteq Allocation

VARIABLES
  stock,   \* stock[b]: remainingQuantity
  cart,    \* the order
  at,      \* where createSale is
  line,    \* the line of the order it looks at
  aside,   \* inventoryAllocationMap
  short,   \* insufficientProducts
  taken,   \* taken[k]: the batch allocation of line k
  todo,    \* the inventories of the line's product that a loop has to do
  want,    \* remainingToAllocate, or the remainingQuantity still to be taken
  part,    \* the inventory whose batches are gone through
  unread   \* its batches that have stock and are still to be gone through

looping == <<todo, want, part, unread>>
checkVars == <<stock, cart, at, line, aside, short, taken, looping>>

CheckInit ==
  /\ stock \in Shelves
  /\ cart \in Carts
  /\ at = "check"
  /\ line = 1
  /\ aside = [i \in Inventory |-> 0]
  /\ short = {}
  /\ taken = <<>>
  /\ todo = {}
  /\ want = 0
  /\ part = NoPart
  /\ unread = {}

Lesser(m, n) == IF m < n THEN m ELSE n

\* What line l of the order is made of, and how much of it.
Parts(l) == DOMAIN Recipe[l.product]
Required(l, i) == Recipe[l.product][i] * l.quantity

-----------------------------------------------------------------------------
(* validateSaleProductQuantity *)

\* The units of inventory i in a: the sum over its batches.
Only(a, i) == [b \in Batch |-> IF InventoryOf[b] = i THEN a[b] ELSE 0]
InStock(i) == Cardinality(UnitsOf(Only(stock, i)))

Available(i) == InStock(i) - aside[i]

\* Mutants: one inventory of the product is enough; an exact match is not.
EnoughOfOne(l) ==
  \E i \in Parts(l) : Available(i) \div Recipe[l.product][i] >= l.quantity

EnoughAndMore(l) ==
  \A i \in Parts(l) : Available(i) \div Recipe[l.product][i] > l.quantity

\* maxPossibleUnits reaches the quantity of the line.
Enough(l) ==
  \A i \in Parts(l) : Available(i) \div Recipe[l.product][i] >= l.quantity

CheckLine ==
  /\ at = "check"
  /\ line <= Len(cart)
  /\ IF Enough(cart[line])
     THEN /\ at' = "aside"
          /\ todo' = Parts(cart[line])
          /\ want' = cart[line].quantity
          /\ UNCHANGED <<line, short>>
     ELSE /\ short' = short \cup {cart[line].product}
          /\ line' = line + 1
          /\ UNCHANGED <<at, todo, want>>
  /\ UNCHANGED <<stock, cart, aside, taken, part, unread>>

\* Mutant: the units put aside are subtracted from the map.
Unreserve(i) ==
  LET required == Required(cart[line], i)
      n == Lesser(want, Available(i) \div required)
  IN
  /\ at = "aside"
  /\ want > 0
  /\ i \in todo
  /\ aside' = [aside EXCEPT ![i] = @ - n * required]
  /\ want' = want - n
  /\ todo' = todo \ {i}
  /\ UNCHANGED <<stock, cart, at, line, short, taken, part, unread>>

\* allocateInventory: one countdown runs through all inventories of the
\* product, in multiples of what the whole line requires.
SetAside(i) ==
  LET required == Required(cart[line], i)
      n == Lesser(want, Available(i) \div required)
  IN
  /\ at = "aside"
  /\ want > 0
  /\ i \in todo
  /\ aside' = [aside EXCEPT ![i] = @ + n * required]
  /\ want' = want - n
  /\ todo' = todo \ {i}
  /\ UNCHANGED <<stock, cart, at, line, short, taken, part, unread>>

EndAside ==
  /\ at = "aside"
  /\ want <= 0 \/ todo = {}
  /\ at' = "check"
  /\ line' = line + 1
  /\ UNCHANGED <<stock, cart, aside, short, taken, looping>>

EndCheck ==
  /\ at = "check"
  /\ line > Len(cart)
  /\ at' = IF short = {} THEN "price" ELSE "refused"
  /\ line' = 1
  /\ UNCHANGED <<stock, cart, aside, short, taken, looping>>

-----------------------------------------------------------------------------
(* processBatches, for one line after the other *)

PriceLine ==
  /\ at = "price"
  /\ line <= Len(cart)
  /\ at' = "parts"
  /\ taken' = Append(taken, Nothing)
  /\ todo' = Parts(cart[line])
  /\ UNCHANGED <<stock, cart, line, aside, short, want, part, unread>>

\* The batches of an inventory are read as they are in the database: what the
\* lines before this one took is not subtracted.
StartPart(i) ==
  /\ at = "parts"
  /\ i \in todo
  /\ at' = "batches"
  /\ todo' = todo \ {i}
  /\ want' = Required(cart[line], i)
  /\ part' = i
  /\ unread' = {b \in Batch : InventoryOf[b] = i /\ stock[b] > 0}
  /\ UNCHANGED <<stock, cart, line, aside, short, taken>>

\* Mutant: the batches come in any order.
TakeAnyBatch(b) ==
  LET n == Lesser(stock[b], want)
  IN
  /\ at = "batches"
  /\ want > 0
  /\ b \in unread
  /\ taken' = [taken EXCEPT ![line][b] = @ + n]
  /\ want' = want - n
  /\ unread' = unread \ {b}
  /\ UNCHANGED <<stock, cart, at, line, aside, short, todo, part>>

\* The oldest batch not yet read gives what it can.
TakeBatch(b) ==
  LET n == Lesser(stock[b], want)
  IN
  /\ at = "batches"
  /\ want > 0
  /\ b \in unread
  /\ \A c \in unread : ~ Older(c, b)
  /\ taken' = [taken EXCEPT ![line][b] = @ + n]
  /\ want' = want - n
  /\ unread' = unread \ {b}
  /\ UNCHANGED <<stock, cart, at, line, aside, short, todo, part>>

\* A part that is still short after its last batch throws.
EndPart ==
  /\ at = "batches"
  /\ want <= 0 \/ unread = {}
  /\ at' = IF want > 0 THEN "refused" ELSE "parts"
  /\ UNCHANGED <<stock, cart, line, aside, short, taken, looping>>

EndLine ==
  /\ at = "parts"
  /\ todo = {}
  /\ at' = "price"
  /\ line' = line + 1
  /\ UNCHANGED <<stock, cart, aside, short, taken, looping>>

\* The transaction of createSale takes what every line allocated of a batch.
TakenOf(b) ==
  Cardinality({u \in (DOMAIN taken) \X (1..MaxQuantity) : u[2] <= taken[u[1]][b]})

CommitCart ==
  /\ at = "price"
  /\ line > Len(cart)
  /\ stock' = [b \in Batch |-> stock[b] - TakenOf(b)]
  /\ at' = "sold"
  /\ UNCHANGED <<cart, line, aside, short, taken, looping>>

CheckStep == CheckLine \/ (\E i \in Inventory : SetAside(i)) \/ EndAside \/ EndCheck

PriceStep ==
  \/ PriceLine
  \/ \E i \in Inventory : StartPart(i)
  \/ \E b \in Batch : TakeBatch(b)
  \/ EndPart
  \/ EndLine
  \/ CommitCart

CheckNext == CheckStep \/ PriceStep

CheckSpec == CheckInit /\ [][CheckNext]_checkVars

-----------------------------------------------------------------------------
(* Correctness *)

\* What line l needs of inventory i.
Needs(l, i) == IF i \in Parts(l) THEN Required(l, i) ELSE 0

\* Every variable stays in its domain; what is put aside is not negative.
CheckTypeOK ==
  /\ stock \in [Batch -> Int]
  /\ at # "sold" => stock \in Allocation
  /\ cart \in Carts
  /\ at \in {"check", "aside", "price", "parts", "batches", "sold", "refused"}
  /\ line \in 1..(Len(cart) + 1)
  /\ at \in {"aside", "parts", "batches"} => line <= Len(cart)
  /\ aside \in [Inventory -> Nat]
  /\ short \subseteq {cart[k].product : k \in DOMAIN cart}
  /\ taken \in Seq(Allocation)
  /\ todo \subseteq Inventory
  /\ want \in Nat
  /\ part \in Inventory \cup {NoPart}
  /\ unread \subseteq Batch

\* An order that passes the check is not refused by the allocation that
\* follows it: the check never lets a line through that is short by itself.
CheckedIsTakeable ==
  at = "refused" => short # {}

\* What allocation a takes of inventory i is a FIFO allocation of what line l
\* needs of it.
FifoFor(a, l, i) ==
  IF Needs(l, i) = 0
  THEN Only(a, i) = Nothing
  ELSE Only(a, i) \in FifoAllocations([inventory |-> i, quantity |-> Needs(l, i)], stock)

\* The loop that takes stock computes a FIFO allocation of what each line
\* needs of each inventory: oldest batches first, each used up before the next.
TakenIsFifo ==
  at = "price" => \A k \in DOMAIN taken : \A i \in Inventory : FifoFor(taken[k], cart[k], i)

\* An order of one product is refused only when some part of it is short, and
\* when it is sold no batch goes below zero.
SingleOrderExact ==
  Len(cart) = 1 =>
    /\ at = "refused" => \E i \in Inventory : Needs(cart[1], i) > InStock(i)
    /\ at = "sold" => \A b \in Batch : stock[b] >= 0

-----------------------------------------------------------------------------
(* Why: what holds between two rounds of a loop *)

\* The stock is enough for line l by itself.
Fits(l) == \A i \in Parts(l) : Required(l, i) <= InStock(i)

\* While a line is put aside, the stock that is left covers what the loop has
\* to do; a line that passed fits by itself, and a single one that did not
\* does not, nor does it overdraw a batch.
PassedFits ==
  /\ at = "aside" =>
       /\ todo \subseteq Parts(cart[line])
       /\ \A i \in todo : Required(cart[line], i) <= Available(i)
  /\ \A k \in DOMAIN cart :
       at # "sold" /\ (k < line \/ at \notin {"check", "aside"}) => short # {} \/ Fits(cart[k])
  /\ at = "aside" => Fits(cart[line])
  /\ at \in {"price", "parts", "batches", "sold"} => short = {}
  /\ at = "refused" => short # {}
  /\ at = "check" /\ line = 1 => aside = [i \in Inventory |-> 0]
  /\ at # "sold" /\ Len(cart) = 1 /\ short # {} => ~ Fits(cart[1])
  /\ at = "sold" /\ Len(cart) = 1 => \A b \in Batch : stock[b] >= 0

\* The lines before this one, and of this one the parts that are done, are
\* taken as TakenIsFifo says; nothing is taken of a part to be done.
PartsTaken ==
  /\ at \in {"check", "aside"} => taken = <<>>
  /\ at = "price" => Len(taken) = line - 1
  /\ at \in {"parts", "batches"} => Len(taken) = line /\ todo \subseteq Parts(cart[line])
  /\ at \in {"price", "parts", "batches"} =>
       \A k \in 1..(line - 1) : \A i \in Inventory : FifoFor(taken[k], cart[k], i)
  /\ at \in {"parts", "batches"} =>
       \A i \in Inventory :
         IF i \in todo THEN Only(taken[line], i) = Nothing
         ELSE (at = "batches" /\ i = part) \/ FifoFor(taken[line], cart[line], i)

\* Between two batches of a part: what is taken and what is wanted are what is
\* required, batches that were read are used up if more is wanted, and older
\* ones are used up anyway.
BatchesTaken ==
  at = "batches" =>
    LET a == Only(taken[line], part)
    IN /\ part \in Parts(cart[line]) \ todo
       /\ want + Cardinality(UnitsOf(a)) = Required(cart[line], part)
       /\ unread \subseteq {b \in Batch : InventoryOf[b] = part /\ stock[b] > 0}
       /\ \A b \in Batch : a[b] <= stock[b]
       /\ \A b \in unread : a[b] = 0
       /\ want > 0 => \A b \in Batch \ unread : a[b] = Only(stock, part)[b]
       /\ \A b, c \in Batch : Older(b, c) /\ a[c] > 0 => a[b] >= stock[b]

CheckInv ==
  /\ CheckTypeOK
  /\ PassedFits
  /\ PartsTaken
  /\ BatchesTaken
=============================================================================
