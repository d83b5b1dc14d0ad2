------------------------------- MODULE Catalogue -------------------------------
(***************************************************************************)
(* What a tenant sells: the categories, inventories and batches of         *)
(* inventory.service.ts and the products of products.service.ts, with the  *)
(* prices their answers show.  Requests run at the same time;              *)
(* each database call is a step, and units are sold between any two.       *)
(***************************************************************************)
EXTENDS Requests, Sequences, Integers, FiniteSetsExt

CONSTANTS
  CategoryName,   \* names of categories
  Finest,         \* prices are counted in this many parts of the currency
  Price,          \* prices of a unit, in such parts
  Stock,          \* sizes of a batch
  Parts,          \* how many units of an inventory a product takes
  MaxOversold     \* bound: units a batch is sold beyond its stock

VARIABLES
  categories,   \* the category rows, in the order they were created
  inventories,  \* the inventory rows
  batches,      \* the inventoryBatch rows
  products,     \* the product rows
  parts,        \* the productInventory rows
  half          \* rows left incomplete by a request that did not end well

catalogue == <<categories, inventories, batches, products, parts, half>>
vars == <<catalogue, req, started, overlap>>

CategoryTypes == {"INVENTORY", "PRODUCT"}
CategoryRow == [name : CategoryName, type : CategoryTypes, parent : Nat, live : BOOLEAN]
InventoryRow == [category : Nat, sub : Nat, live : BOOLEAN]
BatchRow == [inventory : Nat, price : Price, stock : Stock, left : Int]
ProductRow == [category : Nat, live : BOOLEAN]
PartRow == [product : Nat, inventory : Nat, quantity : Parts]

\* A category in a request, with the names of its subcategories.
Entry == [name : CategoryName, subs : Seq(CategoryName)]
Bare(n) == [name |-> n, subs |-> <<>>]

Op == {"idle", "addCategories", "addProductCategory", "renameCategory", "removeCategory",
       "addInventory", "addBatch", "updateInventory", "removeInventory",
       "addProduct", "updateProduct", "removeProduct"}
At == {"idle", "find", "parent", "write", "inventories", "parts", "batch"}
Idle == [op |-> "idle", at |-> "idle", names |-> <<>>, row |-> 0, sub |-> 0,
         list |-> <<>>, price |-> 0, stock |-> 0]

\* A tenant that has a category with a subcategory, a product category and an
\* inventory with two batches of different prices.
FirstCategories(n, sub) ==
  << [name |-> n, type |-> "INVENTORY", parent |-> 0, live |-> TRUE],
     [name |-> sub, type |-> "INVENTORY", parent |-> 1, live |-> TRUE],
     [name |-> n, type |-> "PRODUCT", parent |-> 0, live |-> TRUE] >>

Init ==
  /\ LET n == CHOOSE n \in CategoryName : TRUE
         sub == CHOOSE m \in CategoryName : m # n
     IN categories = FirstCategories(n, sub)
  /\ inventories = << [category |-> 1, sub |-> 2, live |-> TRUE] >>
  /\ \E p, q \in Price, n \in Stock :
       /\ p < q
       /\ batches = << [inventory |-> 1, price |-> p, stock |-> n, left |-> n],
                       [inventory |-> 1, price |-> q, stock |-> n, left |-> n] >>
  /\ products = <<>>
  /\ parts = {}
  /\ half = {}
  /\ InitRequests(Idle)

-----------------------------------------------------------------------------
(* Requests *)

Begin(s, request) == Accept(s, request) /\ UNCHANGED catalogue
Finish(s) == Set(s, Idle)
Refuse(s) == Finish(s) /\ UNCHANGED catalogue

\* An id nobody has.
Unknown == 99

Ask(op, i) == [Idle EXCEPT !.op = op, !.at = "find", !.row = i]

\* inventory.controller.ts
AskCreateCategories(s) ==
  \E n, m \in CategoryName :
    \/ \E p \in {0, 1, Unknown} :
         Begin(s, [Ask("addCategories", p) EXCEPT !.names = <<Bare(n)>>])
    \/ \E list \in {<<[name |-> n, subs |-> <<m>>]>>, <<Bare(n), Bare(m)>>} :
         Begin(s, [Ask("addCategories", 0) EXCEPT !.names = list])
AskUpdateCategory(s) ==
  \E c \in DOMAIN categories, n \in CategoryName :
    Begin(s, [Ask("renameCategory", c) EXCEPT !.names = <<Bare(n)>>])
AskDeleteCategory(s) == \E c \in DOMAIN categories : Begin(s, Ask("removeCategory", c))
AskCreateInventory(s) ==
  \E c, d \in DOMAIN categories, p \in Price, n \in Stock :
    Begin(s, [Ask("addInventory", c) EXCEPT !.sub = d, !.price = p, !.stock = n])
AskCreateBatch(s) ==
  \E i \in DOMAIN inventories, p \in Price, n \in Stock :
    Begin(s, [Ask("addBatch", i) EXCEPT !.price = p, !.stock = n])
AskUpdateInventory(s) ==
  \E i \in DOMAIN inventories, c \in DOMAIN categories :
    Begin(s, [Ask("updateInventory", i) EXCEPT !.sub = c])
AskDeleteInventory(s) == \E i \in DOMAIN inventories : Begin(s, Ask("removeInventory", i))

\* products.controller.ts
AskCreateProductCategory(s) ==
  \E n \in CategoryName : Begin(s, [Ask("addProductCategory", 0) EXCEPT !.names = <<Bare(n)>>])
AskCreateProduct(s) ==
  \E c \in DOMAIN categories, n \in 0..2 : \E ask \in [1..n -> (DOMAIN inventories) \X Parts] :
    Begin(s, [Ask("addProduct", c) EXCEPT !.list = ask])
AskUpdateProduct(s) ==
  \E i \in DOMAIN products, c \in DOMAIN categories :
    Begin(s, [Ask("updateProduct", i) EXCEPT !.sub = c])
AskDeleteProduct(s) == \E i \in DOMAIN products : Begin(s, Ask("removeProduct", i))

Start(s) ==
  AskCreateCategories(s) \/ AskUpdateCategory(s) \/ AskDeleteCategory(s)
  \/ AskCreateInventory(s) \/ AskCreateBatch(s) \/ AskUpdateInventory(s)
  \/ AskDeleteInventory(s) \/ AskCreateProductCategory(s) \/ AskCreateProduct(s)
  \/ AskUpdateProduct(s) \/ AskDeleteProduct(s)

Cut(s) == IF req[s].at \in {"batch", "parts"} THEN {<<req[s].op, req[s].row>>} ELSE {}

\* An error, an upload that does not work or a restart ends a request.
Fail(s) ==
  /\ Busy(s)
  /\ half' = half \cup Cut(s)
  /\ Finish(s)
  /\ UNCHANGED <<categories, inventories, batches, products, parts>>

\* A sale takes a unit, whatever is left (createSaleItemsAndUpdateBatches).
Sell ==
  /\ \E b \in DOMAIN batches :
       batches[b].left > -MaxOversold /\ batches' = [batches EXCEPT ![b].left = @ - 1]
  /\ UNCHANGED <<categories, inventories, products, parts, half, req, started, overlap>>

-----------------------------------------------------------------------------
(* Categories *)

Called(n, type) == {c \in DOMAIN categories : categories[c].name = n /\ categories[c].type = type}

\* createInventoryCategory takes the list one by one; removed rows count, too.
FindCategory(s) ==
  /\ Running(s, "addCategories", "find")
  /\ IF Called(Head(req[s].names).name, "INVENTORY") # {} THEN Refuse(s)
     ELSE Goto(s, IF req[s].row = 0 THEN "write" ELSE "parent") /\ UNCHANGED catalogue

FindParent(s) ==
  /\ Running(s, "addCategories", "parent")
  /\ IF req[s].row \notin DOMAIN categories THEN Refuse(s)
     ELSE Goto(s, "write") /\ UNCHANGED catalogue

\* @@unique([name, tenantId, type]).
Free(names, type) ==
  /\ \A i \in DOMAIN names : Called(names[i], type) = {}
  /\ \A i, j \in DOMAIN names : names[i] = names[j] => i = j

\* A category, and after it its subcategories: together, or not at all.
InsertCategory(names, type, parent) ==
  /\ Free(names, type)
  /\ categories' = categories \o [i \in DOMAIN names |->
       [name |-> names[i], type |-> type,
        parent |-> IF i = 1 THEN parent ELSE Len(categories) + 1, live |-> TRUE]]
  /\ UNCHANGED <<inventories, batches, products, parts, half>>

WriteCategory(s) ==
  LET c == Head(req[s].names)
      names == <<c.name>> \o c.subs
      rest == Tail(req[s].names)
  IN
  /\ Running(s, "addCategories", "write")
  /\ \/ /\ InsertCategory(names, "INVENTORY", req[s].row)
        /\ IF rest = <<>> THEN Finish(s)
           ELSE Set(s, [req[s] EXCEPT !.at = "find", !.names = rest])
     \/ ~Free(names, "INVENTORY") /\ Refuse(s)

FindProductCategory(s) ==
  /\ Running(s, "addProductCategory", "find")
  /\ IF Called(req[s].names[1].name, "PRODUCT") # {} THEN Refuse(s)
     ELSE Goto(s, "write") /\ UNCHANGED catalogue

WriteProductCategory(s) ==
  LET names == <<req[s].names[1].name>>
  IN
  /\ Running(s, "addProductCategory", "write")
  /\ \/ InsertCategory(names, "PRODUCT", 0) /\ Finish(s)
     \/ ~Free(names, "PRODUCT") /\ Refuse(s)

\* The row of an update or a removal; rows are never deleted for good.
FindRow(s) ==
  /\ req[s].op \in {"renameCategory", "removeCategory", "addBatch", "updateInventory",
                    "removeInventory", "updateProduct", "removeProduct"}
  /\ req[s].at = "find"
  /\ Goto(s, "write")
  /\ UNCHANGED catalogue

RenameCategory(s) ==
  LET c == req[s].row
      n == req[s].names[1].name
  IN
  /\ Running(s, "renameCategory", "write")
  /\ IF Called(n, categories[c].type) \ {c} # {} THEN Refuse(s)
     ELSE /\ categories' = [categories EXCEPT ![c].name = n]
          /\ Finish(s)
          /\ UNCHANGED <<inventories, batches, products, parts, half>>

\* Its subcategories stay.
RemoveCategory(s) ==
  /\ Running(s, "removeCategory", "write")
  /\ categories' = [categories EXCEPT ![req[s].row].live = FALSE]
  /\ Finish(s)
  /\ UNCHANGED <<inventories, batches, products, parts, half>>

-----------------------------------------------------------------------------
(* Inventories and batches *)

\* A category and a subcategory of it; a removed one will do.
FindCategoryOfInventory(s) ==
  LET c == req[s].row
      d == req[s].sub
  IN
  /\ Running(s, "addInventory", "find")
  /\ IF /\ categories[c].type = "INVENTORY"
        /\ categories[d].type = "INVENTORY"
        /\ categories[d].parent = c
     THEN Goto(s, "write") /\ UNCHANGED catalogue
     ELSE Refuse(s)

CreateInventory(s) ==
  /\ Running(s, "addInventory", "write")
  /\ inventories' = Append(inventories,
       [category |-> req[s].row, sub |-> req[s].sub, live |-> TRUE])
  /\ Set(s, [req[s] EXCEPT !.at = "batch", !.row = Len(inventories')])
  /\ UNCHANGED <<categories, batches, products, parts, half>>

InsertBatch(s) ==
  /\ batches' = Append(batches, [inventory |-> req[s].row, price |-> req[s].price,
                                 stock |-> req[s].stock, left |-> req[s].stock])
  /\ Finish(s)
  /\ UNCHANGED <<categories, inventories, products, parts, half>>

CreateFirstBatch(s) == Running(s, "addInventory", "batch") /\ InsertBatch(s)
CreateInventoryBatch(s) == Running(s, "addBatch", "write") /\ InsertBatch(s)

\* An update may name any category.
UpdateInventory(s) ==
  /\ Running(s, "updateInventory", "write")
  /\ inventories' = [inventories EXCEPT ![req[s].row].category = req[s].sub]
  /\ Finish(s)
  /\ UNCHANGED <<categories, batches, products, parts, half>>

DeleteInventory(s) ==
  /\ Running(s, "removeInventory", "write")
  /\ inventories' = [inventories EXCEPT ![req[s].row].live = FALSE]
  /\ Finish(s)
  /\ UNCHANGED <<categories, batches, products, parts, half>>

-----------------------------------------------------------------------------
(* Products *)

\* Mutant: an empty list is not refused.
FindCategoryAlone(s) ==
  /\ Running(s, "addProduct", "find")
  /\ IF categories[req[s].row].type # "PRODUCT" THEN Refuse(s)
     ELSE Goto(s, "inventories") /\ UNCHANGED catalogue

FindCategoryOfProduct(s) ==
  /\ Running(s, "addProduct", "find")
  /\ IF categories[req[s].row].type # "PRODUCT" \/ req[s].list = <<>> THEN Refuse(s)
     ELSE Goto(s, "inventories") /\ UNCHANGED catalogue

\* Every inventory of the list is there; a removed one will do.
FindInventories(s) ==
  /\ Running(s, "addProduct", "inventories")
  /\ Goto(s, "write")
  /\ UNCHANGED catalogue

CreateProduct(s) ==
  /\ Running(s, "addProduct", "write")
  /\ products' = Append(products, [category |-> req[s].row, live |-> TRUE])
  /\ Set(s, [req[s] EXCEPT !.at = "parts", !.row = Len(products')])
  /\ UNCHANGED <<categories, inventories, batches, parts, half>>

\* @@unique([productId, inventoryId, tenantId]): a list that names an inventory
\* twice fails in createMany, with or without what comes before.
CreateParts(s) ==
  LET p == req[s].row
      list == req[s].list
      Rows(n) == {[product |-> p, inventory |-> list[k][1], quantity |-> list[k][2]] : k \in 1..n}
      twice == {k \in DOMAIN list : \E j \in 1..(k - 1) : list[j][1] = list[k][1]}
  IN
  /\ Running(s, "addProduct", "parts")
  /\ \/ /\ twice = {}
        /\ parts' = parts \cup Rows(Len(list))
        /\ UNCHANGED half
     \/ /\ twice # {}
        /\ \E n \in {0, Min(twice) - 1} : parts' = parts \cup Rows(n)
        /\ half' = half \cup Cut(s)
  /\ Finish(s)
  /\ UNCHANGED <<categories, inventories, batches, products>>

UpdateProduct(s) ==
  /\ Running(s, "updateProduct", "write")
  /\ products' = [products EXCEPT ![req[s].row].category = req[s].sub]
  /\ Finish(s)
  /\ UNCHANGED <<categories, inventories, batches, parts, half>>

DeleteProduct(s) ==
  /\ Running(s, "removeProduct", "write")
  /\ products' = [products EXCEPT ![req[s].row].live = FALSE]
  /\ Finish(s)
  /\ UNCHANGED <<categories, inventories, batches, parts, half>>

-----------------------------------------------------------------------------
(* Answers *)

BatchesOf(i) == {b \in DOMAIN batches : batches[b].inventory = i}
InStock(i) == {b \in BatchesOf(i) : batches[b].left > 0}
Left(i) == SumFunction([b \in BatchesOf(i) |-> batches[b].left])

\* Math.min() and Math.max() of nothing.
Infinity == "Infinity"

\* Math.floor, Math.ceil and toFixed(2) of a price.
Floor(x) == x \div Finest
Ceil(x) == -((-x) \div Finest)
ToFixed(x) ==
  LET Nearest(y) == (200 * y + Finest) \div (2 * Finest)
  IN IF x < 0 THEN -Nearest(-x) ELSE Nearest(x)

\* mapInventoryToResponseDto: the lowest and the highest price in whole units
\* of the currency, the value as exact as the prices.
InventoryAnswer(i) ==
  LET prices == {batches[b].price : b \in InStock(i)}
      none == BatchesOf(i) = {}
  IN [min |-> IF none THEN 0 ELSE IF prices = {} THEN Infinity ELSE Floor(Min(prices)),
      max |-> IF none THEN 0 ELSE IF prices = {} THEN Infinity ELSE Ceil(Max(prices)),
      value |-> SumFunction([b \in BatchesOf(i) |-> batches[b].left * batches[b].price]),
      remaining |-> Left(i),
      initial |-> SumFunction([b \in BatchesOf(i) |-> batches[b].stock])]

\* Mutant: batches that are sold out count.
PricesOfAll(i, quantity) == {batches[b].price * quantity : b \in BatchesOf(i)}

PricesOf(i, quantity) == {batches[b].price * quantity : b \in InStock(i)}

\* The price range in mapProductToResponseDto, with two decimals: nothing is
\* added for what is sold out.
PriceRange(p) ==
  LET rows == {r \in parts : r.product = p}
      Some(r) == PricesOf(r.inventory, r.quantity)
  IN [min |-> ToFixed(SumFunction([r \in rows |-> IF Some(r) = {} THEN 0 ELSE Min(Some(r))])),
      max |-> ToFixed(SumFunction([r \in rows |-> IF Some(r) = {} THEN 0 ELSE Max(Some(r))]))]

-----------------------------------------------------------------------------
Step(s) ==
  FindCategory(s) \/ FindParent(s) \/ WriteCategory(s) \/ FindProductCategory(s)
  \/ WriteProductCategory(s) \/ FindRow(s) \/ RenameCategory(s) \/ RemoveCategory(s)
  \/ FindCategoryOfInventory(s) \/ CreateInventory(s) \/ CreateFirstBatch(s)
  \/ CreateInventoryBatch(s) \/ UpdateInventory(s) \/ DeleteInventory(s)
  \/ FindCategoryOfProduct(s) \/ FindInventories(s) \/ CreateProduct(s) \/ CreateParts(s)
  \/ UpdateProduct(s) \/ DeleteProduct(s)

Next == Sell \/ \E s \in Slot : Start(s) \/ Fail(s) \/ Step(s)

Spec == Init /\ [][Next]_vars

-----------------------------------------------------------------------------
(* Correctness *)

\* Every table and every request keeps its shape.
TypeOK ==
  /\ categories \in Seq(CategoryRow)
  /\ inventories \in Seq(InventoryRow)
  /\ batches \in Seq(BatchRow)
  /\ products \in Seq(ProductRow)
  /\ parts \subseteq PartRow /\ IsFiniteSet(parts)
  /\ half \subseteq {"addInventory", "addProduct"} \X Nat
  /\ RequestsOK([op : Op, at : At, names : Seq(Entry), row : Nat, sub : Nat,
                 list : Seq(Nat \X Parts), price : Price \cup {0}, stock : Stock \cup {0}])

\* An inventory has a batch and a product has parts: one that has none is
\* what a failure between the two writes left, or a list that names an
\* inventory twice, or its request still runs.
NothingEmpty ==
  LET making == UNION {Cut(s) : s \in Slot}
  IN
  /\ \A i \in DOMAIN inventories :
       BatchesOf(i) # {} \/ <<"addInventory", i>> \in half \cup making
  /\ \A p \in DOMAIN products :
       (\E r \in parts : r.product = p) \/ <<"addProduct", p>> \in half \cup making

\* The prices an answer shows are of what can be bought, while there is any:
\* every batch with units left is between the lowest and the highest price of
\* its inventory, some batch less than one unit of the currency from each, and
\* so is the value, unless a batch was sold beyond its stock; what a product
\* costs, taking each part from any batch with units left, is in its price
\* range, whose ends are the least and the most of such sums to two decimals.
PricesAreOfStock ==
  /\ \A i \in DOMAIN inventories : InStock(i) # {} =>
       LET a == InventoryAnswer(i)
           lowest == a.min * Finest
           highest == a.max * Finest
       IN /\ \A b \in InStock(i) : lowest <= batches[b].price /\ batches[b].price <= highest
          /\ \E b \in InStock(i) : batches[b].price < lowest + Finest
          /\ \E b \in InStock(i) : highest - Finest < batches[b].price
          /\ (\A b \in BatchesOf(i) : batches[b].left >= 0) =>
               lowest * a.remaining <= a.value /\ a.value <= highest * a.remaining
  /\ \A p \in DOMAIN products :
       LET rows == {r \in parts : r.product = p /\ InStock(r.inventory) # {}}
           ways == {w \in [rows -> DOMAIN batches] : \A r \in rows : w[r] \in InStock(r.inventory)}
           costs == {SumFunction([r \in rows |-> batches[w[r]].price * r.quantity]) : w \in ways}
       IN PriceRange(p) = [min |-> ToFixed(Min(costs)), max |-> ToFixed(Max(costs))]

-----------------------------------------------------------------------------
(* Why: what a request knows of itself, and who is still filling a row *)

Knows(r) ==
  /\ r.at = "batch" => r.op = "addInventory"
  /\ r.at = "parts" => r.op = "addProduct"
  /\ r.op = "addProduct" /\ r.at # "find" => r.list # <<>>
  /\ Len(r.list) <= 2
  /\ r.op \in {"addCategories", "addProductCategory", "renameCategory"} => r.names # <<>>
  /\ r.op \in {"addInventory", "addBatch"} => r.price \in Price /\ r.stock \in Stock

InventoriesFull ==
  \A i \in DOMAIN inventories :
    \/ \E b \in DOMAIN batches : batches[b].inventory = i
    \/ <<"addInventory", i>> \in half
    \/ \E s \in Slot : req[s].at = "batch" /\ req[s].row = i
ProductsFull ==
  \A p \in DOMAIN products :
    \/ \E r \in parts : r.product = p
    \/ <<"addProduct", p>> \in half
    \/ \E s \in Slot : req[s].at = "parts" /\ req[s].row = p

CatalogueInv == TypeOK /\ (\A s \in Slot : Knows(req[s])) /\ InventoriesFull /\ ProductsFull
=============================================================================
