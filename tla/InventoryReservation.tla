------------------------- MODULE InventoryReservation -------------------------
(***************************************************************************)
(* Selling inventory from stock: inventory-sale.service.ts over the        *)
(* collections inventory_batches, inventory_reservations, sales, payments  *)
(* and pending_payments of one tenant.                                     *)
(*                                                                         *)
(* Every HTTP request is a process.  What it reads outside a transaction   *)
(* stays in its local record while other requests run; a $transaction is   *)
(* one step, because MongoDB commits it atomically from a snapshot and     *)
(* aborts it when another transaction wrote one of its documents first     *)
(* (FailRequest).  The rows a request creates carry its identity: the      *)
(* reservation and the sale made by request q are rsv[q] and sale[q].      *)
(*                                                                         *)
(* Sums of quantities are counted as sets of units: <<row, number>> pairs. *)
(***************************************************************************)
EXTENDS BatchAllocation, Sequences

CONSTANTS
  Stock,          \* Stock[b]: numberOfStock
  Request,        \* HTTP requests
  ReserveOrders,  \* the item lists a reservation may ask for
  DirectOrders,   \* the item lists a direct sale may ask for
  PaymentTypes,   \* the payment types in use, among CASH, POS and SYSTEM
  Receipts,       \* receipt numbers a sale may carry
  NoReceipt,      \* the absent receipt number
  NoRequest,      \* the absent reservation id
  Cleaner,        \* cleanup runs that may overlap
  MaxItems,       \* bound on the items of an order
  MaxCrashes      \* bound on server restarts

Immediate == {"CASH", "POS"}

ASSUME BatchAssumption ==
  /\ IsFiniteSet(Batch)
  /\ Stock \in [Batch -> Nat]
  /\ CreatedAt \in [Batch -> Nat]
ASSUME OrderAssumption ==
  /\ MaxQuantity \in Nat
  /\ MaxItems \in Nat
  /\ \A o \in ReserveOrders \cup DirectOrders :
       o \in Seq(Item) /\ Len(o) \in 1..MaxItems
ASSUME RequestAssumption ==
  /\ IsFiniteSet(Request)
  /\ NoRequest \notin Request
  /\ NoReceipt \notin Receipts
  /\ PaymentTypes \subseteq Immediate \cup {"SYSTEM"}
  /\ MaxCrashes \in Nat

VARIABLES
  remaining,  \* remaining[b]: remainingQuantity
  reserved,   \* reserved[b]: reservedQuantity
  rsv,        \* rsv[r]: the inventory_reservations rows of reservation r
  sale,       \* sale[q]: the sale made by request q, with its items
  payment,    \* the sales that have a payments row
  pending,    \* the sales that have a pending_payments row
  claim,      \* history: what the stock taken by request q has become
  req,        \* req[q]: progress and local variables of request q
  live,       \* a cleanup timer is running in the server process
  todo,       \* todo[c]: reservation rows cleanup run c has still to cancel
  crashes     \* server restarts so far

stock == <<remaining, reserved, claim>>
records == <<sale, payment, pending>>
server == <<req, live, todo, crashes>>
vars == <<remaining, reserved, rsv, sale, payment, pending, claim,
          req, live, todo, crashes>>

NoRsv == [status |-> "NONE", expired |-> FALSE, rows |-> <<>>]
NoSale == [status |-> "NONE", from |-> NoRequest, rows |-> <<>>,
           receipt |-> NoReceipt, type |-> "NONE"]
Idle == [pc |-> "idle", order |-> <<>>, from |-> NoRequest, rows |-> <<>>,
         receipt |-> NoReceipt, type |-> "NONE"]
NoTodo == [r \in Request |-> 0]

Init ==
  /\ remaining = Stock
  /\ reserved = [b \in Batch |-> 0]
  /\ rsv = [q \in Request |-> NoRsv]
  /\ sale = [q \in Request |-> NoSale]
  /\ payment = {}
  /\ pending = {}
  /\ claim = [q \in Request |-> "open"]
  /\ req = [q \in Request |-> Idle]
  /\ live = FALSE
  /\ todo = [c \in Cleaner |-> NoTodo]
  /\ crashes = 0

-----------------------------------------------------------------------------
(* The rows of an order *)

\* A place for one unit: the row it is allocated by, and its number there.
Slot == (1..MaxItems) \X (1..MaxQuantity)

\* The units the given rows of allocations take from batch b.
RowUnits(rows, b) ==
  {x \in Slot : x[1] \in DOMAIN rows /\ x[2] <= rows[x[1]][b]}

Demand(rows) == [b \in Batch |-> Cardinality(RowUnits(rows, b))]

-----------------------------------------------------------------------------
(* createReservationWithPreview *)

StartReserve(q, order) ==
  /\ req[q].pc = "idle"
  /\ req' = [req EXCEPT ![q] = [Idle EXCEPT !.pc = "reserving", !.order = order]]
  /\ live' = TRUE
  /\ UNCHANGED <<stock, rsv, records, todo, crashes>>

\* fetchSingleInventoryWithBatches for the next item: it goes through
\* this.prisma, so it sees neither the snapshot nor the writes of the
\* transaction around it.  An item that cannot be allocated ends in FailRequest.
ReadItem(q) ==
  /\ req[q].pc = "reserving"
  /\ Len(req[q].rows) < Len(req[q].order)
  /\ \E a \in FifoAllocations(req[q].order[Len(req[q].rows) + 1], remaining) :
       req' = [req EXCEPT ![q].rows = Append(@, a)]
  /\ UNCHANGED <<stock, rsv, records, live, todo, crashes>>

\* Mutant: the decrement has lost its condition on remainingQuantity.
CommitReservationUnchecked(q) ==
  /\ req[q].pc = "reserving"
  /\ Len(req[q].rows) = Len(req[q].order)
  /\ remaining' = Minus(remaining, Demand(req[q].rows))
  /\ reserved' = Plus(reserved, Demand(req[q].rows))
  /\ claim' = [claim EXCEPT ![q] = "held"]
  /\ rsv' = [rsv EXCEPT ![q] =
               [status |-> "ACTIVE", expired |-> FALSE, rows |-> req[q].rows]]
  /\ req' = [req EXCEPT ![q].pc = "done"]
  /\ UNCHANGED <<records, live, todo, crashes>>

\* The conditional decrements all succeed and the transaction commits.
CommitReservation(q) ==
  LET demand == Demand(req[q].rows)
  IN
  /\ req[q].pc = "reserving"
  /\ Len(req[q].rows) = Len(req[q].order)
  /\ \A b \in Batch : demand[b] > 0 => demand[b] <= remaining[b]
  /\ remaining' = Minus(remaining, demand)
  /\ reserved' = Plus(reserved, demand)
  /\ claim' = [claim EXCEPT ![q] = "held"]
  /\ rsv' = [rsv EXCEPT ![q] =
               [status |-> "ACTIVE", expired |-> FALSE, rows |-> req[q].rows]]
  /\ req' = [req EXCEPT ![q].pc = "done"]
  /\ UNCHANGED <<records, live, todo, crashes>>

-----------------------------------------------------------------------------
(* completeSaleFromReservation *)

\* getActiveReservation and the receipt check, both before the transaction.
StartComplete(q, r, type, receipt) ==
  /\ req[q].pc = "idle"
  /\ rsv[r].status = "ACTIVE"
  /\ ~rsv[r].expired
  /\ receipt # NoReceipt => \A s \in Request : sale[s].receipt # receipt
  /\ req' = [req EXCEPT ![q] = [Idle EXCEPT
               !.pc = "completing", !.from = r, !.rows = rsv[r].rows,
               !.receipt = receipt, !.type = type]]
  /\ live' = TRUE
  /\ UNCHANGED <<stock, rsv, records, todo, crashes>>

\* payments.transactionRef is unique: an immediate payment carries the
\* receipt number, so a second one makes the transaction fail.
TransactionRefFree(q) ==
  req[q].type \in Immediate /\ req[q].receipt # NoReceipt =>
    \A s \in payment :
      sale[s].type \in Immediate => sale[s].receipt # req[q].receipt

\* Mutant: the sale is not linked to its reservation.
RecordSaleUnlinked(q) ==
  /\ sale' = [sale EXCEPT ![q] =
       [status |-> "COMPLETED", from |-> NoRequest, rows |-> req[q].rows,
        receipt |-> req[q].receipt, type |-> req[q].type]]
  /\ req' = [req EXCEPT ![q].pc = "done"]
  /\ UNCHANGED <<payment, pending, live, todo, crashes>>

\* The sale row, its items and the immediate payment of request q.  A sale
\* paid through the SYSTEM goes on to handleSystemPayment after the commit.
RecordSale(q) ==
  /\ TransactionRefFree(q)
  /\ sale' = [sale EXCEPT ![q] =
       [status |-> IF req[q].type = "SYSTEM" THEN "UNPAID" ELSE "COMPLETED",
        from |-> req[q].from, rows |-> req[q].rows,
        receipt |-> req[q].receipt, type |-> req[q].type]]
  /\ payment' = IF req[q].type \in Immediate THEN payment \cup {q} ELSE payment
  /\ req' = [req EXCEPT ![q].pc =
               IF req[q].type = "SYSTEM" THEN "paying" ELSE "done"]
  /\ UNCHANGED <<pending, live, todo, crashes>>

\* Mutants: rows of any status are confirmed; confirming takes the units out
\* of remainingQuantity a second time.
ConfirmAllocationsAnyStatus(r) ==
  /\ reserved' = Minus(reserved, Demand(rsv[r].rows))
  /\ claim' = [claim EXCEPT ![r] = "sold"]
  /\ UNCHANGED remaining

ConfirmAllocationsTwice(r) ==
  /\ reserved' = Minus(reserved, Demand(rsv[r].rows))
  /\ claim' = [claim EXCEPT ![r] = "sold"]
  /\ remaining' = Minus(remaining, Demand(rsv[r].rows))

\* confirmReservationAllocations: the rows of r that are still ACTIVE at the
\* commit leave the reserved quantity; otherwise no stock moves.
ConfirmAllocations(r) ==
  /\ UNCHANGED remaining
  /\ IF rsv[r].status = "ACTIVE"
     THEN /\ reserved' = Minus(reserved, Demand(rsv[r].rows))
          /\ claim' = [claim EXCEPT ![r] = "sold"]
     ELSE UNCHANGED <<reserved, claim>>

CommitComplete(q) ==
  /\ req[q].pc = "completing"
  /\ RecordSale(q)
  /\ ConfirmAllocations(req[q].from)
  /\ rsv' = [rsv EXCEPT ![req[q].from].status = "COMPLETED"]

\* handleSystemPayment: a payments row, then a pending_payments row, each
\* written on its own after the sale was committed.
CreatePayment(q) ==
  /\ req[q].pc = "paying"
  /\ payment' = payment \cup {q}
  /\ req' = [req EXCEPT ![q].pc = "pending"]
  /\ UNCHANGED <<stock, rsv, sale, pending, live, todo, crashes>>

CreatePendingPayment(q) ==
  /\ req[q].pc = "pending"
  /\ pending' = pending \cup {q}
  /\ req' = [req EXCEPT ![q].pc = "done"]
  /\ UNCHANGED <<stock, rsv, sale, payment, live, todo, crashes>>

-----------------------------------------------------------------------------
(* createInventorySale *)

\* validateAndFetchData and processInventoryItems: one read of all the
\* batches.  The same inventory twice is reported as not found.
StartDirect(q, order, type, receipt) ==
  /\ req[q].pc = "idle"
  /\ \A i, j \in DOMAIN order : i # j => order[i].inventory # order[j].inventory
  /\ type # "SYSTEM" /\ receipt # NoReceipt =>
       \A s \in Request : sale[s].receipt # receipt
  /\ \E rows \in [DOMAIN order -> UNION {FifoAllocations(order[i], remaining) :
                                           i \in DOMAIN order}] :
       /\ \A i \in DOMAIN order : rows[i] \in FifoAllocations(order[i], remaining)
       /\ req' = [req EXCEPT ![q] = [Idle EXCEPT
                    !.pc = "selling", !.order = order, !.rows = rows,
                    !.receipt = receipt, !.type = type]]
  /\ live' = TRUE
  /\ UNCHANGED <<stock, rsv, records, todo, crashes>>

\* createSaleItemsAndUpdateBatches: the decrement has no condition.
CommitDirect(q) ==
  /\ req[q].pc = "selling"
  /\ RecordSale(q)
  /\ remaining' = Minus(remaining, Demand(req[q].rows))
  /\ claim' = [claim EXCEPT ![q] = "drawn"]
  /\ UNCHANGED <<reserved, rsv>>

-----------------------------------------------------------------------------
(* cancelReservation, and the timer that calls it *)

\* Mutant: rows of any status are released.
CancelReservationAnyStatus(r) ==
  /\ rsv[r].status # "NONE"
  /\ remaining' = Plus(remaining, Demand(rsv[r].rows))
  /\ reserved' = Minus(reserved, Demand(rsv[r].rows))
  /\ claim' = [claim EXCEPT ![r] = "released"]
  /\ rsv' = [rsv EXCEPT ![r].status = "CANCELLED"]

CancelReservation(r) ==
  /\ rsv[r].status # "NONE"
  /\ IF rsv[r].status = "ACTIVE"
     THEN /\ remaining' = Plus(remaining, Demand(rsv[r].rows))
          /\ reserved' = Minus(reserved, Demand(rsv[r].rows))
          /\ claim' = [claim EXCEPT ![r] = "released"]
     ELSE UNCHANGED stock
  /\ rsv' = [rsv EXCEPT ![r].status = "CANCELLED"]

Cancel(r) ==
  /\ CancelReservation(r)
  /\ live' = TRUE
  /\ UNCHANGED <<records, req, todo, crashes>>

\* expiresAt passes.
Expire(r) ==
  /\ rsv[r].status = "ACTIVE"
  /\ ~rsv[r].expired
  /\ rsv' = [rsv EXCEPT ![r].expired = TRUE]
  /\ UNCHANGED <<stock, records, server>>

ExpiredActive(r) == rsv[r].status = "ACTIVE" /\ rsv[r].expired

\* Mutants: the comparison with expiresAt is the wrong way round; the loop
\* runs past the last row.
CleanupReadUnexpired(c) ==
  /\ live
  /\ todo[c] = NoTodo
  /\ todo' = [todo EXCEPT ![c] =
       [r \in Request |-> IF rsv[r].status = "ACTIVE" /\ ~rsv[r].expired
                          THEN Len(rsv[r].rows) ELSE 0]]
  /\ UNCHANGED <<stock, rsv, records, req, live, crashes>>

CleanupCancelPastEnd(c) ==
  \E r \in Request :
    /\ todo[c][r] >= 0
    /\ CancelReservation(r)
    /\ todo' = [todo EXCEPT ![c][r] = @ - 1]
    /\ UNCHANGED <<records, req, live, crashes>>

\* cleanupExpiredReservations lists rows, so a reservation of several items
\* is listed, and cancelled, once per item.
CleanupRead(c) ==
  /\ live
  /\ todo[c] = NoTodo
  /\ \E r \in Request : ExpiredActive(r)
  /\ todo' = [todo EXCEPT ![c] =
       [r \in Request |-> IF ExpiredActive(r) THEN Len(rsv[r].rows) ELSE 0]]
  /\ UNCHANGED <<stock, rsv, records, req, live, crashes>>

CleanupCancel(c) ==
  \E r \in Request :
    /\ todo[c][r] > 0
    /\ CancelReservation(r)
    /\ todo' = [todo EXCEPT ![c][r] = @ - 1]
    /\ UNCHANGED <<records, req, live, crashes>>

\* One failing cancellation ends the whole run.
CleanupFail(c) ==
  /\ todo[c] # NoTodo
  /\ todo' = [todo EXCEPT ![c] = NoTodo]
  /\ UNCHANGED <<stock, rsv, records, req, live, crashes>>

-----------------------------------------------------------------------------
(* Failures *)

Running == {"reserving", "completing", "selling", "paying", "pending"}

\* A request ends early: stock is short, a conditional decrement or a unique
\* index refuses, the transaction conflicts or times out, a payment call fails.
FailRequest(q) ==
  /\ req[q].pc \in Running
  /\ req' = [req EXCEPT ![q].pc = "done"]
  /\ UNCHANGED <<stock, rsv, records, live, todo, crashes>>

\* The service is request scoped: its constructor, and so the timer, first
\* runs when a request reaches it, here one that only reads.
Browse ==
  /\ live' = TRUE
  /\ UNCHANGED <<stock, rsv, records, req, todo, crashes>>

\* The server process restarts: requests, cleanup runs and timers are gone.
Crash ==
  /\ crashes < MaxCrashes
  /\ crashes' = crashes + 1
  /\ req' = [q \in Request |->
       IF req[q].pc \in Running THEN [req[q] EXCEPT !.pc = "done"] ELSE req[q]]
  /\ live' = FALSE
  /\ todo' = [c \in Cleaner |-> NoTodo]
  /\ UNCHANGED <<stock, rsv, records>>

-----------------------------------------------------------------------------
RequestStep(q) ==
  \/ \E o \in ReserveOrders : StartReserve(q, o)
  \/ ReadItem(q)
  \/ CommitReservation(q)
  \/ \E r \in Request, t \in PaymentTypes, p \in Receipts \cup {NoReceipt} :
       StartComplete(q, r, t, p)
  \/ CommitComplete(q)
  \/ CreatePayment(q)
  \/ CreatePendingPayment(q)
  \/ \E o \in DirectOrders, t \in PaymentTypes, p \in Receipts \cup {NoReceipt} :
       StartDirect(q, o, t, p)
  \/ CommitDirect(q)
  \/ Cancel(q)
  \/ Expire(q)
  \/ FailRequest(q)

CleanerStep(c) == CleanupRead(c) \/ CleanupCancel(c) \/ CleanupFail(c)

Next ==
  \/ \E q \in Request : RequestStep(q)
  \/ \E c \in Cleaner : CleanerStep(c)
  \/ Browse
  \/ Crash

Spec == Init /\ [][Next]_vars

\* The timer fires while it lives, and a cancellation that keeps being
\* possible is not refused for ever.  No request is assumed to arrive.
FairSpec ==
  /\ Spec
  /\ \A c \in Cleaner : WF_vars(CleanupRead(c)) /\ SF_vars(CleanupCancel(c))

-----------------------------------------------------------------------------
(* Correctness *)

Rows == Seq(Allocation)
ClaimState == {"open", "held", "sold", "released", "drawn"}

ReservationRow == [status : {"NONE", "ACTIVE", "COMPLETED", "CANCELLED"},
                   expired : BOOLEAN, rows : Rows]
SaleRow == [status : {"NONE", "UNPAID", "COMPLETED"},
            from : Request \cup {NoRequest}, rows : Rows,
            receipt : Receipts \cup {NoReceipt}, type : PaymentTypes \cup {"NONE"}]
LocalState == [pc : Running \cup {"idle", "done"},
               order : ReserveOrders \cup DirectOrders \cup {<<>>},
               from : Request \cup {NoRequest}, rows : Rows,
               receipt : Receipts \cup {NoReceipt}, type : PaymentTypes \cup {"NONE"}]

\* Every variable stays in its domain.  Quantities are integers and not
\* naturals: nothing in the legacy sale stops remainingQuantity at zero.
TypeOK ==
  /\ remaining \in [Batch -> Int]
  /\ reserved \in [Batch -> Int]
  /\ rsv \in [Request -> ReservationRow]
  /\ sale \in [Request -> SaleRow]
  /\ payment \subseteq Request
  /\ pending \subseteq Request
  /\ claim \in [Request -> ClaimState]
  /\ req \in [Request -> LocalState]
  /\ live \in BOOLEAN
  /\ todo \in [Cleaner -> [Request -> Nat]]
  /\ crashes \in 0..MaxCrashes

\* The rows whose units request q has taken from the batches.
ClaimRows(q) == IF claim[q] = "drawn" THEN sale[q].rows ELSE rsv[q].rows

\* The units of batch b in the claims that are in state st.
UnitsIn(st, b) ==
  {x \in Request \X Slot : /\ claim[x[1]] = st
                           /\ x[2] \in RowUnits(ClaimRows(x[1]), b)}

\* reservedQuantity of every batch is exactly what the ACTIVE reservations
\* allocated from it: completion, cancellation and cleanup racing on one
\* reservation never take its units out of the counter twice.
ReservedIsHeld ==
  \A b \in Batch :
    reserved[b] = Cardinality({x \in Request \X Slot :
                     /\ rsv[x[1]].status = "ACTIVE"
                     /\ x[2] \in RowUnits(rsv[x[1]].rows, b)})

\* No unit is lost or invented: what a batch was received with is what
\* remains, what is reserved, what reservations sold and what direct sales took.
StockConserved ==
  \A b \in Batch :
    Stock[b] = remaining[b] + reserved[b]
                 + Cardinality(UnitsIn("sold", b)) + Cardinality(UnitsIn("drawn", b))

\* Reservations alone never oversell a batch: the units they hold and the
\* units they sold fit in its stock, although they are chosen from a read
\* made outside the transaction that takes them.
ReservationsWithinStock ==
  \A b \in Batch :
    Cardinality(UnitsIn("held", b)) + Cardinality(UnitsIn("sold", b)) <= Stock[b]

\* Units that left the ledger as sold can be found on a sale: the sale of
\* that reservation lists exactly the allocations that were reserved.
SoldUnitsOnASale ==
  \A r \in Request : claim[r] = "sold" =>
    \E q \in Request : /\ sale[q].status # "NONE"
                       /\ sale[q].from = r
                       /\ sale[q].rows = rsv[r].rows

\* What makes the properties above inductive: the history of a claim goes with
\* the reservation row it is about, a request whose transaction is still to
\* come has taken and sold nothing, what a completion read outside its
\* transaction is still what the rows say, and the counters count the claims.
ClaimMatchesRow ==
  \A q \in Request :
    /\ rsv[q].status = "ACTIVE" <=> claim[q] = "held"
    /\ claim[q] \in {"open", "drawn"} => rsv[q].status = "NONE"

NothingTakenYet ==
  \A q \in Request :
    req[q].pc \in {"idle", "reserving", "completing", "selling"} =>
      claim[q] = "open" /\ sale[q].status = "NONE"

CompletionReadTheRows ==
  \A q \in Request :
    req[q].pc = "completing" =>
      /\ req[q].from \in Request
      /\ rsv[req[q].from].status # "NONE"
      /\ req[q].rows = rsv[req[q].from].rows

HeldIsReserved == \A b \in Batch : reserved[b] = Cardinality(UnitsIn("held", b))

StockInv ==
  /\ TypeOK
  /\ ClaimMatchesRow
  /\ NothingTakenYet
  /\ CompletionReadTheRows
  /\ HeldIsReserved
  /\ StockConserved
  /\ ReservationsWithinStock
  /\ SoldUnitsOnASale

\* Every step moves stock the way the ledger allows: a reservation is held
\* once and settled once, whichever of the racing handlers comes first.
Ledger == INSTANCE StockLedger WITH
  Claim <- Request,
  free <- remaining,
  held <- reserved,
  claim <- [q \in Request |->
              [state |-> claim[q], amount |-> Demand(ClaimRows(q))]]

LedgerSpec == Ledger!Spec

\* While some cleanup timer lives on, an expired reservation does not keep
\* its units: it is completed, cancelled or cleaned up.
LiveTimerReleases ==
  <>[]live => \A r \in Request : ExpiredActive(r) ~> ~ExpiredActive(r)

-----------------------------------------------------------------------------
(* What comments and messages of the source say and the code does not keep *)

\* "Fast execution since inventory is already reserved": a sale completed
\* from a reservation has the units of that reservation, and has them alone.
SaleOwnsReservedUnits ==
  \A q \in Request : sale[q].from # NoRequest =>
    /\ claim[sale[q].from] = "sold"
    /\ \A p \in Request : p # q => sale[p].from # sale[q].from

\* "Current remaining quantity in this batch" is a quantity.
RemainingNotNegative == \A b \in Batch : remaining[b] >= 0

\* "Clean up expired reservations every 5 minutes", with no condition.
ExpiredReleased ==
  \A r \in Request : ExpiredActive(r) ~> ~ExpiredActive(r)
=============================================================================
