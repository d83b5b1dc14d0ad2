---------------------- MODULE InventoryReservationProofs ----------------------
(***************************************************************************)
(* Theorems about InventoryReservation, for every value of its constants:  *)
(* its types, its counters, which agree with the reservations and sales of *)
(* every reachable state, and that every step of the handlers is a step of *)
(* StockLedger.                                                            *)
(*                                                                         *)
(* The inductive invariant is StockInv.  The counters change only when one *)
(* claim changes state, so one lemma (ClaimMoves) says what that does to   *)
(* the number of units in every state, and each handler is an instance.    *)
(***************************************************************************)
EXTENDS InventoryReservation, FiniteSetTheorems, SequenceTheorems, TLAPS

-----------------------------------------------------------------------------
(* Counting units *)

\* The slots of one claim are finitely many, one per item and unit.
LEMMA SlotFinite ==
  /\ IsFiniteSet(Slot)
  /\ Cardinality(Slot) = MaxItems * MaxQuantity
<1>1. /\ IsFiniteSet(1..MaxItems) /\ Cardinality(1..MaxItems) = MaxItems
      /\ IsFiniteSet(1..MaxQuantity) /\ Cardinality(1..MaxQuantity) = MaxQuantity
  BY OrderAssumption, FS_Interval
<1>2. /\ IsFiniteSet((1..MaxItems) \X (1..MaxQuantity))
      /\ Cardinality((1..MaxItems) \X (1..MaxQuantity))
           = Cardinality(1..MaxItems) * Cardinality(1..MaxQuantity)
  BY <1>1, FS_Product, Zenon
<1> QED
  BY <1>1, <1>2, Zenon DEF Slot

\* The units of rows of allocations are finitely many in every batch.
LEMMA RowUnitsFinite ==
  ASSUME NEW rows, NEW b
  PROVE  /\ IsFiniteSet(RowUnits(rows, b))
         /\ Cardinality(RowUnits(rows, b)) \in 0..(MaxItems * MaxQuantity)
<1>1. RowUnits(rows, b) \in SUBSET Slot
  BY DEF RowUnits
<1>2. /\ IsFiniteSet(RowUnits(rows, b))
      /\ Cardinality(RowUnits(rows, b)) <= MaxItems * MaxQuantity
  BY <1>1, SlotFinite, FS_Subset
<1>3. Cardinality(RowUnits(rows, b)) \in Nat
  BY <1>2, FS_CardinalityType
<1> QED
  BY <1>2, <1>3, OrderAssumption

LEMMA DemandType ==
  ASSUME NEW rows
  PROVE  /\ Demand(rows) \in [Batch -> 0..(MaxItems * MaxQuantity)]
         /\ Demand(rows) \in [Batch -> Nat]
BY RowUnitsFinite, OrderAssumption DEF Demand

-----------------------------------------------------------------------------
(* Type correctness *)

LEMMA AllocationsAreTyped ==
  ASSUME NEW item, NEW available
  PROVE  FifoAllocations(item, available) \subseteq Allocation
BY DEF FifoAllocations

\* The domains hold initially.
LEMMA InitTypeOK == Init => TypeOK
<1> SUFFICES ASSUME Init PROVE TypeOK
  OBVIOUS
<1>1. <<>> \in Rows
  BY DEF Rows
<1>2. NoRsv \in ReservationRow
  BY <1>1 DEF NoRsv, ReservationRow
<1>3. NoSale \in SaleRow
  BY <1>1 DEF NoSale, SaleRow
<1>4. Idle \in LocalState
  BY <1>1 DEF Idle, LocalState
<1>5. remaining \in [Batch -> Int] /\ reserved \in [Batch -> Int]
  BY BatchAssumption DEF Init
<1>6. todo \in [Cleaner -> [Request -> Nat]]
  BY DEF Init, NoTodo
<1>7. /\ rsv \in [Request -> ReservationRow]
      /\ sale \in [Request -> SaleRow]
      /\ req \in [Request -> LocalState]
  BY <1>2, <1>3, <1>4 DEF Init
<1>8. crashes \in 0..MaxCrashes
  BY RequestAssumption DEF Init
<1>9. /\ claim \in [Request -> ClaimState]
      /\ payment \subseteq Request
      /\ pending \subseteq Request
      /\ live \in BOOLEAN
  BY DEF Init, ClaimState
<1> QED
  BY <1>5, <1>6, <1>7, <1>8, <1>9 DEF TypeOK

\* What a request may put into its local record, field by field.
LEMMA LocalStateUpdates ==
  ASSUME TypeOK, NEW q \in Request
  PROVE  /\ \A pc \in Running \cup {"done"} :
              [req EXCEPT ![q].pc = pc] \in [Request -> LocalState]
         /\ \A rows \in Rows :
              [req EXCEPT ![q].rows = rows] \in [Request -> LocalState]
         /\ \A l \in LocalState : [req EXCEPT ![q] = l] \in [Request -> LocalState]
BY DEF TypeOK, LocalState

LEMMA ReservationUpdates ==
  ASSUME TypeOK, NEW r \in Request
  PROVE  /\ \A st \in {"COMPLETED", "CANCELLED"} :
              [rsv EXCEPT ![r].status = st] \in [Request -> ReservationRow]
         /\ [rsv EXCEPT ![r].expired = TRUE] \in [Request -> ReservationRow]
         /\ \A row \in ReservationRow :
              [rsv EXCEPT ![r] = row] \in [Request -> ReservationRow]
BY DEF TypeOK, ReservationRow

LEMMA StockUpdates ==
  ASSUME TypeOK, NEW rows
  PROVE  /\ Minus(remaining, Demand(rows)) \in [Batch -> Int]
         /\ Minus(reserved, Demand(rows)) \in [Batch -> Int]
         /\ Plus(remaining, Demand(rows)) \in [Batch -> Int]
         /\ Plus(reserved, Demand(rows)) \in [Batch -> Int]
BY DemandType DEF TypeOK, Minus, Plus

\* A sale recorded by a request is typed, and so is what it leaves behind.
LEMMA RecordSaleTypeOK ==
  ASSUME TypeOK, NEW q \in Request, RecordSale(q)
  PROVE  /\ sale' \in [Request -> SaleRow]
         /\ payment' \subseteq Request
         /\ req' \in [Request -> LocalState]
         /\ UNCHANGED <<pending, live, todo, crashes>>
<1>1. sale' \in [Request -> SaleRow]
  BY DEF RecordSale, TypeOK, SaleRow, LocalState
<1>2. req' \in [Request -> LocalState]
  BY LocalStateUpdates DEF RecordSale, Running
<1> QED
  BY <1>1, <1>2 DEF RecordSale, TypeOK

\* cancelReservation keeps the stock and the reservation rows typed.
LEMMA CancelTypeOK ==
  ASSUME TypeOK, NEW r \in Request, CancelReservation(r)
  PROVE  /\ remaining' \in [Batch -> Int]
         /\ reserved' \in [Batch -> Int]
         /\ claim' \in [Request -> ClaimState]
         /\ rsv' \in [Request -> ReservationRow]
<1>1. rsv' \in [Request -> ReservationRow]
  BY ReservationUpdates DEF CancelReservation
<1> QED
  BY <1>1, StockUpdates DEF CancelReservation, TypeOK, ClaimState, stock

\* Every step of a request keeps the variables in their domains.
LEMMA RequestTypeOK ==
  ASSUME TypeOK, NEW q \in Request, RequestStep(q)
  PROVE  TypeOK'
<1> USE DEF TypeOK, stock, records, server
<1>0. /\ Idle \in LocalState
      /\ req[q] \in LocalState
  BY DEF Idle, LocalState, Rows
<1>1. ASSUME NEW o \in ReserveOrders, StartReserve(q, o) PROVE TypeOK'
  <2>1. [Idle EXCEPT !.pc = "reserving", !.order = o] \in LocalState
    BY <1>0 DEF LocalState, Running
  <2> QED
    BY <1>1, <2>1, LocalStateUpdates DEF StartReserve
<1>2. CASE ReadItem(q)
  <2> PICK a \in FifoAllocations(req[q].order[Len(req[q].rows) + 1], remaining) :
         req' = [req EXCEPT ![q].rows = Append(@, a)]
    BY <1>2 DEF ReadItem
  <2>1. Append(req[q].rows, a) \in Rows
    BY <1>0, AllocationsAreTyped DEF LocalState, Rows
  <2> QED
    BY <1>2, <2>1, LocalStateUpdates DEF ReadItem
<1>3. CASE CommitReservation(q)
  <2>1. rsv' \in [Request -> ReservationRow]
    BY <1>0, <1>3, ReservationUpdates DEF CommitReservation, ReservationRow, LocalState
  <2>2. req' \in [Request -> LocalState]
    BY <1>3, LocalStateUpdates DEF CommitReservation
  <2> QED
    BY <1>3, <2>1, <2>2, StockUpdates DEF CommitReservation, ClaimState
<1>4. ASSUME NEW r \in Request, NEW t \in PaymentTypes,
             NEW p \in Receipts \cup {NoReceipt}, StartComplete(q, r, t, p)
      PROVE  TypeOK'
  <2>1. [Idle EXCEPT !.pc = "completing", !.from = r, !.rows = rsv[r].rows,
                     !.receipt = p, !.type = t] \in LocalState
    BY <1>0 DEF LocalState, Running, ReservationRow
  <2> QED
    BY <1>4, <2>1, LocalStateUpdates DEF StartComplete
<1>5. CASE CommitComplete(q)
  <2>1. rsv' \in [Request -> ReservationRow]
    BY <1>5 DEF CommitComplete, ReservationRow
  <2>2. reserved' \in [Batch -> Int] /\ claim' \in [Request -> ClaimState]
    BY <1>5, StockUpdates DEF CommitComplete, ConfirmAllocations, ClaimState
  <2> QED
    BY <1>5, <2>1, <2>2, RecordSaleTypeOK DEF CommitComplete, ConfirmAllocations
<1>6. CASE CreatePayment(q)
  BY <1>6, LocalStateUpdates DEF CreatePayment, Running
<1>7. CASE CreatePendingPayment(q)
  BY <1>7, LocalStateUpdates DEF CreatePendingPayment
<1>8. ASSUME NEW o \in DirectOrders, NEW t \in PaymentTypes,
             NEW p \in Receipts \cup {NoReceipt}, StartDirect(q, o, t, p)
      PROVE  TypeOK'
  <2> PICK rows \in [DOMAIN o -> UNION {FifoAllocations(o[i], remaining) :
                                          i \in DOMAIN o}] :
         /\ \A i \in DOMAIN o : rows[i] \in FifoAllocations(o[i], remaining)
         /\ req' = [req EXCEPT ![q] = [Idle EXCEPT
              !.pc = "selling", !.order = o, !.rows = rows,
              !.receipt = p, !.type = t]]
    BY <1>8 DEF StartDirect
  <2>1. rows \in Rows
    <3>1. DOMAIN o = 1..Len(o) /\ Len(o) \in Nat
      BY OrderAssumption, LenProperties
    <3>2. rows \in [1..Len(o) -> Allocation]
      BY <3>1, AllocationsAreTyped
    <3>3. Seq(Allocation) = UNION {[1..n -> Allocation] : n \in Nat}
      BY SeqDef, Zenon
    <3> QED
      BY <3>1, <3>2, <3>3, Zenon DEF Rows
  <2>2. [Idle EXCEPT !.pc = "selling", !.order = o, !.rows = rows,
                     !.receipt = p, !.type = t] \in LocalState
    BY <1>0, <2>1 DEF LocalState, Running
  <2> QED
    BY <1>8, <2>2, LocalStateUpdates DEF StartDirect
<1>9. CASE CommitDirect(q)
  BY <1>9, StockUpdates, RecordSaleTypeOK DEF CommitDirect, ClaimState
<1>10. CASE Cancel(q)
  BY <1>10, CancelTypeOK DEF Cancel
<1>11. CASE Expire(q)
  BY <1>11, ReservationUpdates DEF Expire
<1>12. CASE FailRequest(q)
  BY <1>12, LocalStateUpdates DEF FailRequest
<1> QED
  BY <1>1, <1>2, <1>3, <1>4, <1>5, <1>6, <1>7, <1>8, <1>9, <1>10, <1>11,
     <1>12 DEF RequestStep

\* Cleanup runs, reading requests and restarts keep the domains as well.
LEMMA NextTypeOK == TypeOK /\ [Next]_vars => TypeOK'
<1> SUFFICES ASSUME TypeOK, [Next]_vars PROVE TypeOK'
  OBVIOUS
<1> USE DEF stock, records, server
<1>1. ASSUME NEW q \in Request, RequestStep(q) PROVE TypeOK'
  BY <1>1, RequestTypeOK
<1>2. ASSUME NEW c \in Cleaner, CleanupRead(c) PROVE TypeOK'
  <2>1. \A r \in Request : Len(rsv[r].rows) \in Nat
    BY DEF TypeOK, ReservationRow, Rows
  <2>2. todo' \in [Cleaner -> [Request -> Nat]]
    BY <1>2, <2>1 DEF TypeOK, CleanupRead
  <2> QED
    BY <1>2, <2>2 DEF TypeOK, CleanupRead
<1>3. ASSUME NEW c \in Cleaner, CleanupCancel(c) PROVE TypeOK'
  <2> PICK r \in Request :
         /\ todo[c][r] > 0
         /\ CancelReservation(r)
         /\ todo' = [todo EXCEPT ![c][r] = @ - 1]
         /\ UNCHANGED <<records, req, live, crashes>>
    BY <1>3 DEF CleanupCancel
  <2>1. todo' \in [Cleaner -> [Request -> Nat]]
    <3>1. [todo[c] EXCEPT ![r] = @ - 1] \in [Request -> Nat]
      BY DEF TypeOK
    <3>2. todo' = [todo EXCEPT ![c] = [todo[c] EXCEPT ![r] = @ - 1]]
      BY DEF TypeOK
    <3> QED
      BY <3>1, <3>2 DEF TypeOK
  <2> QED
    BY <2>1, CancelTypeOK DEF TypeOK, records
<1>4. ASSUME NEW c \in Cleaner, CleanupFail(c) PROVE TypeOK'
  BY <1>4 DEF CleanupFail, TypeOK, NoTodo
<1>5. CASE Browse
  BY <1>5 DEF Browse, TypeOK
<1>6. CASE Crash
  <2>1. \A q \in Request : [req[q] EXCEPT !.pc = "done"] \in LocalState
    BY DEF TypeOK, LocalState
  <2>2. req' \in [Request -> LocalState]
    BY <1>6, <2>1 DEF Crash, TypeOK
  <2>3. crashes' \in 0..MaxCrashes
    BY <1>6, RequestAssumption DEF Crash, TypeOK
  <2>4. todo' \in [Cleaner -> [Request -> Nat]] /\ live' \in BOOLEAN
    BY <1>6 DEF Crash, NoTodo
  <2> QED
    BY <1>6, <2>2, <2>3, <2>4 DEF Crash, TypeOK
<1>7. CASE UNCHANGED vars
  BY <1>7 DEF vars, TypeOK
<1> QED
  BY <1>1, <1>2, <1>3, <1>4, <1>5, <1>6, <1>7 DEF Next, CleanerStep

\* Every variable stays in its domain, for any batches, orders and requests.
THEOREM TypeCorrect == Spec => []TypeOK
BY InitTypeOK, NextTypeOK, PTL DEF Spec

-----------------------------------------------------------------------------
(* Units entering and leaving a set of claims *)

LEMMA CardinalityOfDisjointUnion ==
  ASSUME NEW S, NEW T, IsFiniteSet(S), IsFiniteSet(T), S \cap T = {}
  PROVE  Cardinality(S \cup T) = Cardinality(S) + Cardinality(T)
<1>1. Cardinality(S \cup T)
        = Cardinality(S) + Cardinality(T) - Cardinality(S \cap T)
  BY FS_Union, Zenon
<1>2. Cardinality(S \cap T) = 0
  BY FS_EmptySet
<1>3. Cardinality(S) \in Nat /\ Cardinality(T) \in Nat
  BY FS_CardinalityType
<1> QED
  BY <1>1, <1>2, <1>3

LEMMA CardinalityOfRemoval ==
  ASSUME NEW S, NEW T, IsFiniteSet(S), T \subseteq S
  PROVE  Cardinality(S \ T) = Cardinality(S) - Cardinality(T)
<1>1. Cardinality(S \ T) = Cardinality(S) - Cardinality(S \cap T)
  BY FS_Difference, Zenon
<1>2. S \cap T = T
  OBVIOUS
<1> QED
  BY <1>1, <1>2

LEMMA UnitsFinite ==
  ASSUME NEW st, NEW b
  PROVE  /\ IsFiniteSet(UnitsIn(st, b))
         /\ Cardinality(UnitsIn(st, b)) \in Nat
<1>1. IsFiniteSet(Request \X Slot)
  BY RequestAssumption, SlotFinite, FS_Product, Zenon
<1>2. UnitsIn(st, b) \in SUBSET (Request \X Slot)
  BY DEF UnitsIn
<1>3. IsFiniteSet(UnitsIn(st, b))
  BY <1>1, <1>2, FS_Subset, Zenon
<1> QED
  BY <1>3, FS_CardinalityType

\* The units of one claim, marked with it, number what it demands.
LEMMA MarkedUnits ==
  ASSUME NEW q, NEW rows, NEW b \in Batch
  PROVE  /\ IsFiniteSet({q} \X RowUnits(rows, b))
         /\ Cardinality({q} \X RowUnits(rows, b)) = Demand(rows)[b]
<1>1. IsFiniteSet({q}) /\ Cardinality({q}) = 1
  BY FS_Singleton
<1>2. /\ IsFiniteSet(RowUnits(rows, b))
      /\ Cardinality(RowUnits(rows, b)) \in Nat
  BY RowUnitsFinite, OrderAssumption
<1>3. /\ IsFiniteSet({q} \X RowUnits(rows, b))
      /\ Cardinality({q} \X RowUnits(rows, b))
           = Cardinality({q}) * Cardinality(RowUnits(rows, b))
  BY <1>1, <1>2, FS_Product, Zenon
<1>4. Demand(rows)[b] = Cardinality(RowUnits(rows, b))
  BY DEF Demand
<1> QED
  BY <1>1, <1>2, <1>3, <1>4

\* When claim q goes from one state to another, its units leave the first and
\* enter the second, and nothing else changes.
LEMMA ClaimMoves ==
  ASSUME TypeOK, NEW q \in Request, NEW to \in ClaimState,
         to # claim[q], to # "open",
         claim' = [claim EXCEPT ![q] = to],
         \A x \in Request : x # q => ClaimRows(x)' = ClaimRows(x),
         claim[q] # "open" => ClaimRows(q)' = ClaimRows(q),
         NEW b \in Batch, NEW st \in ClaimState, st # "open"
  PROVE  LET d == Demand(ClaimRows(q)')[b]
         IN  Cardinality(UnitsIn(st, b)')
               = Cardinality(UnitsIn(st, b))
                   + (IF st = to THEN d ELSE IF st = claim[q] THEN -d ELSE 0)
<1> DEFINE M == {q} \X RowUnits(ClaimRows(q)', b)
<1>1. claim[q]' = to /\ \A x \in Request : x # q => claim[x]' = claim[x]
  BY DEF TypeOK
<1>2. IsFiniteSet(M) /\ Cardinality(M) = Demand(ClaimRows(q)')[b]
  <2> DEFINE rows == ClaimRows(q)'
  <2>1. /\ IsFiniteSet({q} \X RowUnits(rows, b))
        /\ Cardinality({q} \X RowUnits(rows, b)) = Demand(rows)[b]
    <3> HIDE DEF rows
    <3> QED BY MarkedUnits
  <2> QED
    BY <2>1
<1>3. CASE st = to
  <2>1. UnitsIn(st, b)' = UnitsIn(st, b) \cup M
    BY <1>1, <1>3 DEF UnitsIn, RowUnits
  <2>2. UnitsIn(st, b) \cap M = {}
    BY <1>3 DEF UnitsIn
  <2> QED
    BY <1>2, <1>3, <2>1, <2>2, UnitsFinite, CardinalityOfDisjointUnion
<1>4. CASE st # to /\ st = claim[q]
  <2>1. ClaimRows(q)' = ClaimRows(q)
    BY <1>4
  <2>2. UnitsIn(st, b)' = UnitsIn(st, b) \ M
    BY <1>1, <1>4, <2>1 DEF UnitsIn
  <2>3. M \subseteq UnitsIn(st, b)
    BY <1>4, <2>1 DEF UnitsIn, RowUnits
  <2>4. Cardinality(M) \in Nat
    BY <1>2, FS_CardinalityType
  <2> QED
    BY <1>2, <1>4, <2>2, <2>3, <2>4, UnitsFinite, CardinalityOfRemoval
<1>5. CASE st # to /\ st # claim[q]
  <2>1. UnitsIn(st, b)' = UnitsIn(st, b)
    BY <1>1, <1>5 DEF UnitsIn
  <2> QED
    BY <1>5, <2>1, UnitsFinite
<1> QED
  BY <1>3, <1>4, <1>5

\* When no claim changes state nor rows, the units stay where they are.
LEMMA ClaimsStay ==
  ASSUME TypeOK, UNCHANGED claim, NEW st, st # "open", NEW b,
         \A x \in Request : claim[x] # "open" => ClaimRows(x)' = ClaimRows(x)
  PROVE  UnitsIn(st, b)' = UnitsIn(st, b)
BY DEF UnitsIn

-----------------------------------------------------------------------------
(* The counters under the four moves a claim can make *)

Counters == HeldIsReserved /\ StockConserved /\ ReservationsWithinStock

\* Claim q goes to state "to", and the counters follow its d units.
Move(q, to) ==
  LET d == Demand(ClaimRows(q)')
  IN
  /\ claim' = [claim EXCEPT ![q] = to]
  /\ \A x \in Request : x # q => ClaimRows(x)' = ClaimRows(x)
  /\ claim[q] # "open" => ClaimRows(q)' = ClaimRows(q)
  /\ \/ /\ claim[q] = "open" /\ to = "held"
        /\ \A b \in Batch : d[b] > 0 => d[b] <= remaining[b]
        /\ remaining' = Minus(remaining, d)
        /\ reserved' = Plus(reserved, d)
     \/ /\ claim[q] = "held" /\ to = "sold"
        /\ remaining' = remaining
        /\ reserved' = Minus(reserved, d)
     \/ /\ claim[q] = "held" /\ to = "released"
        /\ remaining' = Plus(remaining, d)
        /\ reserved' = Minus(reserved, d)
     \/ /\ claim[q] = "open" /\ to = "drawn"
        /\ remaining' = Minus(remaining, d)
        /\ reserved' = reserved

Stay ==
  /\ UNCHANGED <<remaining, reserved, claim>>
  /\ \A x \in Request : ClaimRows(x)' = ClaimRows(x)

\* Every step of the module is one of the two.
StockStep == Stay \/ \E q \in Request, to \in ClaimState : Move(q, to)

\* The arithmetic of a move: d units of every batch go from where the claim
\* was to where it is, and the counters follow.
LEMMA CountersMove ==
  ASSUME StockInv, NEW q \in Request, NEW to \in ClaimState, Move(q, to)
  PROVE  Counters'
<1> DEFINE d == Demand(ClaimRows(q)')
           N(st, b) == Cardinality(UnitsIn(st, b))
<1>1. \A rows : Demand(rows) \in [Batch -> Nat]
  BY DemandType
<1>2. d \in [Batch -> Nat]
  BY <1>1
<1> SUFFICES ASSUME NEW b \in Batch
             PROVE  /\ reserved'[b] = N("held", b)'
                    /\ Stock[b] = remaining'[b] + reserved'[b]
                                    + N("sold", b)' + N("drawn", b)'
                    /\ N("held", b)' + N("sold", b)' <= Stock[b]
  BY DEF Counters, HeldIsReserved, StockConserved, ReservationsWithinStock
<1>3. /\ remaining[b] \in Int /\ reserved[b] \in Int /\ Stock[b] \in Nat
      /\ d[b] \in Nat
  BY <1>2, BatchAssumption DEF StockInv, TypeOK
<1>4. \A st : N(st, b) \in Nat
  BY UnitsFinite
<1>5. /\ reserved[b] = N("held", b)
      /\ Stock[b] = remaining[b] + reserved[b] + N("sold", b) + N("drawn", b)
      /\ N("held", b) + N("sold", b) <= Stock[b]
  BY DEF StockInv, HeldIsReserved, StockConserved, ReservationsWithinStock
<1>6. to # claim[q] => \A st \in ClaimState \ {"open"} :
        N(st, b)' = N(st, b)
                      + (IF st = to THEN d[b] ELSE IF st = claim[q] THEN -d[b] ELSE 0)
  <2> SUFFICES ASSUME to # claim[q], NEW st \in ClaimState, st # "open"
               PROVE  N(st, b)' = N(st, b) + (IF st = to THEN d[b]
                                    ELSE IF st = claim[q] THEN -d[b] ELSE 0)
    OBVIOUS
  <2>1. to # "open"
    BY DEF Move
  <2> QED
    BY <2>1, ClaimMoves DEF StockInv, Move
<1> HIDE DEF d, N
<1>7. CASE /\ claim[q] = "open" /\ to = "held"
           /\ \A c \in Batch : d[c] > 0 => d[c] <= remaining[c]
           /\ remaining' = Minus(remaining, d)
           /\ reserved' = Plus(reserved, d)
  BY <1>3, <1>4, <1>5, <1>6, <1>7 DEF Minus, Plus, ClaimState
<1>8. CASE /\ claim[q] = "held" /\ to = "sold"
           /\ remaining' = remaining
           /\ reserved' = Minus(reserved, d)
  BY <1>3, <1>4, <1>5, <1>6, <1>8 DEF Minus, Plus, ClaimState
<1>9. CASE /\ claim[q] = "held" /\ to = "released"
           /\ remaining' = Plus(remaining, d)
           /\ reserved' = Minus(reserved, d)
  BY <1>3, <1>4, <1>5, <1>6, <1>9 DEF Minus, Plus, ClaimState
<1>10. CASE /\ claim[q] = "open" /\ to = "drawn"
            /\ remaining' = Minus(remaining, d)
            /\ reserved' = reserved
  BY <1>3, <1>4, <1>5, <1>6, <1>10 DEF Minus, Plus, ClaimState
<1> QED
  BY <1>7, <1>8, <1>9, <1>10 DEF d, Move

\* Without a move the counters stand.
LEMMA CountersStay ==
  ASSUME StockInv, Stay
  PROVE  Counters'
<1>1. \A st, b : st # "open" => UnitsIn(st, b)' = UnitsIn(st, b)
  BY ClaimsStay DEF StockInv, Stay
<1> QED
  BY <1>1 DEF StockInv, Counters, HeldIsReserved, StockConserved,
              ReservationsWithinStock, Stay

-----------------------------------------------------------------------------
(* StockInv is inductive *)

Uncommitted == {"idle", "reserving", "completing", "selling"}

\* Steps that touch no stock, reservation or sale: it is enough that no
\* request comes to expect a commit, and that completions know their rows.
LEMMA LocalStep ==
  ASSUME StockInv, TypeOK', UNCHANGED <<stock, rsv, sale>>,
         \A x \in Request :
           /\ req'[x].pc \in Uncommitted => req[x].pc \in Uncommitted
           /\ \/ req'[x].pc # "completing"
              \/ /\ req[x].pc = "completing"
                 /\ req'[x].from = req[x].from
                 /\ req'[x].rows = req[x].rows
              \/ /\ req'[x].from \in Request
                 /\ rsv[req'[x].from].status # "NONE"
                 /\ req'[x].rows = rsv[req'[x].from].rows
  PROVE  StockInv' /\ StockStep
<1> USE DEF stock
<1>1. \A x \in Request : ClaimRows(x)' = ClaimRows(x)
  BY DEF ClaimRows
<1>2. Counters' /\ StockStep
  BY <1>1, CountersStay DEF Stay, StockStep
<1>3. ClaimMatchesRow'
  BY DEF StockInv, ClaimMatchesRow
<1>4. NothingTakenYet'
  BY DEF StockInv, NothingTakenYet, Uncommitted
<1>5. CompletionReadTheRows'
  BY DEF StockInv, CompletionReadTheRows
<1>6. SoldUnitsOnASale'
  BY DEF StockInv, SoldUnitsOnASale
<1> QED
  BY <1>2, <1>3, <1>4, <1>5, <1>6 DEF StockInv, Counters

\* The steps of a request that only touch its own record.
LEMMA RequestLocalStep ==
  ASSUME StockInv, TypeOK', NEW q \in Request,
         \/ \E o \in ReserveOrders : StartReserve(q, o)
         \/ ReadItem(q)
         \/ \E r \in Request, t \in PaymentTypes, p \in Receipts \cup {NoReceipt} :
              StartComplete(q, r, t, p)
         \/ CreatePayment(q)
         \/ CreatePendingPayment(q)
         \/ \E o \in DirectOrders, t \in PaymentTypes,
               p \in Receipts \cup {NoReceipt} : StartDirect(q, o, t, p)
         \/ FailRequest(q)
  PROVE  StockInv' /\ StockStep
<1> USE DEF records, stock
<1>1. req \in [Request -> LocalState]
  BY DEF StockInv, TypeOK
<1>2. ASSUME NEW o \in ReserveOrders, StartReserve(q, o) PROVE StockInv' /\ StockStep
  BY <1>1, <1>2, LocalStep DEF StartReserve, Uncommitted, Idle
<1>3. CASE ReadItem(q)
  BY <1>1, <1>3, LocalStep DEF ReadItem, Uncommitted, LocalState
<1>4. ASSUME NEW r \in Request, NEW t \in PaymentTypes,
             NEW p \in Receipts \cup {NoReceipt}, StartComplete(q, r, t, p)
      PROVE  StockInv' /\ StockStep
  BY <1>1, <1>4, LocalStep DEF StartComplete, Uncommitted, Idle
<1>5. CASE CreatePayment(q)
  BY <1>1, <1>5, LocalStep DEF CreatePayment, Uncommitted, LocalState
<1>6. CASE CreatePendingPayment(q)
  BY <1>1, <1>6, LocalStep DEF CreatePendingPayment, Uncommitted, LocalState
<1>7. ASSUME NEW o \in DirectOrders, NEW t \in PaymentTypes,
             NEW p \in Receipts \cup {NoReceipt}, StartDirect(q, o, t, p)
      PROVE  StockInv' /\ StockStep
  BY <1>1, <1>7, LocalStep DEF StartDirect, Uncommitted, Idle
<1>8. CASE FailRequest(q)
  BY <1>1, <1>8, LocalStep DEF FailRequest, Uncommitted, LocalState
<1> QED
  BY <1>2, <1>3, <1>4, <1>5, <1>6, <1>7, <1>8

\* createReservationWithPreview commits: an open claim comes to hold its units.
LEMMA CommitReservationStep ==
  ASSUME StockInv, TypeOK', NEW q \in Request, CommitReservation(q)
  PROVE  StockInv' /\ StockStep
<1> USE DEF CommitReservation, records
<1>1. claim[q] = "open" /\ sale[q].status = "NONE" /\ rsv[q].status = "NONE"
  BY DEF StockInv, NothingTakenYet, ClaimMatchesRow
<1>2. /\ rsv'[q].status = "ACTIVE" /\ rsv'[q].rows = req[q].rows
      /\ \A x \in Request : x # q => rsv'[x] = rsv[x]
      /\ \A x \in Request : x # q => claim'[x] = claim[x]
      /\ \A x \in Request : x # q => req'[x] = req[x]
      /\ claim'[q] = "held" /\ req'[q].pc = "done"
  BY DEF StockInv, TypeOK, LocalState
<1>3. /\ ClaimRows(q)' = req[q].rows
      /\ \A x \in Request : x # q => ClaimRows(x)' = ClaimRows(x)
  BY <1>2 DEF ClaimRows
<1>4. Counters' /\ StockStep
  <2>1. Move(q, "held")
    BY <1>1, <1>3 DEF Move
  <2> QED
    BY <2>1, CountersMove DEF ClaimState, StockStep
<1>5. ClaimMatchesRow'
  BY <1>2 DEF StockInv, ClaimMatchesRow
<1>6. NothingTakenYet'
  BY <1>2 DEF StockInv, NothingTakenYet
<1>7. CompletionReadTheRows'
  BY <1>1, <1>2 DEF StockInv, CompletionReadTheRows
<1>8. SoldUnitsOnASale'
  BY <1>1, <1>2 DEF StockInv, SoldUnitsOnASale
<1> QED
  BY <1>4, <1>5, <1>6, <1>7, <1>8 DEF StockInv, Counters

\* createInventorySale commits: an open claim draws its units.
LEMMA CommitDirectStep ==
  ASSUME StockInv, TypeOK', NEW q \in Request, CommitDirect(q)
  PROVE  StockInv' /\ StockStep
<1> USE DEF CommitDirect, RecordSale
<1>1. claim[q] = "open" /\ sale[q].status = "NONE" /\ rsv[q].status = "NONE"
  BY DEF StockInv, NothingTakenYet, ClaimMatchesRow
<1>2. /\ sale'[q].rows = req[q].rows
      /\ \A x \in Request : x # q => sale'[x] = sale[x]
      /\ \A x \in Request : x # q => claim'[x] = claim[x]
      /\ \A x \in Request : x # q => req'[x] = req[x]
      /\ claim'[q] = "drawn" /\ req'[q].pc \in {"paying", "done"}
  BY DEF StockInv, TypeOK, LocalState
<1>3. /\ ClaimRows(q)' = req[q].rows
      /\ \A x \in Request : x # q => ClaimRows(x)' = ClaimRows(x)
  BY <1>2 DEF ClaimRows
<1>4. Counters' /\ StockStep
  <2>1. Move(q, "drawn")
    BY <1>1, <1>3 DEF Move
  <2> QED
    BY <2>1, CountersMove DEF ClaimState, StockStep
<1>5. ClaimMatchesRow'
  BY <1>1, <1>2 DEF StockInv, ClaimMatchesRow
<1>6. NothingTakenYet'
  BY <1>2 DEF StockInv, NothingTakenYet
<1>7. CompletionReadTheRows'
  BY <1>2 DEF StockInv, CompletionReadTheRows
<1>8. SoldUnitsOnASale'
  BY <1>1, <1>2 DEF StockInv, SoldUnitsOnASale
<1> QED
  BY <1>4, <1>5, <1>6, <1>7, <1>8 DEF StockInv, Counters

\* completeSaleFromReservation commits: a held claim is sold, and the sale
\* carries its rows.  A claim that is settled already stays as it is.
LEMMA CommitCompleteStep ==
  ASSUME StockInv, TypeOK', NEW q \in Request, CommitComplete(q)
  PROVE  StockInv' /\ StockStep
<1> USE DEF CommitComplete, RecordSale, ConfirmAllocations
<1> PICK r \in Request : r = req[q].from
  BY DEF StockInv, CompletionReadTheRows
<1>1. /\ claim[q] = "open" /\ sale[q].status = "NONE" /\ rsv[q].status = "NONE"
      /\ rsv[r].status # "NONE" /\ req[q].rows = rsv[r].rows
  BY DEF StockInv, NothingTakenYet, ClaimMatchesRow, CompletionReadTheRows
<1>2. claim[r] \notin {"open", "drawn"} /\ r # q
  BY <1>1 DEF StockInv, ClaimMatchesRow
<1>3. /\ sale'[q].rows = rsv[r].rows /\ sale'[q].from = r
      /\ sale'[q].status # "NONE"
      /\ \A x \in Request : x # q => sale'[x] = sale[x]
      /\ \A x \in Request : x # q => req'[x] = req[x]
      /\ req'[q].pc \in {"paying", "done"}
  BY <1>1 DEF StockInv, TypeOK, LocalState
<1>4. /\ rsv'[r].status = "COMPLETED"
      /\ \A x \in Request : rsv'[x].rows = rsv[x].rows
      /\ \A x \in Request : x # r => rsv'[x] = rsv[x]
  BY <1>1 DEF StockInv, TypeOK, ReservationRow
<1>5. \A x \in Request : x # r => claim'[x] = claim[x]
  BY <1>1 DEF StockInv, TypeOK
<1>6. \A x \in Request : claim[x] \notin {"open", "drawn"} =>
        claim'[x] \notin {"open", "drawn"}
  BY <1>1 DEF StockInv, TypeOK
<1>7. \A x \in Request : ClaimRows(x)' = ClaimRows(x)
  <2>1. \A x \in Request : claim'[x] = "drawn" <=> claim[x] = "drawn"
    BY <1>2, <1>5, <1>6
  <2> QED
    BY <1>1, <1>3, <1>4, <2>1 DEF ClaimRows
<1>8. CASE rsv[r].status = "ACTIVE"
  <2>1. claim[r] = "held" /\ claim' = [claim EXCEPT ![r] = "sold"]
    BY <1>1, <1>8 DEF StockInv, ClaimMatchesRow
  <2>2. claim'[r] = "sold"
    BY <1>1, <2>1 DEF StockInv, TypeOK
  <2>3. ClaimRows(r)' = rsv[r].rows
    BY <1>4, <2>2 DEF ClaimRows
  <2>4. Counters' /\ StockStep
    <3>1. /\ remaining' = remaining
          /\ reserved' = Minus(reserved, Demand(ClaimRows(r)'))
      BY <1>8, <2>3
    <3> HIDE DEF CommitComplete, RecordSale, ConfirmAllocations
    <3> QED
      <4>1. Move(r, "sold")
        BY <1>1, <1>7, <2>1, <3>1 DEF Move
      <4> QED
        BY <4>1, CountersMove DEF ClaimState, StockStep
  <2>5. ClaimMatchesRow'
    BY <1>4, <1>5, <2>2 DEF StockInv, ClaimMatchesRow
  <2>6. NothingTakenYet'
    BY <1>1, <1>2, <1>3, <1>5 DEF StockInv, NothingTakenYet
  <2>7. CompletionReadTheRows'
    BY <1>3, <1>4 DEF StockInv, CompletionReadTheRows
  <2>8. SoldUnitsOnASale'
    <3>1. /\ sale'[q].status # "NONE"
          /\ sale'[q].from = r
          /\ sale'[q].rows = rsv'[r].rows
      BY <1>1, <1>3, <1>4
    <3>2. ASSUME NEW x \in Request, claim'[x] = "sold", x # r
          PROVE  \E y \in Request : /\ sale'[y].status # "NONE"
                                    /\ sale'[y].from = x
                                    /\ sale'[y].rows = rsv'[x].rows
      BY <1>1, <1>3, <1>4, <1>5, <3>2 DEF StockInv, SoldUnitsOnASale
    <3> QED
      BY <3>1, <3>2 DEF SoldUnitsOnASale
  <2> QED
    BY <2>4, <2>5, <2>6, <2>7, <2>8 DEF StockInv, Counters
<1>9. CASE rsv[r].status # "ACTIVE"
  <2>1. UNCHANGED <<remaining, reserved, claim>>
    BY <1>9
  <2>2. Counters' /\ StockStep
    BY <1>7, <2>1, CountersStay DEF Stay, StockStep
  <2>3. ClaimMatchesRow'
    BY <1>2, <1>4, <1>9, <2>1 DEF StockInv, ClaimMatchesRow
  <2>4. NothingTakenYet'
    BY <1>3, <2>1 DEF StockInv, NothingTakenYet
  <2>5. CompletionReadTheRows'
    BY <1>3, <1>4 DEF StockInv, CompletionReadTheRows
  <2>6. SoldUnitsOnASale'
    BY <1>1, <1>3, <1>4, <2>1 DEF StockInv, SoldUnitsOnASale
  <2> QED
    BY <2>2, <2>3, <2>4, <2>5, <2>6 DEF StockInv, Counters
<1> QED
  BY <1>8, <1>9

\* cancelReservation, by a user or by the cleanup: a held claim is released.
LEMMA CancelReservationStep ==
  ASSUME StockInv, TypeOK', NEW r \in Request, CancelReservation(r),
         UNCHANGED <<sale, req>>
  PROVE  StockInv' /\ StockStep
<1> USE DEF CancelReservation, stock
<1>1. /\ rsv'[r].status = "CANCELLED"
      /\ \A x \in Request : rsv'[x].rows = rsv[x].rows
      /\ \A x \in Request : x # r => rsv'[x] = rsv[x]
      /\ \A x \in Request : x # r => claim'[x] = claim[x]
  BY DEF StockInv, TypeOK, ReservationRow
<1>2. claim[r] \notin {"open", "drawn"}
  BY DEF StockInv, ClaimMatchesRow
<1>3. claim'[r] \notin {"open", "drawn"} /\ (claim'[r] = "sold" => claim[r] = "sold")
  BY <1>2 DEF StockInv, TypeOK
<1>4. \A x \in Request : ClaimRows(x)' = ClaimRows(x)
  BY <1>1, <1>2, <1>3 DEF ClaimRows
<1>5. Counters' /\ StockStep
  <2>1. CASE rsv[r].status = "ACTIVE"
    <3>1. claim[r] = "held" /\ claim' = [claim EXCEPT ![r] = "released"]
      BY <2>1 DEF StockInv, ClaimMatchesRow
    <3>2. ClaimRows(r)' = rsv[r].rows
      BY <1>1, <1>3 DEF ClaimRows
    <3> QED
      <4>1. Move(r, "released")
        BY <1>4, <2>1, <3>1, <3>2 DEF Move
      <4> QED
        BY <4>1, CountersMove DEF ClaimState, StockStep
  <2>2. CASE rsv[r].status # "ACTIVE"
    BY <1>4, <2>2, CountersStay DEF Stay, StockStep
  <2> QED
    BY <2>1, <2>2
<1>6. ClaimMatchesRow'
  <2>1. claim'[r] # "held"
    BY DEF StockInv, TypeOK, ClaimMatchesRow
  <2> QED
    BY <1>1, <1>3, <2>1 DEF StockInv, ClaimMatchesRow
<1>7. NothingTakenYet'
  BY <1>1, <1>2 DEF StockInv, NothingTakenYet
<1>8. CompletionReadTheRows'
  BY <1>1 DEF StockInv, CompletionReadTheRows
<1>9. SoldUnitsOnASale'
  BY <1>1, <1>3 DEF StockInv, SoldUnitsOnASale
<1> QED
  BY <1>5, <1>6, <1>7, <1>8, <1>9 DEF StockInv, Counters

\* Expiry only marks a reservation row.
LEMMA ExpireStep ==
  ASSUME StockInv, TypeOK', NEW r \in Request, Expire(r)
  PROVE  StockInv' /\ StockStep
<1> USE DEF Expire, stock, records, server
<1>1. \A x \in Request : rsv'[x].rows = rsv[x].rows /\ rsv'[x].status = rsv[x].status
  BY DEF StockInv, TypeOK, ReservationRow
<1>2. \A x \in Request : ClaimRows(x)' = ClaimRows(x)
  BY <1>1 DEF ClaimRows
<1>3. Counters' /\ StockStep
  BY <1>2, CountersStay DEF Stay, StockStep
<1> QED
  BY <1>1, <1>3 DEF StockInv, Counters, ClaimMatchesRow, NothingTakenYet,
                    CompletionReadTheRows, SoldUnitsOnASale

\* Initially nothing is claimed.
LEMMA InitStockInv == Init => StockInv
<1> SUFFICES ASSUME Init PROVE StockInv
  OBVIOUS
<1>1. TypeOK
  BY InitTypeOK
<1>2. \A q \in Request : claim[q] = "open" /\ rsv[q].status = "NONE"
                         /\ sale[q].status = "NONE" /\ req[q].pc = "idle"
  BY DEF Init, NoRsv, NoSale, Idle
<1>3. \A st, b : st # "open" => Cardinality(UnitsIn(st, b)) = 0
  <2>1. \A st, b : st # "open" => UnitsIn(st, b) = {}
    BY <1>2 DEF UnitsIn
  <2> QED
    BY <2>1, FS_EmptySet
<1>4. HeldIsReserved /\ StockConserved /\ ReservationsWithinStock
  BY <1>3, BatchAssumption
  DEF Init, HeldIsReserved, StockConserved, ReservationsWithinStock
<1> QED
  BY <1>1, <1>2, <1>4 DEF StockInv, ClaimMatchesRow, NothingTakenYet,
     CompletionReadTheRows, SoldUnitsOnASale

LEMMA NextStockInv == StockInv /\ [Next]_vars => StockInv' /\ StockStep
<1> SUFFICES ASSUME StockInv, [Next]_vars PROVE StockInv' /\ StockStep
  OBVIOUS
<1>0. TypeOK'
  BY NextTypeOK DEF StockInv
<1>1. ASSUME NEW q \in Request, RequestStep(q) PROVE StockInv' /\ StockStep
  <2>1. CASE Cancel(q)
    BY <1>0, <2>1, CancelReservationStep DEF Cancel, records
  <2>2. CASE Expire(q)
    BY <1>0, <2>2, ExpireStep
  <2>3. CASE CommitReservation(q)
    BY <1>0, <2>3, CommitReservationStep
  <2>4. CASE CommitComplete(q)
    BY <1>0, <2>4, CommitCompleteStep
  <2>5. CASE CommitDirect(q)
    BY <1>0, <2>5, CommitDirectStep
  <2> QED
    BY <1>0, <1>1, <2>1, <2>2, <2>3, <2>4, <2>5, RequestLocalStep DEF RequestStep
<1>2. ASSUME NEW c \in Cleaner, CleanerStep(c) PROVE StockInv' /\ StockStep
  <2>1. CASE CleanupCancel(c)
    BY <1>0, <2>1, CancelReservationStep DEF CleanupCancel, records
  <2>2. CASE CleanupRead(c) \/ CleanupFail(c)
    BY <1>0, <2>2, LocalStep DEF CleanupRead, CleanupFail, records, StockInv,
       CompletionReadTheRows
  <2> QED
    BY <1>2, <2>1, <2>2 DEF CleanerStep
<1>3. CASE Browse
  BY <1>0, <1>3, LocalStep DEF Browse, records, StockInv, CompletionReadTheRows
<1>4. CASE Crash
  <2>1. \A x \in Request : req'[x] = req[x] \/ req'[x].pc = "done"
    BY <1>4 DEF Crash, StockInv, TypeOK, LocalState
  <2> QED
    BY <1>0, <1>4, <2>1, LocalStep DEF Crash, records, Uncommitted
<1>5. CASE UNCHANGED vars
  BY <1>0, <1>5, LocalStep DEF vars, stock
<1> QED
  BY <1>1, <1>2, <1>3, <1>4, <1>5 DEF Next

LEMMA StockInvariant == Spec => []StockInv
BY InitStockInv, NextStockInv, PTL DEF Spec

-----------------------------------------------------------------------------
(* What follows from it *)

\* reservedQuantity counts exactly the units of the ACTIVE reservations.
THEOREM ReservedCorrect == Spec => []ReservedIsHeld
<1>1. StockInv => ReservedIsHeld
  <2> SUFFICES ASSUME StockInv, NEW b \in Batch
               PROVE  {x \in Request \X Slot :
                          /\ rsv[x[1]].status = "ACTIVE"
                          /\ x[2] \in RowUnits(rsv[x[1]].rows, b)}
                        = UnitsIn("held", b)
    BY DEF ReservedIsHeld, StockInv, HeldIsReserved
  <2> QED
    BY DEF StockInv, ClaimMatchesRow, UnitsIn, ClaimRows
<1> QED
  BY <1>1, StockInvariant, PTL

\* No unit of stock is lost or invented.
THEOREM StockIsConserved == Spec => []StockConserved
<1>1. StockInv => StockConserved
  BY DEF StockInv
<1> QED
  BY <1>1, StockInvariant, PTL

\* The units held and sold by reservations fit in the stock of their batch.
THEOREM NoOversellByReservations == Spec => []ReservationsWithinStock
<1>1. StockInv => ReservationsWithinStock
  BY DEF StockInv
<1> QED
  BY <1>1, StockInvariant, PTL

\* Units sold by a reservation are on the sale that was made from it.
THEOREM SoldUnitsAreOnASale == Spec => []SoldUnitsOnASale
<1>1. StockInv => SoldUnitsOnASale
  BY DEF StockInv
<1> QED
  BY <1>1, StockInvariant, PTL

-----------------------------------------------------------------------------
(* The handlers implement the stock ledger *)

\* No rows take no units.
LEMMA NoRowsNoDemand == Demand(<<>>) = Ledger!Nothing
<1>1. \A b : RowUnits(<<>>, b) = {}
  BY DEF RowUnits, Slot
<1> QED
  BY <1>1, FS_EmptySet DEF Demand, Ledger!Nothing

LEMMA LedgerInit == Init => Ledger!Init
<1> SUFFICES ASSUME Init PROVE Ledger!Init
  OBVIOUS
<1>1. \A q \in Request : claim[q] = "open" /\ ClaimRows(q) = <<>>
  BY DEF Init, ClaimRows, NoRsv
<1> QED
  BY <1>1, NoRowsNoDemand DEF Init, Ledger!Init, Ledger!Nothing

\* A move is the ledger action of the same name, and a step that stays put is
\* a stuttering step of the ledger.
LEMMA LedgerStep ==
  ASSUME StockInv, StockStep
  PROVE  [Ledger!Next]_(Ledger!ledger)
<1> DEFINE A(q) == [state |-> claim[q], amount |-> Demand(ClaimRows(q))]
           entries == [q \in Request |-> A(q)]
<1>1. CASE Stay
  BY <1>1 DEF Stay, Ledger!ledger
<1>2. ASSUME NEW q \in Request, NEW to \in ClaimState, Move(q, to)
      PROVE  Ledger!Next
  <2> DEFINE d == Demand(ClaimRows(q)')
  <2>1. d \in [Batch -> Nat]
    <3>1. \A rows : Demand(rows) \in [Batch -> Nat]
      BY DemandType
    <3> QED
      BY <3>1
  <2>2. claim'[q] = to /\ \A x \in Request : x # q => claim'[x] = claim[x]
    BY <1>2 DEF Move, StockInv, TypeOK
  <2>3. entries' = [entries EXCEPT ![q] = [state |-> to, amount |-> d]]
    BY <1>2, <2>2 DEF Move
  <2>4. entries[q].state = claim[q]
    OBVIOUS
  <2>5. claim[q] # "open" => entries[q].amount = d
    BY <1>2 DEF Move
  <2>6. claim[q] # "open" =>
          entries' = [entries EXCEPT ![q].state = to]
    BY <2>3, <2>5
  <2> PICK e \in [Batch -> Nat] : e = d
    BY <2>1
  <2>0. entries'[q] = [state |-> to, amount |-> e]
    BY <2>3
  <2> HIDE DEF d, entries
  <2>7. CASE /\ claim[q] = "open" /\ to = "held"
             /\ \A b \in Batch : d[b] > 0 => d[b] <= remaining[b]
             /\ remaining' = Minus(remaining, d)
             /\ reserved' = Plus(reserved, d)
    <3>1. Ledger!Hold(q)
      BY <2>3, <2>4, <2>7, <2>0 DEF Ledger!Hold, Ledger!Enter, Minus, Plus, entries
    <3> QED
      BY <3>1 DEF Ledger!Next
  <2>8. CASE /\ claim[q] = "held" /\ to = "sold"
             /\ remaining' = remaining
             /\ reserved' = Minus(reserved, d)
    <3>1. Ledger!Sell(q)
      BY <2>4, <2>5, <2>6, <2>8 DEF Ledger!Sell, Minus, entries
    <3> QED
      BY <3>1 DEF Ledger!Next
  <2>9. CASE /\ claim[q] = "held" /\ to = "released"
             /\ remaining' = Plus(remaining, d)
             /\ reserved' = Minus(reserved, d)
    <3>1. Ledger!Release(q)
      BY <2>4, <2>5, <2>6, <2>9 DEF Ledger!Release, Minus, Plus, entries
    <3> QED
      BY <3>1 DEF Ledger!Next
  <2>10. CASE /\ claim[q] = "open" /\ to = "drawn"
              /\ remaining' = Minus(remaining, d)
              /\ reserved' = reserved
    <3>1. Ledger!Draw(q)
      BY <2>3, <2>4, <2>10, <2>0 DEF Ledger!Draw, Ledger!Enter, Minus, entries
    <3> QED
      BY <3>1 DEF Ledger!Next
  <2> QED
    BY <1>2, <2>7, <2>8, <2>9, <2>10 DEF Move, d
<1> QED
  BY <1>1, <1>2 DEF StockStep

\* Every behaviour of the handlers is a behaviour of the stock ledger.
THEOREM LedgerRefined == Spec => LedgerSpec
<1>1. StockInv /\ [Next]_vars => [Ledger!Next]_(Ledger!ledger)
  BY NextStockInv, LedgerStep
<1> QED
  BY <1>1, LedgerInit, StockInvariant, PTL DEF Spec, LedgerSpec, Ledger!Spec
=============================================================================
