\* Three requests of any kind, a cleanup run and a restart.
SPECIFICATION Spec
CONSTANTS
  older = older
  newer = newer
  Batch = {older, newer}
  InventoryOf <- ItemOf
  CreatedAt <- Age
  Stock <- Units
  Request = {q1, q2, q3}
  ReserveOrders <- OneItemOrTwo
  DirectOrders <- TwoUnits
  PaymentTypes <- CashOrSystem
  Receipts = {"R1"}
  NoReceipt = NoReceipt
  NoRequest = NoRequest
  Cleaner = {1}
  MaxQuantity = 2
  MaxItems = 2
  MaxCrashes = 1
SYMMETRY RequestSymmetry
INVARIANTS
  TypeOK
  ReservedIsHeld
  StockConserved
  ReservationsWithinStock
  SoldUnitsOnASale
PROPERTIES
  LedgerSpec
