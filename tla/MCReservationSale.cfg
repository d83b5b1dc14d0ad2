\* A completion behind another completion or a cancellation.
SPECIFICATION Spec
CONSTANTS
  older = older
  newer = newer
  Batch = {older, newer}
  InventoryOf <- ItemOf
  CreatedAt <- Age
  Stock <- Units
  Request = {q1, q2, q3}
  ReserveOrders <- OneOrTwoUnits
  DirectOrders <- NoOrders
  PaymentTypes <- CashOnly
  Receipts = {}
  NoReceipt = NoReceipt
  NoRequest = NoRequest
  Cleaner = {1}
  MaxQuantity = 2
  MaxItems = 1
  MaxCrashes = 0
SYMMETRY RequestSymmetry
INVARIANTS
  SaleOwnsReservedUnits
