\* Direct sales beside reservations.
SPECIFICATION Spec
CONSTANTS
  older = older
  newer = newer
  Batch = {older, newer}
  InventoryOf <- ItemOf
  CreatedAt <- Age
  Stock <- Units
  Request = {q1, q2}
  ReserveOrders <- OneOrTwoUnits
  DirectOrders <- TwoUnits
  PaymentTypes <- CashOnly
  Receipts = {}
  NoReceipt = NoReceipt
  NoRequest = NoRequest
  Cleaner = {1}
  MaxQuantity = 2
  MaxItems = 1
  MaxCrashes = 0
SYMMETRY RequestSymmetry
INVARIANTS
  RemainingNotNegative
