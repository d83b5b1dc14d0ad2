\* A timer that lives on releases every expired reservation.
SPECIFICATION FairSpec
CONSTANTS
  older = older
  newer = newer
  Batch = {older, newer}
  InventoryOf <- ItemOf
  CreatedAt <- Age
  Stock <- Units
  Request = {q1, q2}
  ReserveOrders <- OneOrTwoUnits
  DirectOrders <- NoOrders
  PaymentTypes <- CashOnly
  Receipts = {}
  NoReceipt = NoReceipt
  NoRequest = NoRequest
  Cleaner = {1, 2}
  MaxQuantity = 2
  MaxItems = 1
  MaxCrashes = 1
PROPERTIES
  LiveTimerReleases
