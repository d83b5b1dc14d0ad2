\* A reservation expires after a restart that no request follows.
SPECIFICATION FairSpec
CONSTANTS
  older = older
  newer = newer
  Batch = {older, newer}
  InventoryOf <- ItemOf
  CreatedAt <- Age
  Stock <- Units
  Request = {q1}
  ReserveOrders <- OneOrTwoUnits
  DirectOrders <- NoOrders
  PaymentTypes <- CashOnly
  Receipts = {}
  NoReceipt = NoReceipt
  NoRequest = NoRequest
  Cleaner = {1}
  MaxQuantity = 2
  MaxItems = 1
  MaxCrashes = 1
PROPERTIES
  ExpiredReleased
