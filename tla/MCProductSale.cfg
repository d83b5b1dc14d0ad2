\* One sale, two payments and three callbacks, a failing or restarted server.
SPECIFICATION Spec
CONSTANTS
  older = older
  newer = newer
  Batch = {older, newer}
  InventoryOf <- ItemOf
  CreatedAt <- Age1
  MaxQuantity = 3
  Stock <- Units
  Sale = {s1}
  NoSale = NoSale
  Payment = {p1, p2}
  Job = {j1, j2, j3}
  NoJob = NoJob
  Modes = {"ONE_OFF", "INSTALLMENT"}
  Orders <- ThreeUnits
  Price = 2
  StartingPrice = 1
  MaxAttempts = 2
  MaxFaults = 1
SYMMETRY RowSymmetry
INVARIANTS
  TypeOK
  StatusTellsPaid
  CancelledIsRestored
PROPERTIES
  PromiseSpec
