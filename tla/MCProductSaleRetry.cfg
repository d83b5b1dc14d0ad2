\* An attempt that fails after the payment was marked COMPLETED.
SPECIFICATION Spec
CONSTANTS
  older = older
  newer = newer
  Batch = {older, newer}
  InventoryOf <- ItemOf
  CreatedAt <- Age1
  MaxQuantity = 3
  Stock <- Units
  Sale = {s1}
  NoSale = NoSale
  Payment = {p1}
  Job = {j1}
  NoJob = NoJob
  Modes = {"ONE_OFF", "INSTALLMENT"}
  Orders <- ThreeUnits
  Price = 2
  StartingPrice = 1
  MaxAttempts = 2
  MaxFaults = 0
INVARIANTS
  VerifiedIsCredited
