\* Jobs end and unpaid sales are settled.
SPECIFICATION FairSpec
CONSTANTS
  older = older
  newer = newer
  Batch = {older, newer}
  InventoryOf <- ItemOf
  CreatedAt <- Age1
  MaxQuantity = 3
  Stock <- Units
  Sale = {s1, s2}
  NoSale = NoSale
  Payment = {p1}
  Job = {j1, j2}
  NoJob = NoJob
  Modes = {"ONE_OFF"}
  Orders <- OneUnit
  Price = 2
  StartingPrice = 1
  MaxAttempts = 2
  MaxFaults = 1
PROPERTIES
  UnpaidSettles
  JobsEnd
