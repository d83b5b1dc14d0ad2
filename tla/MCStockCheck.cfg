\* Every order of one or two products over every small stock.
SPECIFICATION CheckSpec
CONSTANTS
  older = older
  newer = newer
  cells = cells
  Batch = {older, newer, cells}
  InventoryOf <- ItemOf
  CreatedAt <- AgeOf
  MaxQuantity = 4
  Product = {"kit", "lamp", "fan"}
  Recipe <- Recipes
  Carts <- UpToTwoLines
  Shelves <- UpToThreeUnits
  NoPart = NoPart
CHECK_DEADLOCK FALSE
INVARIANTS
  CheckTypeOK
  CheckedIsTakeable
  TakenIsFifo
  SingleOrderExact
