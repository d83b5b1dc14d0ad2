\* Two products that share an inventory item.
SPECIFICATION CheckSpec
CONSTANTS
  older = older
  newer = newer
  cells = cells
  Batch = {older, newer, cells}
  InventoryOf <- ItemOf
  CreatedAt <- AgeOf
  MaxQuantity = 4
  Product = {"kit", "lamp", "fan"}
  Recipe <- Recipes
  Carts <- UpToTwoLines
  Shelves <- UpToTwoUnits
  NoPart = NoPart
CHECK_DEADLOCK FALSE
INVARIANTS
  CheckedFitsTogether
