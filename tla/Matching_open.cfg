SPECIFICATION Spec
CONSTANTS
  Empty = Empty
  None = None
  Ecosystem = {"npm"}
  Meta = {"text"}
  Component <- MCComponent
  VersionRange <- MCVersionRange
  Feed <- MCFeed
  Manual <- MCManual
  Inventory <- MCInventory
  Id = {1}
  MaxWrites = 1
INVARIANTS
  OpenEndedHolds
