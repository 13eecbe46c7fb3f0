SPECIFICATION Spec
CONSTANTS
  Empty = Empty
  None = None
  Ecosystem = {"npm"}
  Meta = {"text"}
  Component <- MCComponent
  VersionRange <- MCVersionRange
  Feed <- MCFeed
  Manual <- MCManual
  Inventory <- MCInventory
  Id = {1, 2}
  MaxWrites = 2
INVARIANTS
  TypeOK
  MatchesJustified
  NothingMissed
  AdvisoryHolds
