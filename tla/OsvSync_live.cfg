SPECIFICATION FairSpec
CONSTANTS
  go = go
  maven = maven
  Ecosystems <- GoMaven
  Record = {r1}
  BatchSize = 0
  MaxTime = 2
  MaxCrashes = 1
INVARIANTS
  CursorCovers
PROPERTIES
  EventuallyImported
