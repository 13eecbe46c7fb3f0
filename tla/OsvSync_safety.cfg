SPECIFICATION Spec
CONSTANTS
  go = go
  maven = maven
  Ecosystems <- JustGo
  Record = {r1, r2}
  BatchSize = 0
  MaxTime = 4
  MaxCrashes = 1
SYMMETRY Symmetry
INVARIANTS
  TypeOK
  CursorCovers
