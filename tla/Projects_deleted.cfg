SPECIFICATION Spec
CONSTANTS
  ProjectID = {p1}
  Component = {c1, c2}
  Version = {v1, v2}
  Text = {t1}
  Empty = Empty
  c1 = c1
  c2 = c2
  v1 = v1
  v2 = v2
  Worker = {w1, w2}
  Imports <- SomeImports
  MaxBatch = 2
  MaxLog = 2
  MaxCrashes = 0
SYMMETRY Symmetry
INVARIANT DeletedHidden
