SPECIFICATION Spec
CONSTANTS
  Stream = {s1, s2}
  Event = {e1, e2}
  Worker = {w1, w2}
  None = None
  MaxBatch = 2
  MaxFile = 3
  MaxCrashes = 2
  MaxSyncFails = 1
SYMMETRY Symmetry
INVARIANT VersionsIncrease
