SPECIFICATION Spec
CONSTANTS
  a = a
  b = b
  m1 = m1
  m2 = m2
  c1 = c1
  r1 = r1
  e1 = e1
  Id = {a, b}
  Component = {c1}
  VersionRange = {r1}
  Ecosystem = {e1}
  Meta = {m1, m2}
  Empty = Empty
  Worker = {w1, w2}
  Main = Main
  None = None
  Commands <- SomeCommands
  LegacyOrder <- TwoIds
  Legacy <- SomeLegacy
  FilesPerRange = 1
  WalkOrder <- Lexical
  MaxCommands = 3
  MaxFails = 0
  MaxCrashes = 0
SYMMETRY Symmetry
INVARIANT
  NoneOnlyOfNone
