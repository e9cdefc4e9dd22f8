SPECIFICATION Spec
CONSTANTS
  Value = {v1, v2, v3, v4}
  Node = {n1, n2, n3, n4}
  SizeRange = 16
  Char = {a, b}
  Newline = newline
  ReadSizes = {1, 2, 3}
  MaxLine = 3
  NULL = NULL
  NUL = NUL
  Junk = Junk
CONSTRAINT OneAtATime
INVARIANTS
  MemoryIsSound
PROPERTIES
  RefinesLists
  RefinesStream
