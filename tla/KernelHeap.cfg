SPECIFICATION Spec
CONSTANTS
  HeapSize = 26
  Counts = {0, 1, 6}
  MaxWrites = 1
INVARIANTS
  TypeOK
  BlocksTileHeap
  NoSpaceIsLost
PROPERTIES
  RefinesRegions
