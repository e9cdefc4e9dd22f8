SPECIFICATION Spec
CONSTANTS
  BlockCount = 24
  NumUser = 2
  Main = main
  Workers = {w1, w2}
  ImagePages = 2
  StackPages = 2
  PagesPerTable = 4
  ImageBase = 0
  HeapBase = 4
  StackTop = 12
  HeapRequests = {2}
  Template = template
  NotPresent = absent
SYMMETRY WorkerSymmetry
INVARIANTS
  TypeOK
  BlocksAreAccounted
  PagesAreOwn
  StaleOnlyInDeadStacks
  TablesOutliveUse
CHECK_DEADLOCK FALSE
