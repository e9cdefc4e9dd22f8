SPECIFICATION Spec
CONSTANTS
  NumUser = 2
  Main = main
  Workers = {w1, w2}
  Readers = {main, w1, w2}
  ReadSizes = {1, 2}
  MaxLine = 1
SYMMETRY WorkerSymmetry
CHECK_DEADLOCK FALSE
INVARIANTS
  TypeOK
  KernelKeepsRunning
  CurrentThreadRuns
  BlockedUntilRead
  LineBelongsToRead

