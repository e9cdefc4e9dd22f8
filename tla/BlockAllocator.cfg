SPECIFICATION Spec
CONSTANTS
  BlockCount = 7
  BitsPerBlock = 7
  Sizes = {0, 1, 2, 3}
  CounterRange = 8
  MaxNull = 0
  MaxHolders = 2
CHECK_DEADLOCK FALSE
INVARIANTS
  UsedCount
PROPERTIES
  RetryIsComplete
  RefinesPool
