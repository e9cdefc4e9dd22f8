SPECIFICATION Spec
CONSTANTS
  BlockCount = 4
  BitsPerBlock = 4
  Sizes = {1}
  CounterRange = 8
  MaxNull = 0
  MaxHolders = 2
CHECK_DEADLOCK FALSE
PROPERTY NullMeansNoFreeBlock
