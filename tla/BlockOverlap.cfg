SPECIFICATION Spec
CONSTANTS
  BlockCount = 5
  BitsPerBlock = 2
  Sizes = {1, 2}
  CounterRange = 8
  MaxNull = 2
  MaxHolders = 2
CHECK_DEADLOCK FALSE
INVARIANTS
  TypeOK
  NoDoubleAllocation
