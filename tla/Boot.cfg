SPECIFICATION Spec
CONSTANTS
  NumUser = 2
  Keys = {42, 54, 15, 30}
  Extended = {285, 311}
  Feigning = {311}
  MaxWire = 4
  WordRange = 512
  BlockSize = 8
  BitsPerByte = 4
  LowMemory = 16
  MaxRegions = 5
  HeapBlocks = 8
  TableBlocks = 2
  Junk = Junk
CONSTANTS
  Maps <- MCMaps
  PowerOn <- MCPowerOn
CONSTRAINT KeysWhereItStarts
CHECK_DEADLOCK FALSE
INVARIANTS
  BlocksAreUsable
  StructuresAreApart
  FocusSurvivesBoot
  BootsIntoKernel
  ModifiersFollowKeys
