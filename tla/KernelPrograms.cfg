SPECIFICATION Spec
CONSTANTS
  NumUser = 2
  Main = main
  Workers = {w1, w2}
  Readers = {main}
  ReadSizes = {1, 2}
  MaxLine = 2
CHECK_DEADLOCK FALSE
INVARIANTS
  ReadReturnsFilled
  FocusUntilExit
PROPERTIES
  WokenByOwnTerminal
  NobodyStarves
