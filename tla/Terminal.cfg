SPECIFICATION Spec
CONSTANTS
  NumTerminals = 2
  Cols = 2
  Rows = 3
  Char = {a, b}
  a = a
  b = b
  Blank = Blank
  Newline = Newline
  MaxLine = 4
  Background = {1}
SYMMETRY CharSymmetry
INVARIANTS
  TypeOK
  ScreenShowsActive
  CursorIsSound
  EchoShowsLine
CHECK_DEADLOCK FALSE
