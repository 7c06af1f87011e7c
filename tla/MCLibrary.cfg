CONSTANTS
  MaxWord = 63
  SqrtBound = 8
  Width = 13
  Height = 12
  MaxRadius = 4
  Shapes <- MCShapes
  MinWord <- MCMinWord
  Columns = 3
  Rows = 2
  Tailed = {103}
  Targets <- MCTargets
  Numbers <- MCNumbers
  Keys <- MCKeys
  MaxStruck = 4
SPECIFICATION Spec
INVARIANTS
  ShapesDrawn
  EchoShowsLine
  SlowTypistIsRead
  NumbersReadBack
PROPERTY
  Settles
CHECK_DEADLOCK FALSE
