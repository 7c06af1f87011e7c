CONSTANTS
  Functions = {"main", "f"}
  Entry = "main"
  NLocals <- MCNLocals
  CallLines <- MCCallLines
  Statics = {0}
  Temps = {3}
  Heap = {1, 2}
  StaticBase = 0
  TempBase = 3
  Indices = {0, 1}
  Constants = {1}
  Operations = {"eq", "lt"}
  W = 2
  Words <- MCWords
  Programs <- Kinds
  Leftovers = {0, 1}
  CodeBase = 30
  MaxWork = 2
  MaxFrames = 5
SPECIFICATION Spec
INVARIANTS
  FramesContiguous
PROPERTY
  ImplementsVM
CHECK_DEADLOCK FALSE
