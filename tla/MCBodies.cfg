CONSTANTS
  Names = {"this", "s", "f", "h", "x", "a", "y", "o", "t", "run", "two", "nowhere"}
  This = "this"
  Programs <- MCPrograms
  Library <- MCLibrary
  W = 8
  StaticBase = 10
  TempBase = 12
  Areas <- MCAreas
  Answer <- MCAnswer
  Arguments <- MCArguments
  Pointers <- MCPointers
  Junk = {0, 5}
  MaxSteps = 90
SPECIFICATION Spec
INVARIANTS
  AcceptsExactlyWellFormed
  AcceptedIsEmitted
  JumpsStayInside
  NeverStuck
  SameEffects
  OnlyDoResultsLeft
