CONSTANTS
  Names = {"this", "x", "y", "z", "a", "run"}
  Programs <- MCPrograms
  This = "this"
  EntryClass = "Main"
  EntrySub = "main"
SPECIFICATION Spec
INVARIANTS
  AcceptedNeverFails
  AcceptsExactlyWellFormed
  NoStaticAliasing
  ResolvesToDeclaration
  SlotInsideFrame
