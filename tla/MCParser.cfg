CONSTANTS
  Sources <- AnyOrNearlySound
  MaxNesting = 3
  MaxParens = 2
SPECIFICATION FairSpec
INVARIANTS
  DeclarationContexts
  AcceptsExactlyGrammar
PROPERTIES
  NeverPanics
  ProgressUnlessLeaked
