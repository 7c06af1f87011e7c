CONSTANTS
  MaxDirDepth = 3
  Calls <- SmallCalls
SPECIFICATION FairSpec
INVARIANTS
  OneSourcePerOutput
  WritesOnlySoundPrograms
  OkCompilesWhatWasFound
  TranslatesEveryLine
PROPERTY
  Exits
CHECK_DEADLOCK FALSE
