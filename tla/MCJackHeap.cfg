CONSTANTS
  HeapBase = 2
  TotalWords = 8
  RamSize = 16
  Requests = {1, 2, 3, 7, 8}
  UserWords = {0, 3}
  MaxLive = 3
SPECIFICATION FairSpec
INVARIANTS
  HeapTiled
PROPERTIES
  IsAllocator
  KeepsContents
  AllocReturns
