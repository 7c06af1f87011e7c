CONSTANTS
  StartSize = 2
  Alignment = 4
  Requests = {0, 1, 2, 3, 5, 9, 17}
  MaxBlocks = 3
  MaxRegions = 6
SPECIFICATION FairSpec
INVARIANTS
  InBounds
PROPERTIES
  IsAllocator
  Answered
