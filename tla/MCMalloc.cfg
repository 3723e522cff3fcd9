SPECIFICATION FairSpec
CONSTANTS
  MEMSTART = 256
  MEMSIZE = 20
  Sizes = {2, 6, 10, 18}
  UserBytes = {255}
INVARIANTS
  TypeOK
  FreeListOrdered
  Tiled
  Coalesced
  HeadersKept
  BrowseFinds
PROPERTIES
  IsAHeap
  CallsReturn
