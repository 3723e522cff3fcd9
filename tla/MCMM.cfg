SPECIFICATION FairSpec
CONSTANTS
  MEMSTART = 256
  MEMSIZE = 20
  Sizes = {2, 6, 10, 18}
  UserBytes = {255}
  Junk = {0}
  Liberties = {"above"}
INVARIANTS
  FreeListOrdered
  Tiled
  Coalesced
  FirstFit
PROPERTIES
  IsAHeap
  CallsReturn
