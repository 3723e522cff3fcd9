SPECIFICATION Spec
CONSTANTS
  MEMSTART = 256
  MEMSIZE = 20
  Sizes = {2, 6, 10}
  UserBytes = {}
  Junk = {0}
  Liberties = {"stale"}
INVARIANTS
  HeadIsFirstFree
