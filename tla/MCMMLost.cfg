SPECIFICATION Spec
CONSTANTS
  MEMSTART = 256
  MEMSIZE = 20
  Sizes = {2, 6, 10, 18}
  UserBytes = {}
  Junk = {0}
  Liberties = {"above"}
INVARIANTS
  FreedIsListed
