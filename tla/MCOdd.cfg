SPECIFICATION Spec
CONSTANTS
  MEMSTART = 256
  MEMSIZE = 64
  Sizes = {4, 6}
  UserBytes = {}
INVARIANTS
  HeadersKept
