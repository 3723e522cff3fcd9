SPECIFICATION Spec
CONSTANTS
  BITS = 3
  ADDRS = 16
  REGS = 4
  AFTER = 6
  Layouts <- MCLayouts
  Wirings <- MCWirings
  Stuck <- MCStuck
INVARIANTS
  PrintedAreStuck
  StuckArePrinted
PROPERTIES
  TestEnds
CHECK_DEADLOCK FALSE
