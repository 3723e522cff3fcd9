SPECIFICATION FairSpec
CONSTANTS
  SCMD_MAX = 5
  ARGV_MAX = 2
  Keys <- MCKeys
  Table <- MCTable
  Fill <- MCFill
INVARIANTS
  TypeOK
  ZeroAhead
  WordsFound
PROPERTIES
  IsAConsole
  Answered
