SPECIFICATION Spec
CONSTANTS
  E_LIMIT = 4
  Table <- MCTable
  Pseudo <- MCPseudo
  Symbols <- MCSymbols
  Programs <- MCPrograms
INVARIANTS
  StaysInTheBuffer
  FindsTheMnemonic
  DataAsWritten
PROPERTIES
  SplitsTheLine
CHECK_DEADLOCK FALSE
