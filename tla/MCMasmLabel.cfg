SPECIFICATION Spec
CONSTANTS
  Text <- MCText
  Programs <- Pairs
  E_LIMIT = 3
INVARIANTS
  LabelAlone
CHECK_DEADLOCK FALSE
