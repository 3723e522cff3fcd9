SPECIFICATION Spec
CONSTANTS
  Text <- MCText
  Programs <- MCPrograms
  E_LIMIT = 3
INVARIANTS
  TypeOK
  RecordsHoldTheBytes
  MarksInStep
  InPhase
  SaysWhatItMeans
CHECK_DEADLOCK FALSE
