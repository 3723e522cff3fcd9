SPECIFICATION Spec
CONSTANTS
  BUF = 256
  BUFEND = 269
  Kind <- MCKind
  Blank = 0
  Open = 255
  Files <- MCFiles
  Slow <- SlowFiles
  Rate <- MCRate
  SIZE = 3
  Programs <- MCPrograms
  MaxFaults = 1
  Change <- MCChange
  Sessions <- MCSessions
INVARIANTS
  TypeOK
  NoComplaintIsRunning
  ComplaintsAreFaults
  AnswersMatch
  LoadedAsShown
  OneAnswerPerLine
PROPERTIES
  NoWriteIsIgnored
  ProgramStarts
  UploadEnds
CHECK_DEADLOCK FALSE
