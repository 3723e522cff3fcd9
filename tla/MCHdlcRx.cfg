SPECIFICATION Spec
CONSTANTS
  Byte <- MCByte
  SIZE = 3
  Length = 5
PROPERTIES
  Unescaped
CHECK_DEADLOCK FALSE
