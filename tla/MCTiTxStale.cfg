CONSTANTS
  TX_SIZE = 6
  IN_PKT = 2
  MaxBytes = 6
  MaxSessions = 2
  BLANK <- MCBlank
SPECIFICATION Spec
PROPERTIES
  OnlySentRemoved
CHECK_DEADLOCK FALSE
