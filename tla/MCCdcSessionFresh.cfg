CONSTANTS
  CDC_IN_FRAME_INTERVAL = 1
  RX_SIZE = 6
  OUT_PKT = 2
  WORD = 2
  MaxBytes = 6
  MaxRead = 2
  MaxSessions = 2
  JUNK <- MCJunk
SPECIFICATION SessionSpec
INVARIANTS FreshSessionOK
