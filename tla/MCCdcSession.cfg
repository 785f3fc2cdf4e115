CONSTANTS
  CDC_IN_FRAME_INTERVAL = 0
  RX_SIZE = 7
  OUT_PKT = 3
  WORD = 3
  MaxBytes = 12
  MaxRead = 6
  MaxSessions = 2
  JUNK <- MCJunk
SPECIFICATION SkippingSpec
INVARIANTS SafeButForLongSkips OnlyFirstSpoilt
PROPERTIES SessionResumes
CHECK_DEADLOCK FALSE
