CONSTANTS
  CDC_IN_FRAME_INTERVAL = 1
  RX_SIZE = 8
  OUT_PKT = 2
  WORD = 2
  MaxBytes = 14
  MaxRead = 3
  JUNK <- MCJunk
SPECIFICATION FairSpec
INVARIANTS
  TypeOK
  WindowOK
  OutContent
  ReadComplete
PROPERTIES
  StableUnderCopy
  ImplementsStream
  Resumes
