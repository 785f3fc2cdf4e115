CONSTANTS
  CDC_IN_FRAME_INTERVAL = 1
  RX_SIZE = 4
  OUT_PKT = 2
  WORD = 2
  TX_SIZE = 4
  IN_PKT = 2
  MaxBytes = 9
  JUNK <- MCJunk
  BLANK <- MCBlank
SPECIFICATION FairSpec
INVARIANTS
  EchoOK
PROPERTIES
  ImplementsFairStream
