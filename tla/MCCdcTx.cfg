CONSTANTS
  CDC_IN_FRAME_INTERVAL = 1
  TX_SIZE = 6
  IN_PKT = 2
  MaxWrite = 4
  MaxBytes = 13
  BLANK <- MCBlank
SPECIFICATION FairSpec
INVARIANTS
  PacketContent
  TransfersClosed
  PutComplete
PROPERTIES
  ImplementsFairStream
  TransferEnds
