CONSTANTS
  TX_SIZE = 6
  IN_PKT = 2
  MaxBytes = 8
  MaxSessions = 3
  BLANK <- MCBlank
SPECIFICATION FairSpec
INVARIANTS
  PacketAgrees
  TransfersClosed
  WriteComplete
PROPERTIES
  OnlySpoiltLost
  ImplementsStream
  Drains
CHECK_DEADLOCK FALSE
