CONSTANTS
  RX_SIZE = 3
  OUT_PKT = 2
  MaxBytes = 4
  MaxRequests = 2
  MaxBreak = 2
  MaxSessions = 2
  JUNK <- MCJunk
SPECIFICATION FairSpec
INVARIANTS
  TypeOK
  PacketNoted
  NotOvertaken
  OnlyBreaksLost
  ReadUnspoilt
PROPERTIES
  ImplementsStream
  Delivered
  Notified
CHECK_DEADLOCK FALSE
