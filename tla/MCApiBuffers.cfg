SPECIFICATION FairSpec
CONSTANTS
  UP_SIZE = 8
  DOWN_SIZE = 8
  APP_SZ = 2
  ECHO_BUF_SZ = 2
  CHUNK_SZ = 2
  SEQ_MAX = 2
  SYS_DESCR <- MCSysDescr
  WORD = 17
  OUTSIDE = {8}
  Requests <- BufferRequests
  FLUSH_LEN = 16
  QUEUE_SIZE = 24
  SN_MOD = 4
  MaxSessions = 3
  MaxRequests = 4
INVARIANTS BufferOK SafeUnlessAstray
PROPERTIES OpeningEnds RequestEnds
CHECK_DEADLOCK FALSE
