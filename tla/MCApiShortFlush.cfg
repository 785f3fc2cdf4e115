SPECIFICATION Spec
CONSTANTS
  UP_SIZE = 8
  DOWN_SIZE = 8
  APP_SZ = 2
  ECHO_BUF_SZ = 2
  CHUNK_SZ = 2
  SEQ_MAX = 2
  SYS_DESCR <- MCSysDescr
  WORD = 17
  OUTSIDE = {6, 8}
  Requests <- StreamRequests
  FLUSH_LEN = 11
  QUEUE_SIZE = 24
  SN_MOD = 4
  MaxSessions = 2
  MaxRequests = 3
INVARIANTS FlushResyncs
CHECK_DEADLOCK FALSE
