SPECIFICATION FairSpec
CONSTANTS
  c1 = c1
  c2 = c2
  Clients <- TwoClients
  None = None
  PageSize = 2
  HdrSize = 1
  ReplyHdrSize = 1
  MaxLen = 4
  MaxRead = 2
  ReadAheadGap = 2
  MaxInMemObjSize = 1
  MaxObjectSize = 8
  MinObjectSize = 0
  ContentLengths <- Unannounced
  StoreMaxObjSize <- NoMaxSize
  DiskFails = FALSE
  ServerMayFail = FALSE
  EarlyClose = FALSE
  QuickAborts = FALSE
  Pipelines = FALSE
  Purges = FALSE
INVARIANTS
  MemClientCovered
PROPERTIES
  ClientAnswered
  DeferResumed
CHECK_DEADLOCK FALSE
