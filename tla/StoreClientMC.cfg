SPECIFICATION Spec
CONSTANTS
  c1 = c1
  c2 = c2
  Clients <- TwoClients
  None = None
  PageSize = 2
  HdrSize = 1
  ReplyHdrSize = 1
  MaxLen = 4
  MaxRead = 2
  ReadAheadGap = 2
  MaxInMemObjSize = 2
  MaxObjectSize = 3
  MinObjectSize = 2
  ContentLengths <- Announced
  StoreMaxObjSize <- NoMaxSize
  DiskFails = TRUE
  ServerMayFail = TRUE
  EarlyClose = TRUE
  QuickAborts = TRUE
  Pipelines = TRUE
  Purges = TRUE
SYMMETRY Symmetry
INVARIANTS
  TypeOK
  NoAssertFails
  MemClientCovered
  WriterPageKept
  LockAccounting
  UnlockedIsServable
  SwapFileIsWhole
  NoFalseEOF
