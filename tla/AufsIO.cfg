SPECIFICATION FairSpec
CONSTANTS
  MaxHandles = 3
  MaxWrites = 2
CHECK_DEADLOCK FALSE
INVARIANTS
  TypeOK
  NothingCancelled
  CountersExact
  OffsetOnDisk
PROPERTIES
  FreshOpenIsRight
  Promise
  CloseCompletes
