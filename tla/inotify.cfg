CONSTANTS
  Dir <- Tree
  InitDirs <- OnlyR
  Hosts <- HostsOfAllKinds
  MaxWd = 14
SPECIFICATION FairSpec
INVARIANTS TypeOK Coverage EveryWatchCounted NoOrphanWatch
PROPERTIES ReaderReturns CloseEndsStream
CHECK_DEADLOCK FALSE
