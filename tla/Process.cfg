SPECIFICATION FairSpec
CONSTANTS
  w = w
  m = m
  Workers <- OneWorker
  Helper = m
  Hashers <- BothHashers
  Items = 5
  InitThreads = 4
  Requests <- SomeRequests
  MaxSignals = 2
INVARIANTS
  HashMemoryLive
  LiveMiner
  TerminalRestored
  LadderOutcome
  DatasetWhole
PROPERTIES
  ProcessEnds
CHECK_DEADLOCK FALSE
