SPECIFICATION FairJobsSpec
CONSTANTS
  t1 = t1
  t2 = t2
  Txs = {t1, t2}
  Cases <- SomeCases
  PageSize = 1
  MaxPages = 1
  MaxHeight = 2
  MaxDrops = 1
INVARIANTS
  JobsInv
  CacheIsDated
PROPERTIES
  PagesAddUp
  PollsRecover
  WaitingTxMined
CHECK_DEADLOCK FALSE
