SPECIFICATION FairSpec
CONSTANT MaxDrops = 4
INVARIANTS
  EventInv
PROPERTIES
  StreamRecovers
  StopEnds
CHECK_DEADLOCK FALSE
