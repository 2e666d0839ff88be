SPECIFICATION FairSpec
CONSTANT MaxDrops = 1
PROPERTIES
  CtrlCEnds
CHECK_DEADLOCK FALSE
