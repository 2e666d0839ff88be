SPECIFICATION FairSpec
CONSTANT MaxHeight = 2
PROPERTIES
  EventsDetectBlocks
