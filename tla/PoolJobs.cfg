SPECIFICATION FairPoolJobsSpec
CONSTANT MaxBlocks = 4
PROPERTIES
  SubmitsNoOldBlock
  NewBlockIsMined
