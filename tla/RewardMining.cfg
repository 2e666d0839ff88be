SPECIFICATION FairSpec
CONSTANTS
  Threads = 2
  Batch = 2
  CheckInterval = 2
  MaxNonce = 5
  NoNonce = NoNonce
INVARIANTS
  ResultSolves
  NoncesCovered
PROPERTIES
  RewardEnds
