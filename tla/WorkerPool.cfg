SPECIFICATION FairSpec
CONSTANTS
  Workers = {w1, w2}
  Jobs = {j1}
  NoSolution = NoSolution
  CheckInterval = 2
  MaxRounds = 2
INVARIANTS
  WorkersShareTheRound
PROPERTIES
  ImplementsRound
  RoundEnds
  StopEnds
