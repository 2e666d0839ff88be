SPECIFICATION FairSpec
CONSTANTS
  Workers = {w1}
  JobIds = {a, b}
  NoId = NoId
  MaxJobs = 2
  MaxHits = 2
INVARIANTS
  SubmitsTheActiveJob
  EveryShareOneFate
PROPERTIES
  FormatSettles
  SharesDrain
  NewJobReachesWorkers
  StopEndsUnlessMissed
