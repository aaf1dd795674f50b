SPECIFICATION FairSpec
CONSTANTS
  Submitters = {s1, s2}
  Workers = {w1, w2}
  QueueSizes = {0, 1}
  MaxJobs = 2
INVARIANTS AcceptedRunsOnce StopDrains StatsAddUp
PROPERTY CallsReturn
