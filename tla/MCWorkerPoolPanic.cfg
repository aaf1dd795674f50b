SPECIFICATION Spec
CONSTANTS
  Submitters = {s1, s2}
  Workers = {w1}
  QueueSizes = {1}
  MaxJobs = 2
INVARIANT StoppedIsAnError
