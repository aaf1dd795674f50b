SPECIFICATION FairSpec
CONSTANTS
  Jobs = {j1, j2}
  Workers = {w1, w2}
  MaxAttempts = 2
  Limit = 2
  MaxFaults = 1
INVARIANTS OnceWithoutFaults RecordsAreTrue
PROPERTIES SettledIsFinal WorkersServe
