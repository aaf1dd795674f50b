SPECIFICATION FairSpec
CONSTANTS
  Callers = {c1, c2}
  FailureThreshold = 2
  SuccessThreshold = 2
  OpenTimeout = 2
  MaxFaults = 4
INVARIANTS CountersAreRuns QuarantineServed NotificationsBalance
PROPERTIES TransitionsJustified Recovers
