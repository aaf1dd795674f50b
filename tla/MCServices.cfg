SPECIFICATION ServicesSpec
CONSTANTS
  Writers = {w1, w2}
  Replayers = {r1, r2}
  Streams = {s1}
  Expectations <- ExpectAll
  MaxBatch = 2
  MaxCalls = 2
  NoCall = NoCall
  NoSnapshot = NoSnapshot
  j1 = j1
  j2 = j2
  k1 = k1
  k2 = k2
  k3 = k3
  c1 = c1
  c2 = c2
  w1 = w1
  w2 = w2
INVARIANTS
  SnapshotSound SagaAccounts SchedulerSound CacheFaithful RateHeld RetrySound ScanSound OrdersKept
PROPERTIES ImplementsEventLog RebuildsExactly AllEnd
CHECK_DEADLOCK FALSE
