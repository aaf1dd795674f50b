SPECIFICATION Spec
CONSTANTS
  Jobs = {j1}
  Workers = {w1, w2}
  MaxAttempts = 2
  Limit = 1
  MaxFaults = 1
INVARIANT NoDoubleDelivery
