SPECIFICATION FairSpec
CONSTANTS
  Events = {e1, e2}
  Poisoned = {}
  Relays = {r1, r2}
  BatchSize = 2
  MaxFaults = 2
INVARIANTS OnlyCommitted MarkedIsDelivered OnceWithoutFaults
PROPERTY RelaysServe
