SPECIFICATION FairSpec
CONSTANTS
  Events = {e1, e2}
  Poisoned = {e1}
  Relays = {r1}
  BatchSize = 2
  MaxFaults = 0
PROPERTY AcceptableDelivered
