SPECIFICATION Spec
CONSTANTS
  Publishers = {p1}
  Subs = {u1, u2}
  BufSizes <- OnePlaceEach
  MaxEvents = 1
  NoEvent = NoEvent
INVARIANT OfferedToAll
