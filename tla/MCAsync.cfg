SPECIFICATION AsyncSpec
CONSTANTS
  Publishers = {p1}
  Subs = {u1, u2}
  BufSizes <- Capacities
  u1 = u1
  MaxEvents = 2
  NoEvent = NoEvent
  f1 = f1
  f2 = f2
  None = None
  Callers = {p1, p2, p3}
INVARIANTS
  InOrder SentIsHandled QuietAfterUnsubscribe
  OutcomesExplained StreamFaithful ProcessSound GatesHold TimersHold
PROPERTY AllEnd
CHECK_DEADLOCK FALSE
