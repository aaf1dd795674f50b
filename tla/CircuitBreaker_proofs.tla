----------------------- MODULE CircuitBreaker_proofs ------------------------
(***************************************************************************)
(* What CircuitBreaker guarantees for every number of callers and every    *)
(* value, zero and negative ones included, of the two thresholds and the   *)
(* timeout.                                                                *)
(***************************************************************************)
EXTENDS CircuitBreaker, TLAPS

\* The inductive invariant.  Beside the invariants of the specification it says
\* that openedAt is the time of the last trip, which QuarantineServed needs.
IInv ==
  /\ TypeOK
  /\ CountersAreRuns
  /\ NoOverdueTransition
  /\ QuarantineServed
  /\ elapsed = sinceTrip

USE BreakerAssumption DEF Closed, Open, HalfOpen, State

\* The initial state of New satisfies the invariant.
LEMMA InitIInv == Init => IInv
  BY DEF Init, IInv, TypeOK, CountersAreRuns, NoOverdueTransition,
         QuarantineServed, Horizon, OkCap

\* transition keeps the table of callback goroutines well typed.
LEMMA TransitionType ==
  ASSUME TypeOK, NEW to \in State, transition(to)
  PROVE  state' = to /\ state' \in State /\ spawned' \in [State \X State -> Nat]
  <1>1. state \in State /\ spawned \in [State \X State -> Nat]
    BY DEF TypeOK
  <1>2. CASE to = state
    BY <1>1, <1>2 DEF transition
  <1>3. CASE to # state
    <2>1. spawned' = [spawned EXCEPT ![<<state, to>>] = @ + 1]
      BY <1>3 DEF transition
    <2>2. <<state, to>> \in State \X State
      BY <1>1
    <2>3. spawned[<<state, to>>] + 1 \in Nat
      BY <1>1, <2>2
    <2> QED
      BY <1>1, <2>1, <2>2, <2>3 DEF transition
  <1> QED
    BY <1>2, <1>3

\* A step that only looks at the timeout (allow, State) keeps the invariant.
LEMMA TimeoutStep ==
  ASSUME IInv, maybeTransitionFromOpen, NoOutcome, UNCHANGED faults,
         pc' \in [Callers -> {"idle", "normal", "probe"}]
  PROVE  IInv'
  <1>1. AfterTimeout \in State
    BY DEF AfterTimeout, IInv, TypeOK
  <1>2. /\ state' = AfterTimeout /\ state' \in State
        /\ spawned' \in [State \X State -> Nat]
    BY <1>1, TransitionType DEF maybeTransitionFromOpen, IInv
  <1>3. TypeOK'
    BY <1>2 DEF IInv, TypeOK, maybeTransitionFromOpen, NoOutcome, Horizon, OkCap
  <1> QED
    BY <1>2, <1>3 DEF IInv, TypeOK, CountersAreRuns, NoOverdueTransition,
       QuarantineServed, maybeTransitionFromOpen, NoOutcome, AfterTimeout, Horizon, OkCap

\* Recording an outcome keeps the invariant, in whatever state it arrives.
LEMMA RecordStep ==
  ASSUME IInv, NEW c \in Callers, NEW ok \in BOOLEAN, record(c, ok)
  PROVE  IInv'
  <1> USE DEF IInv, TypeOK, CountersAreRuns, NoOverdueTransition, QuarantineServed,
              Outcome, AtMost, Horizon, OkCap
  <1>1. /\ pc' \in [Callers -> {"idle", "normal", "probe"}]
        /\ faults' \in 0 .. MaxFaults
    BY DEF record
  <1>2. Outcome(ok) /\ net' = net
    BY DEF record
  <1>3. CASE recordClosed(ok)
    <2>1. CASE ~ok /\ TripsAt(failures')
      <3>1. trip /\ state = Closed /\ failures' = failures + 1 /\ probes' = probes
        BY <1>3, <2>1 DEF recordClosed
      <3>2. state' = Open /\ elapsed' = 0 /\ spawned' \in [State \X State -> Nat]
        BY <3>1, TransitionType DEF trip
      <3> QED
        BY <1>1, <1>2, <2>1, <3>1, <3>2
    <2>2. CASE ~(~ok /\ TripsAt(failures'))
      <3>1. /\ transition(Closed) /\ state = Closed /\ probes' = probes
            /\ elapsed' = elapsed /\ failures' = IF ok THEN 0 ELSE failures + 1
        BY <1>3, <2>2 DEF recordClosed
      <3>2. state' = Closed /\ spawned' \in [State \X State -> Nat]
        BY <3>1, TransitionType
      <3> QED
        BY <1>1, <1>2, <2>2, <3>1, <3>2 DEF TripsAt
    <2> QED
      BY <2>1, <2>2
  <1>4. CASE recordHalfOpen(ok)
    <2>1. CASE ~ok
      <3>1. trip /\ state = HalfOpen /\ failures' = 0 /\ probes' = 0
        BY <1>4, <2>1 DEF recordHalfOpen
      <3>2. state' = Open /\ elapsed' = 0 /\ spawned' \in [State \X State -> Nat]
        BY <3>1, TransitionType DEF trip
      <3> QED
        BY <1>1, <1>2, <2>1, <3>1, <3>2
    <2>2. CASE ok /\ ClosesAt(probes + 1)
      <3>1. /\ transition(Closed) /\ state = HalfOpen
            /\ failures' = 0 /\ probes' = 0 /\ elapsed' = elapsed
        BY <1>4, <2>2 DEF recordHalfOpen
      <3>2. state' = Closed /\ spawned' \in [State \X State -> Nat]
        BY <3>1, TransitionType
      <3> QED
        BY <1>1, <1>2, <2>2, <3>1, <3>2
    <2>3. CASE ok /\ ~ClosesAt(probes + 1)
      <3>1. /\ transition(HalfOpen) /\ state = HalfOpen
            /\ failures' = failures /\ probes' = probes + 1 /\ elapsed' = elapsed
        BY <1>4, <2>3 DEF recordHalfOpen
      <3>2. state' = HalfOpen /\ spawned' \in [State \X State -> Nat]
        BY <3>1, TransitionType
      <3> QED
        BY <1>1, <1>2, <2>3, <3>1, <3>2 DEF ClosesAt
    <2> QED
      BY <2>1, <2>2, <2>3
  <1>5. CASE recordOpen
    BY <1>1, <1>2, <1>5 DEF recordOpen, breaker
  <1> QED
    BY <1>3, <1>4, <1>5 DEF record

\* Every step keeps the invariant.
LEMMA NextIInv == IInv /\ [Next]_vars => IInv'
  <1> SUFFICES ASSUME IInv, [Next]_vars PROVE IInv'
    OBVIOUS
  <1> USE DEF breaker, history
  <1>1. ASSUME NEW c \in Callers, allow(c) PROVE IInv'
    <2>1. pc' \in [Callers -> {"idle", "normal", "probe"}]
      BY <1>1 DEF allow, AfterTimeout, IInv, TypeOK
    <2> QED
      BY <1>1, <2>1, TimeoutStep DEF allow
  <1>2. ASSUME NEW c \in Callers, Panic(c) PROVE IInv'
    BY <1>2 DEF Panic, IInv, TypeOK, CountersAreRuns, NoOverdueTransition, QuarantineServed
  <1>3. ASSUME NEW c \in Callers, NEW ok \in BOOLEAN, record(c, ok) PROVE IInv'
    BY <1>3, RecordStep
  <1>4. CASE GetState
    BY <1>4, TimeoutStep DEF GetState, IInv, TypeOK
  <1>5. CASE Reset
    <2>1. state' = Closed /\ spawned' \in [State \X State -> Nat]
      BY <1>5, TransitionType DEF Reset, IInv
    <2> QED
      BY <1>5, <2>1 DEF Reset, IInv, TypeOK, CountersAreRuns, NoOverdueTransition,
         QuarantineServed, OkCap
  <1>6. ASSUME NEW from \in State, NEW to \in State, RunCallback(from, to) PROVE IInv'
    <2>1. spawned' \in [State \X State -> Nat] /\ net' \in [State -> Int]
      BY <1>6 DEF RunCallback, IInv, TypeOK
    <2> QED
      BY <1>6, <2>1 DEF RunCallback, IInv, TypeOK, CountersAreRuns,
         NoOverdueTransition, QuarantineServed
  <1>7. CASE Tick
    BY <1>7 DEF Tick, AtMost, Horizon, IInv, TypeOK, CountersAreRuns,
       NoOverdueTransition, QuarantineServed
  <1>8. CASE UNCHANGED vars
    BY <1>8 DEF vars, IInv, TypeOK, CountersAreRuns, NoOverdueTransition, QuarantineServed
  <1> QED
    BY <1>1, <1>2, <1>3, <1>4, <1>5, <1>6, <1>7, <1>8 DEF Next

\* The inductive invariant holds of every behaviour.
THEOREM Inductive == Spec => []IInv
  BY InitIInv, NextIInv, PTL DEF Spec

\* The fields of the breaker keep their types and ranges.
THEOREM TypeCorrect == Spec => []TypeOK
  <1>1. IInv => TypeOK
    BY DEF IInv
  <1> QED
    BY <1>1, Inductive, PTL

\* failures and probes count what their comments say, whatever interleaves.
THEOREM CountersCorrect == Spec => []CountersAreRuns
  <1>1. IInv => CountersAreRuns
    BY DEF IInv
  <1> QED
    BY <1>1, Inductive, PTL

\* No run of outcomes that must change the state is ever left unanswered.
THEOREM NeverOverdue == Spec => []NoOverdueTransition
  <1>1. IInv => NoOverdueTransition
    BY DEF IInv
  <1> QED
    BY <1>1, Inductive, PTL

\* The breaker probes only after a full timeout since the last trip.
THEOREM ProbesAfterTimeout == Spec => []QuarantineServed
  <1>1. IInv => QuarantineServed
    BY DEF IInv
  <1> QED
    BY <1>1, Inductive, PTL
-----------------------------------------------------------------------------
\* Starting the callback of a transition keeps the balance.
LEMMA TransitionBalance ==
  ASSUME TypeOK, NotificationsBalance, NEW to \in State, transition(to), net' = net
  PROVE  NotificationsBalance'
  <1>1. state \in State /\ spawned \in [State \X State -> Nat] /\ net \in [State -> Int]
    BY DEF TypeOK
  <1>2. CASE to = state
    BY <1>2 DEF transition, NotificationsBalance, InFlight
  <1>3. CASE to # state
    <2>1. \A a, b \in State :
            spawned'[<<a, b>>] = IF a = state /\ b = to THEN spawned[<<a, b>>] + 1
                                                        ELSE spawned[<<a, b>>]
      BY <1>1, <1>3 DEF transition
    <2>2. \A a, b \in State : spawned[<<a, b>>] \in Nat
      BY <1>1
    <2>3. SUFFICES ASSUME NEW s \in State
                   PROVE  net[s] + InFlight(s)' =
                            (IF s = to THEN 1 ELSE 0) - (IF s = Closed THEN 1 ELSE 0)
      BY DEF transition, NotificationsBalance
    <2>4. net[s] + InFlight(s) = (IF s = state THEN 1 ELSE 0) - (IF s = Closed THEN 1 ELSE 0)
      BY DEF NotificationsBalance
    <2>5. InFlight(s)' = InFlight(s) + (IF s = to THEN 1 ELSE 0) - (IF s = state THEN 1 ELSE 0)
      <3> DEFINE D(a, b) == IF a = state /\ b = to THEN 1 ELSE 0
      <3>1. \A a, b \in State : spawned'[<<a, b>>] = spawned[<<a, b>>] + D(a, b)
        BY <2>1, <2>2
      <3>2. /\ D(Closed, s) + D(Open, s) + D(HalfOpen, s) = IF s = to THEN 1 ELSE 0
            /\ D(s, Closed) + D(s, Open) + D(s, HalfOpen) = IF s = state THEN 1 ELSE 0
        BY <1>1
      <3>3. \A a, b \in State : D(a, b) \in Int
        OBVIOUS
      <3> HIDE DEF D
      <3>4. /\ spawned'[<<Closed, s>>] = spawned[<<Closed, s>>] + D(Closed, s)
            /\ spawned'[<<Open, s>>] = spawned[<<Open, s>>] + D(Open, s)
            /\ spawned'[<<HalfOpen, s>>] = spawned[<<HalfOpen, s>>] + D(HalfOpen, s)
            /\ spawned'[<<s, Closed>>] = spawned[<<s, Closed>>] + D(s, Closed)
            /\ spawned'[<<s, Open>>] = spawned[<<s, Open>>] + D(s, Open)
            /\ spawned'[<<s, HalfOpen>>] = spawned[<<s, HalfOpen>>] + D(s, HalfOpen)
        BY <3>1
      <3>5. InFlight(s)' = InFlight(s) + (D(Closed, s) + D(Open, s) + D(HalfOpen, s))
                                       - (D(s, Closed) + D(s, Open) + D(s, HalfOpen))
        BY <2>2, <3>3, <3>4 DEF InFlight
      <3> QED
        BY <3>2, <3>5
    <2>6. net[s] \in Int /\ InFlight(s) \in Int
      BY <1>1, <2>2 DEF InFlight
    <2> QED
      BY <1>3, <2>4, <2>5, <2>6
  <1> QED
    BY <1>2, <1>3

\* Running a callback moves it from the ones in flight to the ones counted.
LEMMA CallbackBalance ==
  ASSUME TypeOK, NotificationsBalance, NEW from \in State, NEW to \in State,
         RunCallback(from, to)
  PROVE  NotificationsBalance'
  <1>1. state \in State /\ spawned \in [State \X State -> Nat] /\ net \in [State -> Int]
    BY DEF TypeOK
  <1>2. \A a, b \in State :
          spawned'[<<a, b>>] = IF a = from /\ b = to THEN spawned[<<a, b>>] - 1
                                                     ELSE spawned[<<a, b>>]
    BY <1>1 DEF RunCallback
  <1>3. \A a, b \in State : spawned[<<a, b>>] \in Nat
    BY <1>1
  <1>4. SUFFICES ASSUME NEW s \in State
                 PROVE  net'[s] + InFlight(s)' = net[s] + InFlight(s)
    BY DEF RunCallback, NotificationsBalance, breaker
  <1>5. net'[s] = net[s] + (IF s = to THEN 1 ELSE 0) - (IF s = from THEN 1 ELSE 0)
    BY <1>1 DEF RunCallback
  <1>6. InFlight(s)' = InFlight(s) - (IF s = to THEN 1 ELSE 0) + (IF s = from THEN 1 ELSE 0)
    BY <1>1, <1>2, <1>3 DEF InFlight
  <1>7. net[s] \in Int /\ InFlight(s) \in Int
    BY <1>1, <1>3 DEF InFlight
  <1> QED
    BY <1>5, <1>6, <1>7

\* No callback is lost or invented: the entries and exits that observers have
\* seen or will see add up to the breaker's state.
THEOREM NotificationsAddUp == Spec => []NotificationsBalance
  <1>1. Init => NotificationsBalance
    BY DEF Init, NotificationsBalance, InFlight
  <1>2. IInv /\ NotificationsBalance /\ [Next]_vars => NotificationsBalance'
    <2> SUFFICES ASSUME IInv, NotificationsBalance, [Next]_vars
                 PROVE  NotificationsBalance'
      OBVIOUS
    <2>1. TypeOK
      BY DEF IInv
    <2>2. ASSUME UNCHANGED <<state, spawned, net>> PROVE NotificationsBalance'
      BY <2>2 DEF NotificationsBalance, InFlight
    <2>3. ASSUME maybeTransitionFromOpen, net' = net PROVE NotificationsBalance'
      <3>1. AfterTimeout \in State
        BY <2>1 DEF AfterTimeout, TypeOK
      <3> QED
        BY <2>1, <2>3, <3>1, TransitionBalance DEF maybeTransitionFromOpen
    <2>4. ASSUME NEW c \in Callers, allow(c) PROVE NotificationsBalance'
      BY <2>3, <2>4 DEF allow, NoOutcome
    <2>5. ASSUME NEW c \in Callers, Panic(c) PROVE NotificationsBalance'
      BY <2>2, <2>5 DEF Panic, breaker, history
    <2>6. ASSUME NEW c \in Callers, NEW ok \in BOOLEAN, record(c, ok)
          PROVE  NotificationsBalance'
      <3>1. net' = net
        BY <2>6 DEF record, Outcome
      <3>2. (\E to \in State : transition(to)) \/ UNCHANGED <<state, spawned>>
        BY <2>6 DEF record, recordClosed, recordHalfOpen, recordOpen, trip, breaker
      <3> QED
        BY <2>1, <2>2, <3>1, <3>2, TransitionBalance
    <2>7. CASE GetState
      BY <2>3, <2>7 DEF GetState, NoOutcome
    <2>8. CASE Reset
      BY <2>1, <2>8, TransitionBalance DEF Reset
    <2>9. ASSUME NEW from \in State, NEW to \in State, RunCallback(from, to)
          PROVE  NotificationsBalance'
      BY <2>1, <2>9, CallbackBalance
    <2>10. CASE Tick
      BY <2>2, <2>10 DEF Tick
    <2>11. CASE UNCHANGED vars
      BY <2>2, <2>11 DEF vars, breaker, history
    <2> QED
      BY <2>4, <2>5, <2>6, <2>7, <2>8, <2>9, <2>10, <2>11 DEF Next
  <1> QED
    BY <1>1, <1>2, Inductive, PTL DEF Spec

\* Every change of state has its reason in what really happened.
THEOREM ChangesJustified == Spec => TransitionsJustified
  <1> DEFINE A == /\ state = Closed /\ state' # Closed =>
                       state' = Open /\ failRun + 1 >= FailureThreshold
                  /\ state = Open /\ state' # Open =>
                       (state' = HalfOpen /\ sinceTrip >= OpenTimeout) \/ Reset
                  /\ state = HalfOpen /\ state' = Closed =>
                       okRun + 1 >= SuccessThreshold \/ Reset
  <1>1. IInv /\ [Next]_vars => [A]_state
    <2> SUFFICES ASSUME IInv, Next, state' # state PROVE A
      BY DEF vars, breaker
    <2> USE DEF IInv, TypeOK, CountersAreRuns
    <2>1. ASSUME maybeTransitionFromOpen PROVE A
      BY <2>1 DEF maybeTransitionFromOpen, transition, AfterTimeout
    <2>2. ASSUME NEW c \in Callers, NEW ok \in BOOLEAN, record(c, ok) PROVE A
      <3>1. CASE recordClosed(ok)
        BY <3>1 DEF recordClosed, trip, transition, TripsAt
      <3>2. CASE recordHalfOpen(ok)
        BY <3>2 DEF recordHalfOpen, trip, transition, ClosesAt
      <3>3. CASE recordOpen
        BY <3>3 DEF recordOpen, breaker
      <3> QED
        BY <2>2, <3>1, <3>2, <3>3 DEF record
    <2>3. CASE Reset
      BY <2>3 DEF Reset, transition
    <2> HIDE DEF A
    <2>4. CASE \E c \in Callers : allow(c)
      BY <2>1, <2>4 DEF allow
    <2>5. CASE GetState
      BY <2>1, <2>5 DEF GetState
    <2> QED
      BY <2>2, <2>3, <2>4, <2>5 DEF Next, Panic, RunCallback, Tick, breaker
  <1>2. []IInv /\ [][Next]_vars => [][A]_state
    BY <1>1, PTL
  <1> QED
    BY <1>2, Inductive, PTL DEF Spec, TransitionsJustified
=============================================================================
