--------------------------- MODULE CircuitBreaker ---------------------------
(***************************************************************************)
(* pkg/circuitbreaker: one Breaker shared by concurrent callers.           *)
(*                                                                         *)
(* Execute is three steps: allow() under the mutex, the caller's function  *)
(* without it, record() under the mutex again.  Steps of other callers,    *)
(* Reset, State and the passing of time interleave between them, so the    *)
(* outcome of a call may be recorded in a later state than the one that    *)
(* admitted it.                                                            *)
(*                                                                         *)
(* Time is kept as the time elapsed since openedAt, which is all the code  *)
(* looks at (time.Since(b.openedAt)); it stops growing at Horizon, where   *)
(* every comparison with OpenTimeout has its final answer.                 *)
(***************************************************************************)
EXTENDS Integers, FiniteSets

CONSTANTS
  Callers,            \* goroutines that call Execute
  FailureThreshold,   \* options.failureThreshold, not validated by New
  SuccessThreshold,   \* options.successThreshold, not validated by New
  OpenTimeout,        \* options.openTimeout in ticks, not validated by New
  MaxFaults           \* bound: calls of fn that fail or panic

ASSUME BreakerAssumption ==
  /\ FailureThreshold \in Int
  /\ SuccessThreshold \in Int
  /\ OpenTimeout \in Int
  /\ MaxFaults \in Nat

VARIABLES
  state, failures, probes,  \* the fields of Breaker
  elapsed,                  \* time since openedAt
  pc,                       \* a caller: idle, or inside fn (and how admitted)
  spawned,                  \* onStateChange goroutines started, not yet run
  faults                    \* calls of fn that have failed or panicked so far

(***************************************************************************)
(* History variables: what happened, kept without looking at the fields    *)
(* the breaker counts with.                                                *)
(***************************************************************************)
VARIABLES
  failRun, okRun,  \* outcomes of one kind recorded in a row since the state
                   \* last changed or Reset was last called
  sinceTrip,       \* time since the breaker last became open
  net              \* per state: callbacks run with to = s minus with from = s

breaker == <<state, failures, probes, elapsed>>
history == <<failRun, okRun, sinceTrip, net>>
vars == <<breaker, pc, spawned, faults, history>>

Closed == "closed"
Open == "open"
HalfOpen == "half-open"
State == {Closed, Open, HalfOpen}

AtMost(n, max) == IF n > max THEN max ELSE n
Horizon == IF OpenTimeout > 0 THEN OpenTimeout ELSE 0
OkCap == IF SuccessThreshold > 1 THEN SuccessThreshold ELSE 1
-----------------------------------------------------------------------------
\* New: the zero openedAt lies far in the past.
Init ==
  /\ state = Closed /\ failures = 0 /\ probes = 0 /\ elapsed = Horizon
  /\ pc = [c \in Callers |-> "idle"]
  /\ spawned = [e \in State \X State |-> 0]
  /\ faults = 0
  /\ failRun = 0 /\ okRun = 0 /\ sinceTrip = Horizon
  /\ net = [s \in State |-> 0]

\* transition: a real change starts a goroutine for the callback.
transition(to) ==
  /\ state' = to
  /\ spawned' = IF to = state THEN spawned
                ELSE [spawned EXCEPT ![<<state, to>>] = @ + 1]

\* The state after maybeTransitionFromOpen.
AfterTimeout ==
  IF state = Open /\ elapsed >= OpenTimeout THEN HalfOpen ELSE state

\* Mutant: the call forgets to look at the timeout.
maybeTransitionForgotten ==
  /\ transition(state)
  /\ UNCHANGED <<failures, probes, elapsed>>

maybeTransitionFromOpen ==
  /\ transition(AfterTimeout)
  /\ UNCHANGED <<failures, probes, elapsed>>

\* The history of a step of the breaker that records no outcome.
NoOutcome ==
  /\ failRun' = IF state' = state THEN failRun ELSE 0
  /\ okRun' = IF state' = state THEN okRun ELSE 0
  /\ UNCHANGED <<sinceTrip, net>>

\* The history of recording an outcome.
Outcome(ok) ==
  /\ failRun' = IF ok \/ state' # state THEN 0 ELSE failRun + 1
  /\ okRun' = IF ~ok \/ state' # state THEN 0 ELSE AtMost(okRun + 1, OkCap)
  /\ sinceTrip' = IF state' = Open /\ state # Open THEN 0 ELSE sinceTrip
  /\ UNCHANGED net
-----------------------------------------------------------------------------
\* Execute up to the call of fn; a rejected caller got ErrOpen.
allow(c) ==
  /\ pc[c] = "idle"
  /\ maybeTransitionFromOpen
  /\ pc' = [pc EXCEPT ![c] = CASE AfterTimeout = Closed   -> "normal"
                               [] AfterTimeout = HalfOpen -> "probe"
                               [] AfterTimeout = Open     -> "idle"]
  /\ NoOutcome
  /\ UNCHANGED faults

\* Mutant: the first success closes.
ClosesAtOnce(n) == n >= 1

TripsAt(n) == n >= FailureThreshold
ClosesAt(n) == n >= SuccessThreshold

\* Mutant: openedAt keeps the time of an earlier trip.
tripKeepsOpenedAt == transition(Open) /\ UNCHANGED elapsed

\* openedAt = now, and open.
trip == transition(Open) /\ elapsed' = 0

recordClosed(ok) ==
  /\ state = Closed
  /\ failures' = IF ok THEN 0 ELSE failures + 1
  /\ IF ~ok /\ TripsAt(failures') THEN trip
                                  ELSE transition(Closed) /\ UNCHANGED elapsed
  /\ UNCHANGED probes

recordHalfOpen(ok) ==
  /\ state = HalfOpen
  /\ IF ~ok
       THEN failures' = 0 /\ probes' = 0 /\ trip
       ELSE /\ elapsed' = elapsed
            /\ IF ClosesAt(probes + 1)
                 THEN failures' = 0 /\ probes' = 0 /\ transition(Closed)
                 ELSE /\ probes' = probes + 1
                      /\ transition(HalfOpen)
                      /\ UNCHANGED failures

recordOpen ==
  /\ state = Open
  /\ UNCHANGED <<breaker, spawned>>

\* fn returned and Execute records its outcome, whatever admitted the call.
record(c, ok) ==
  /\ pc[c] # "idle"
  /\ pc' = [pc EXCEPT ![c] = "idle"]
  /\ ok \/ faults < MaxFaults
  /\ faults' = IF ok THEN faults ELSE faults + 1
  /\ recordClosed(ok) \/ recordHalfOpen(ok) \/ recordOpen
  /\ Outcome(ok)

\* fn panicked: Execute has no defer, so record is never reached.
Panic(c) ==
  /\ pc[c] # "idle"
  /\ pc' = [pc EXCEPT ![c] = "idle"]
  /\ faults < MaxFaults
  /\ faults' = faults + 1
  /\ UNCHANGED <<breaker, spawned, history>>

\* The exported State method: a read that may move Open to HalfOpen.
GetState ==
  /\ maybeTransitionFromOpen
  /\ NoOutcome
  /\ UNCHANGED <<pc, faults>>

\* Mutants: a counter survives Reset; the state is set behind transition's back.
ResetKeepsProbes ==
  /\ transition(Closed)
  /\ failures' = 0
  /\ failRun' = 0
  /\ okRun' = 0
  /\ UNCHANGED <<probes, elapsed, pc, faults, sinceTrip, net>>
ResetSilently ==
  /\ state' = Closed
  /\ failures' = 0
  /\ probes' = 0
  /\ failRun' = 0
  /\ okRun' = 0
  /\ UNCHANGED <<spawned, elapsed, pc, faults, sinceTrip, net>>

Reset ==
  /\ transition(Closed)
  /\ failures' = 0
  /\ probes' = 0
  /\ failRun' = 0
  /\ okRun' = 0
  /\ UNCHANGED <<elapsed, pc, faults, sinceTrip, net>>

\* A goroutine started by transition runs the callback, in any order.
RunCallback(from, to) ==
  /\ spawned[<<from, to>>] > 0
  /\ spawned' = [spawned EXCEPT ![<<from, to>>] = @ - 1]
  /\ net' = [net EXCEPT ![to] = @ + 1, ![from] = @ - 1]
  /\ UNCHANGED <<breaker, pc, faults, failRun, okRun, sinceTrip>>

Tick ==
  /\ elapsed' = AtMost(elapsed + 1, Horizon)
  /\ sinceTrip' = AtMost(sinceTrip + 1, Horizon)
  /\ UNCHANGED <<state, failures, probes, pc, spawned, faults, failRun, okRun, net>>

Next ==
  \/ \E c \in Callers : allow(c) \/ Panic(c)
  \/ \E c \in Callers, ok \in BOOLEAN : record(c, ok)
  \/ GetState
  \/ Reset
  \/ \E from, to \in State : RunCallback(from, to)
  \/ Tick

(***************************************************************************)
(* Callers keep calling and the functions they call return; time passes;   *)
(* the Go scheduler runs every callback goroutine.  Nobody has to call     *)
(* State or Reset.                                                         *)
(***************************************************************************)
Fairness ==
  /\ \A c \in Callers : WF_vars(allow(c)) /\ WF_vars(\E ok \in BOOLEAN : record(c, ok))
  /\ \A from, to \in State : WF_vars(RunCallback(from, to))
  /\ WF_vars(Tick)

Spec == Init /\ [][Next]_vars
FairSpec == Spec /\ Fairness
-----------------------------------------------------------------------------
\* The types of the fields; the two counters stay within their thresholds
\* (record resets or leaves the state when one is reached).
TypeOK ==
  /\ state \in State
  /\ failures \in Nat
  /\ failures <= FailureThreshold \/ failures <= 1
  /\ probes \in 0 .. OkCap - 1
  /\ elapsed \in 0 .. Horizon
  /\ pc \in [Callers -> {"idle", "normal", "probe"}]
  /\ spawned \in [State \X State -> Nat]
  /\ faults \in 0 .. MaxFaults
  /\ failRun \in Nat
  /\ okRun \in 0 .. OkCap
  /\ sinceTrip \in 0 .. Horizon
  /\ net \in [State -> Int]

\* The two fields mean what their comments say, "consecutive failures in
\* Closed state" and "consecutive successes in HalfOpen state", through every
\* interleaving of late outcomes, Reset and timeouts.
CountersAreRuns ==
  /\ state = Closed => failures = failRun
  /\ state = HalfOpen => probes = okRun /\ failRun = 0
  /\ state # HalfOpen => probes = 0

\* The breaker is never left Closed after FailureThreshold failures in a row,
\* nor HalfOpen after SuccessThreshold successes in a row.
NoOverdueTransition ==
  /\ state = Closed => failRun < FailureThreshold \/ failRun = 0
  /\ state = HalfOpen => okRun < SuccessThreshold \/ okRun = 0

\* Every probe period starts only after the breaker has been open for the full
\* timeout, counted from the trip that really happened last.
QuarantineServed == state = HalfOpen => sinceTrip >= OpenTimeout

\* Every change of state is one of the documented ones and has its reason in
\* the history: enough failures in a row, the timeout, enough successes in a
\* row, a failed probe, or Reset.
TransitionsJustified ==
  [][ /\ state = Closed /\ state' # Closed =>
           state' = Open /\ failRun + 1 >= FailureThreshold
      /\ state = Open /\ state' # Open =>
           (state' = HalfOpen /\ sinceTrip >= OpenTimeout) \/ Reset
      /\ state = HalfOpen /\ state' = Closed =>
           okRun + 1 >= SuccessThreshold \/ Reset ]_state

\* Callbacks in flight with to = s, less those with from = s.
InFlight(s) ==
    (spawned[<<Closed, s>>] + spawned[<<Open, s>>] + spawned[<<HalfOpen, s>>])
  - (spawned[<<s, Closed>>] + spawned[<<s, Open>>] + spawned[<<s, HalfOpen>>])

\* The callbacks run in goroutines and may overtake each other, yet none is
\* lost or invented: once those in flight have run, an observer that counts the
\* entries into and the exits from each state knows the breaker's state.
NotificationsBalance ==
  \A s \in State :
    net[s] + InFlight(s) = (IF s = state THEN 1 ELSE 0) - (IF s = Closed THEN 1 ELSE 0)

\* When the dependency stops failing, and callers keep calling, the breaker
\* ends up Closed for good: no order of late outcomes wedges it.
Recovers == <>[](state = Closed)
=============================================================================
