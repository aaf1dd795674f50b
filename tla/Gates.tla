------------------------------- MODULE Gates --------------------------------
(***************************************************************************)
(* pkg/async/semaphore.go: goroutines that pass a Semaphore and then meet  *)
(* at a Barrier.  A channel of empty structs is its length.                *)
(***************************************************************************)
EXTENDS Integers, FiniteSets

CONSTANTS
  Callers,      \* the goroutines
  Permits,      \* the values given to NewSemaphore
  Parties       \* the values given to NewBarrier

VARIABLES
  size,         \* [permits, parties]: the capacities of the two channels
  taken,        \* len(Semaphore.ch)
  arrivals,     \* len(countWg.ch)
  counted,      \* how many arrivals countWg.wait has received
  met,          \* Barrier.done is closed
  at,           \* at[p]: where caller p is
  cancelled     \* the callers whose context is done

gateVars == <<size, taken, arrivals, counted, met, at, cancelled>>

Places == {"out", "acquiring", "holding", "arriving", "waiting", "met", "left", "turned away"}

TypeOK ==
  /\ size \in [permits : Permits \union {-1}, parties : Parties \union {-1}]
  /\ taken \in 0 .. size.permits + 1 /\ arrivals \in Nat /\ counted \in Nat
  /\ met \in BOOLEAN /\ cancelled \subseteq Callers
  /\ at \in [Callers -> Places]

Init ==
  /\ size = [permits |-> -1, parties |-> -1]
  /\ taken = 0 /\ arrivals = 0 /\ counted = 0 /\ met = FALSE
  /\ at = [p \in Callers |-> "out"] /\ cancelled = {}

New(permits, parties) ==
  /\ size.permits = -1
  /\ size' = [permits |-> permits, parties |-> parties]
  /\ UNCHANGED <<taken, arrivals, counted, met, at, cancelled>>

Cancel(p) ==
  /\ size.permits # -1 /\ p \notin cancelled
  /\ at[p] \in {"acquiring", "arriving", "waiting"}
  /\ cancelled' = cancelled \union {p}
  /\ UNCHANGED <<size, taken, arrivals, counted, met, at>>

Moves(p, from, to) == at[p] = from /\ at' = [at EXCEPT ![p] = to]

-----------------------------------------------------------------------------
CallAcquire(p) ==
  /\ size.permits # -1
  /\ Moves(p, "out", "acquiring")
  /\ UNCHANGED <<size, taken, arrivals, counted, met, cancelled>>

Acquire(p) ==
  /\ \/ Moves(p, "acquiring", "holding") /\ taken < size.permits /\ taken' = taken + 1
     \/ Moves(p, "acquiring", "turned away") /\ p \in cancelled /\ UNCHANGED taken
  /\ UNCHANGED <<size, arrivals, counted, met, cancelled>>

(* Mutant: the channel has one place too many. *)
TryAcquireOver(p) ==
  /\ size.permits # -1
  /\ IF taken <= size.permits
     THEN Moves(p, "out", "holding") /\ taken' = taken + 1
     ELSE Moves(p, "out", "turned away") /\ UNCHANGED taken
  /\ UNCHANGED <<size, arrivals, counted, met, cancelled>>

TryAcquire(p) ==
  /\ size.permits # -1
  /\ IF taken < size.permits
     THEN Moves(p, "out", "holding") /\ taken' = taken + 1
     ELSE Moves(p, "out", "turned away") /\ UNCHANGED taken
  /\ UNCHANGED <<size, arrivals, counted, met, cancelled>>

(* Each holder releases once, and goes on to Barrier.Wait. *)
Release(p) ==
  /\ taken > 0
  /\ Moves(p, "holding", "arriving") /\ taken' = taken - 1
  /\ UNCHANGED <<size, arrivals, counted, met, cancelled>>

-----------------------------------------------------------------------------
(* The send of arrive blocks while the channel is full, whatever the       *)
(* caller's context; the unbuffered channel of a Barrier for none is never *)
(* received from.                                                          *)
Arrive(p) ==
  /\ arrivals < size.parties
  /\ Moves(p, "arriving", "waiting") /\ arrivals' = arrivals + 1
  /\ UNCHANGED <<size, taken, counted, met, cancelled>>

Count ==
  /\ counted < size.parties /\ arrivals > 0
  /\ arrivals' = arrivals - 1 /\ counted' = counted + 1
  /\ UNCHANGED <<size, taken, met, at, cancelled>>

Open ==
  /\ size.parties # -1 /\ counted = size.parties /\ ~met
  /\ met' = TRUE
  /\ UNCHANGED <<size, taken, arrivals, counted, at, cancelled>>

Wait(p) ==
  /\ \/ Moves(p, "waiting", "met") /\ met
     \/ Moves(p, "waiting", "left") /\ p \in cancelled
  /\ UNCHANGED <<size, taken, arrivals, counted, met, cancelled>>

-----------------------------------------------------------------------------
Runs == Count \/ Open \/ \E p \in Callers : Acquire(p) \/ Release(p) \/ Arrive(p) \/ Wait(p)

Next ==
  \/ \E permits \in Permits, parties \in Parties : New(permits, parties)
  \/ \E p \in Callers : CallAcquire(p) \/ TryAcquire(p) \/ Cancel(p)
  \/ Runs

Fairness == WF_gateVars(Runs)

-----------------------------------------------------------------------------
Came == {p \in Callers : at[p] \in {"waiting", "met", "left"}}

(* The length of the channel is the number of goroutines between Acquire   *)
(* and Release, never more than the permits, and no Wait returns nil       *)
(* before as many calls as the Barrier has parties (cancelled ones count). *)
GatesHold ==
  /\ Cardinality({p \in Callers : at[p] = "holding"}) = taken
  /\ taken > 0 => taken <= size.permits
  /\ (\E p \in Callers : at[p] = "met") => Cardinality(Came) >= size.parties

(* Who may stay inside for good: one whom a Semaphore with no permits at   *)
(* all keeps, one who waits for parties that never come, and one beyond    *)
(* twice the parties, whom arrive keeps even when its context is done.     *)
Stuck(p) ==
  \/ at[p] = "acquiring" /\ size.permits = 0 /\ p \notin cancelled
  \/ at[p] = "waiting" /\ Cardinality(Came) < size.parties /\ p \notin cancelled
  \/ at[p] = "arriving" /\ Cardinality(Came) >= 2 * size.parties

(* Every goroutine that entered comes out of the Semaphore and out of the  *)
(* Barrier, but for those.                                                 *)
Emptied ==
  \A p \in Callers : at[p] \in {"out", "met", "left", "turned away"} \/ Stuck(p)
GatesEmpty == size.permits # -1 ~> Emptied
=============================================================================
