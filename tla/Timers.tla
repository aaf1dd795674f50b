------------------------------- MODULE Timers -------------------------------
(***************************************************************************)
(* pkg/async/semaphore.go: a debounced and a throttled function, called at *)
(* any time by any goroutine, on one clock.  The goroutines that serve the *)
(* timer and the ticker may run late.  A Go 1.23 timer that was stopped or *)
(* reset leaves nothing behind in its channel.                             *)
(***************************************************************************)
EXTENDS Integers, Sequences

CONSTANTS
  Interval,     \* of Debounce
  Limit,        \* of Throttle
  MaxTime       \* bound on the clock

VARIABLES
  clock,        \* -1 before the two are made
  trigger,      \* the trigger channel holds a signal
  timer,        \* when the timer fires; -1 when it is stopped
  running,      \* the debounced fn runs
  permit,       \* the permit channel holds the permit
  ticked,       \* ticker.C holds a tick
  inHand        \* Throttle's goroutine has received a tick and not yet served it

VARIABLES       \* history
  called,       \* time of the last debounced call
  unserved,     \* a debounced call no fn has started after
  passed        \* times of the throttled calls that went through

timerVars == <<clock, trigger, timer, running, permit, ticked, inHand, called, unserved, passed>>

TypeOK ==
  /\ clock \in -1 .. MaxTime /\ timer \in -1 .. MaxTime + Interval
  /\ trigger \in BOOLEAN /\ running \in BOOLEAN /\ permit \in BOOLEAN
  /\ ticked \in BOOLEAN /\ inHand \in BOOLEAN /\ unserved \in BOOLEAN
  /\ called \in -1 .. MaxTime /\ passed \in Seq(0 .. MaxTime)

Init ==
  /\ clock = -1 /\ timer = -1 /\ called = -1
  /\ trigger = FALSE /\ running = FALSE /\ permit = FALSE
  /\ ticked = FALSE /\ inHand = FALSE /\ unserved = FALSE
  /\ passed = <<>>

New ==
  /\ clock = -1 /\ clock' = 0 /\ permit' = TRUE
  /\ UNCHANGED <<trigger, timer, running, ticked, inHand, called, unserved, passed>>

Elapse ==
  /\ clock \in 0 .. MaxTime - 1
  /\ clock' = clock + 1
  /\ ticked' = (ticked \/ clock' % Limit = 0)
  /\ UNCHANGED <<trigger, timer, running, permit, inHand, called, unserved, passed>>

-----------------------------------------------------------------------------
Debounced ==
  /\ clock # -1
  /\ trigger' = TRUE /\ called' = clock /\ unserved' = TRUE
  /\ UNCHANGED <<clock, timer, running, permit, ticked, inHand, passed>>

(* Mutant: a timer that is armed is not reset. *)
ResetOnce ==
  /\ trigger /\ ~running
  /\ trigger' = FALSE /\ timer' = IF timer = -1 THEN clock + Interval ELSE timer
  /\ UNCHANGED <<clock, running, permit, ticked, inHand, called, unserved, passed>>

(* The goroutine does nothing else between the receive and the Reset, and  *)
(* time that passes there only makes the Reset late.                       *)
Reset ==
  /\ trigger /\ ~running
  /\ trigger' = FALSE /\ timer' = clock + Interval
  /\ UNCHANGED <<clock, running, permit, ticked, inHand, called, unserved, passed>>

(* fn runs in the goroutine that serves the timer. *)
Fire ==
  /\ timer \in 0 .. clock /\ ~running
  /\ timer' = -1 /\ running' = TRUE /\ unserved' = FALSE
  /\ UNCHANGED <<clock, trigger, permit, ticked, inHand, called, passed>>

FnReturns ==
  /\ running /\ running' = FALSE
  /\ UNCHANGED <<clock, trigger, timer, permit, ticked, inHand, called, unserved, passed>>

-----------------------------------------------------------------------------
Throttled ==
  /\ permit /\ permit' = FALSE
  /\ passed' = Append(passed, clock)
  /\ UNCHANGED <<clock, trigger, timer, running, ticked, inHand, called, unserved>>

(* The goroutine takes a tick from ticker.C, which the ticker can fill     *)
(* again before the goroutine goes on.                                     *)
ReceiveTick ==
  /\ ticked /\ ~inHand
  /\ ticked' = FALSE /\ inHand' = TRUE
  /\ UNCHANGED <<clock, trigger, timer, running, permit, called, unserved, passed>>

(* A permit that is there already is left as it is. *)
Replenish ==
  /\ inHand /\ inHand' = FALSE /\ permit' = TRUE
  /\ UNCHANGED <<clock, trigger, timer, running, ticked, called, unserved, passed>>

Next ==
  \/ New \/ Elapse
  \/ Debounced \/ Reset \/ Fire \/ FnReturns
  \/ Throttled \/ ReceiveTick \/ Replenish

-----------------------------------------------------------------------------
(* No debounced call is dropped: until an fn starts after it, it is in the *)
(* channel or the timer is armed; and a timer with no signal left to read  *)
(* fires no sooner than Interval after the last call.  Throttled calls     *)
(* beyond the ticks of the ticker are at most three in any window: the     *)
(* permit in store, the tick in the goroutine's hand and the one waiting   *)
(* in ticker.C (Debounce, Throttle).                                       *)
TimersHold ==
  /\ unserved => trigger \/ timer # -1
  /\ timer # -1 /\ ~trigger => timer >= called + Interval
  /\ \A i, j \in 1 .. Len(passed) :
       i < j => j - i + 1 <= 3 + passed[j] \div Limit - passed[i] \div Limit
=============================================================================
