----------------------------- MODULE Scheduler ------------------------------
(***************************************************************************)
(* pkg/sched: the goroutine of each schedule, which dispatches its job     *)
(* through a semaphore, the goroutines of the jobs, and one Stop after     *)
(* Start.                                                                  *)
(***************************************************************************)
EXTENDS Integers, FiniteSets, Functions

CONSTANTS
  Jobs,         \* the schedules
  Workers,      \* the values given to New
  MaxTicks      \* bound on the ticks of each ticker

VARIABLES
  workers,      \* s.workers; -1 before New
  every,        \* the jobs scheduled with Every; the others with After
  loop,         \* loop[j]: "none", "waiting", "dispatching", "ended"
  tick,         \* tick[j]: ticks left; the timer of After has one
  ready,        \* the jobs whose ticker or timer channel holds a tick
  slots,        \* len(sem)
  active,       \* active[j]: goroutines of the job that run its Fn
  leaving,      \* goroutines that have released their slot
  wg,           \* the count of s.wg
  cancelled,    \* the context of Start is done
  halt          \* "uncalled", "waiting", "returned"

VARIABLE began  \* history: began[j]: how often the job was started

schedVars == <<workers, every, loop, tick, ready, slots, active, leaving, wg, cancelled, halt, began>>

TypeOK ==
  /\ workers \in Workers \union {-1} /\ every \subseteq Jobs /\ ready \subseteq Jobs
  /\ loop \in [Jobs -> {"none", "waiting", "dispatching", "ended"}]
  /\ tick \in [Jobs -> 0 .. MaxTicks]
  /\ slots \in Nat /\ leaving \in Nat /\ wg \in Nat
  /\ active \in [Jobs -> Nat] /\ began \in [Jobs -> Nat]
  /\ cancelled \in BOOLEAN /\ halt \in {"uncalled", "waiting", "returned"}

Init ==
  /\ workers = -1 /\ every = {} /\ ready = {}
  /\ loop = [j \in Jobs |-> "none"] /\ tick = [j \in Jobs |-> 0]
  /\ slots = 0 /\ leaving = 0 /\ wg = 0
  /\ active = [j \in Jobs |-> 0] /\ began = [j \in Jobs |-> 0]
  /\ cancelled = FALSE /\ halt = "uncalled"

(* New, Every and After, and Start.  A periodic job is dispatched at once. *)
Start(n, periodic) ==
  /\ workers = -1
  /\ workers' = n /\ every' = periodic
  /\ loop' = [j \in Jobs |-> IF j \in periodic THEN "dispatching" ELSE "waiting"]
  /\ tick' = [j \in Jobs |-> IF j \in periodic THEN MaxTicks ELSE 1]
  /\ wg' = Cardinality(Jobs)
  /\ UNCHANGED <<ready, slots, active, leaving, cancelled, halt, began>>

(* A tick that finds the channel full is dropped. *)
Tick(j) ==
  /\ tick[j] > 0 /\ loop[j] # "ended"
  /\ tick' = [tick EXCEPT ![j] = @ - 1] /\ ready' = ready \union {j}
  /\ UNCHANGED <<workers, every, loop, slots, active, leaving, wg, cancelled, halt, began>>

ParentCancels ==
  /\ workers # -1 /\ ~cancelled
  /\ cancelled' = TRUE
  /\ UNCHANGED <<workers, every, loop, tick, ready, slots, active, leaving, wg, halt, began>>

-----------------------------------------------------------------------------
(* The select of runPeriodic and of runOnce. *)
TakeTick(j) ==
  /\ loop[j] = "waiting" /\ j \in ready
  /\ loop' = [loop EXCEPT ![j] = "dispatching"] /\ ready' = ready \ {j}
  /\ UNCHANGED <<workers, every, tick, slots, active, leaving, wg, cancelled, halt, began>>

LoopEnds(j) ==
  /\ loop[j] = "waiting" /\ cancelled
  /\ loop' = [loop EXCEPT ![j] = "ended"] /\ wg' = wg - 1
  /\ UNCHANGED <<workers, every, tick, ready, slots, active, leaving, cancelled, halt, began>>

(* Where the loop goes after dispatch: runOnce returns. *)
AfterDispatch(j) == IF j \in every THEN "waiting" ELSE "ended"

(* Mutant: the goroutine of the job is not counted. *)
DispatchUncounted(j) ==
  /\ loop[j] = "dispatching" /\ slots < workers
  /\ slots' = slots + 1
  /\ active' = [active EXCEPT ![j] = @ + 1] /\ began' = [began EXCEPT ![j] = @ + 1]
  /\ loop' = [loop EXCEPT ![j] = AfterDispatch(j)]
  /\ wg' = IF j \in every THEN wg ELSE wg - 1
  /\ UNCHANGED <<workers, every, tick, ready, leaving, cancelled, halt>>

(* A slot is taken and the goroutine of the job starts; the select may     *)
(* choose the slot even when the context is done.                          *)
Dispatch(j) ==
  /\ loop[j] = "dispatching" /\ slots < workers
  /\ slots' = slots + 1
  /\ active' = [active EXCEPT ![j] = @ + 1] /\ began' = [began EXCEPT ![j] = @ + 1]
  /\ loop' = [loop EXCEPT ![j] = AfterDispatch(j)]
  /\ wg' = wg + 1 - (IF j \in every THEN 0 ELSE 1)
  /\ UNCHANGED <<workers, every, tick, ready, leaving, cancelled, halt>>

DispatchCancelled(j) ==
  /\ loop[j] = "dispatching" /\ cancelled
  /\ loop' = [loop EXCEPT ![j] = AfterDispatch(j)]
  /\ wg' = wg - (IF j \in every THEN 0 ELSE 1)
  /\ UNCHANGED <<workers, every, tick, ready, slots, active, leaving, cancelled, halt, began>>

(* Fn returns, with or without an error; the slot is released, and then    *)
(* the WaitGroup is told.                                                  *)
FnReturns(j) ==
  /\ active[j] > 0
  /\ active' = [active EXCEPT ![j] = @ - 1]
  /\ slots' = slots - 1 /\ leaving' = leaving + 1
  /\ UNCHANGED <<workers, every, loop, tick, ready, wg, cancelled, halt, began>>

JobEnds ==
  /\ leaving > 0
  /\ leaving' = leaving - 1 /\ wg' = wg - 1
  /\ UNCHANGED <<workers, every, loop, tick, ready, slots, active, cancelled, halt, began>>

-----------------------------------------------------------------------------
Stop ==
  /\ workers # -1 /\ halt = "uncalled"
  /\ halt' = "waiting" /\ cancelled' = TRUE
  /\ UNCHANGED <<workers, every, loop, tick, ready, slots, active, leaving, wg, began>>

StopReturns ==
  /\ halt = "waiting" /\ wg = 0
  /\ halt' = "returned"
  /\ UNCHANGED <<workers, every, loop, tick, ready, slots, active, leaving, wg, cancelled, began>>

-----------------------------------------------------------------------------
Runs == StopReturns \/ JobEnds
        \/ \E j \in Jobs : TakeTick(j) \/ LoopEnds(j) \/ Dispatch(j) \/ DispatchCancelled(j)
                           \/ FnReturns(j)

Next ==
  \/ \E n \in Workers, periodic \in SUBSET Jobs : Start(n, periodic)
  \/ \E j \in Jobs : Tick(j)
  \/ Stop \/ ParentCancels
  \/ Runs

Fairness == WF_schedVars(Runs)

-----------------------------------------------------------------------------
Running == FoldFunction(+, 0, active)

(* No more jobs run at a time than New was given, and each has its slot;   *)
(* the WaitGroup counts every goroutine there is, so that it never reaches *)
(* zero, and Stop never returns, while one is left that could still start  *)
(* or finish a job; a job of After runs at most once.                      *)
SchedulerSound ==
  /\ Running = slots /\ (slots > 0 => slots <= workers)
  /\ wg = Cardinality({j \in Jobs : loop[j] \in {"waiting", "dispatching"}}) + Running + leaving
  /\ halt = "returned" => Running = 0 /\ \A j \in Jobs : loop[j] = "ended"
  /\ workers # -1 => \A j \in Jobs \ every : began[j] <= 1

(* Stop returns, whatever is dispatched while it waits, if the jobs do.    *)
Quiet == halt \in {"uncalled", "returned"}
StopEnds == halt = "waiting" ~> Quiet
=============================================================================
