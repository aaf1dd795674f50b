------------------------------ MODULE MCAsync -------------------------------
(***************************************************************************)
(* The event bus of pkg/pubsub and the concurrency helpers of pkg/async    *)
(* and pkg/pipeline: goroutines over channels, one part in each behaviour. *)
(* The variables of the bus are those of EventBus.                         *)
(***************************************************************************)
EXTENDS EventBus, Integers

CONSTANTS u1, f1, f2, Callers, None

VARIABLES part,
  slot, once, res, calls, returned, gaveUp,
  net, q, ended, g, ctxDone,
  opts, jobs, worker, results, out, firstErr, done, ret, ran, byCaller,
  size, taken, arrivals, counted, opened, at, leavers,
  clock, trigger, timer, running, permit, ticked, inHand, called, unserved, passed

-----------------------------------------------------------------------------
(* One subscription without a buffer, one with a buffer that a second      *)
(* event finds full or in which it comes to wait behind the first.         *)
Capacities == [u \in Subs |-> IF u = u1 THEN {0} ELSE {1, 2}]

(* The calls that share futures. *)
Futures == {f1, f2}
Await(f) == [kind |-> "await", futures |-> {f}]
All == [kind |-> "all", futures |-> Futures]
Race == [kind |-> "race", futures |-> Futures]
OfNone(kind) == [kind |-> kind, futures |-> {}]
Plans == {<<Await(f1), Await(f1)>>, <<Await(f1), All>>, <<Await(f1), Race>>,
          <<All, All>>, <<All, Race>>, <<Race, Race>>, <<OfNone("all"), OfNone("race")>>}

F == INSTANCE Future WITH ch <- slot

(* The networks of stream operators over three items. *)
G(op, in, outs, n) == [op |-> op, in |-> in, outs |-> outs, n |-> n]
Networks == {
  <<G("generate", 0, <<1>>, 0), G("map", 1, <<2>>, 0), G("filter", 2, <<3>>, 0),
    G("batch", 3, <<4>>, 2), G("collect", 4, <<>>, 0)>>,
  <<G("generate", 0, <<1>>, 0), G("batch", 1, <<2>>, 0), G("collect", 2, <<>>, 0)>>,
  <<G("generate", 0, <<1>>, 0), G("take", 1, <<2>>, 1), G("map", 2, <<3>>, 0),
    G("foreach", 3, <<>>, 0)>>,
  <<G("generate", 0, <<1>>, 0), G("fanout", 1, <<2, 3>>, 0), G("forward", 2, <<4>>, 0),
    G("forward", 3, <<4>>, 0), G("collect", 4, <<>>, 0)>>,
  <<G("generate", 0, <<1>>, 0), G("tee", 1, <<2, 3>>, 0), G("ordone", 2, <<4>>, 0),
    G("foreach", 4, <<>>, 0), G("collect", 3, <<>>, 0)>>}

S == INSTANCE Stream WITH MaxSize <- 5, Items <- <<1, 2, 3>>, Cap <- 1, closed <- ended
P == INSTANCE Process WITH Sizes <- {0, 1, 3}, Widths <- {0, 2, 4}, Stages <- 2, MaxWorkers <- 3
B == INSTANCE Gates WITH Permits <- 0 .. 2, Parties <- 0 .. 2, met <- opened, cancelled <- leavers
T == INSTANCE Timers WITH Interval <- 2, Limit <- 2, MaxTime <- 6

bus == vars
futures == <<slot, once, res, calls, returned, gaveUp>>
stream == <<net, q, ended, g, ctxDone>>
process == <<opts, jobs, worker, results, out, firstErr, done, ret, ran, byCaller>>
gates == <<size, taken, arrivals, counted, opened, at, leavers>>
timers == <<clock, trigger, timer, running, permit, ticked, inHand, called, unserved, passed>>
allVars == <<part, bus, futures, stream, process, gates, timers>>

-----------------------------------------------------------------------------
AsyncInit ==
  /\ part \in {"bus", "futures", "stream", "process", "gates", "timers"}
  /\ Init /\ F!Init /\ S!Init /\ P!Init /\ B!Init /\ T!Init

BusStep ==
  /\ part = "bus" /\ Next
  /\ UNCHANGED <<part, futures, stream, process, gates, timers>>

FutureStep ==
  /\ part = "futures" /\ F!Next
  /\ UNCHANGED <<part, bus, stream, process, gates, timers>>

StreamStep ==
  /\ part = "stream" /\ S!Next
  /\ UNCHANGED <<part, bus, futures, process, gates, timers>>

ProcessStep ==
  /\ part = "process" /\ P!Next
  /\ UNCHANGED <<part, bus, futures, stream, gates, timers>>

GateStep ==
  /\ part = "gates" /\ B!Next
  /\ UNCHANGED <<part, bus, futures, stream, process, timers>>

TimerStep ==
  /\ part = "timers" /\ T!Next
  /\ UNCHANGED <<part, bus, futures, stream, process, gates>>

AsyncNext == BusStep \/ FutureStep \/ StreamStep \/ ProcessStep \/ GateStep \/ TimerStep

(* Nothing that has to go on is enabled before its part has begun, so the  *)
(* fairness of one part asks nothing of the behaviours of another.         *)
AsyncSpec ==
  /\ AsyncInit /\ [][AsyncNext]_allVars
  /\ Fairness /\ F!Fairness /\ S!Fairness /\ P!Fairness /\ B!Fairness

-----------------------------------------------------------------------------
(* Await, All and Race return what their futures or their contexts say.    *)
OutcomesExplained == F!OutcomesExplained

(* Stream operators lose, invent, repeat and reorder nothing.              *)
StreamFaithful == S!StreamFaithful

(* Process returns every result once, or the error that stopped it.        *)
ProcessSound == P!ProcessSound

(* Semaphore and Barrier let nobody through too many or too early.         *)
GatesHold == B!GatesHold

(* Debounce drops no call, Throttle passes no more than its ticks allow.   *)
TimersHold == T!TimersHold

AsyncTypeOK == TypeOK /\ F!TypeOK /\ S!TypeOK /\ P!TypeOK /\ B!TypeOK /\ T!TypeOK

AllEnded ==
  /\ Quiet
  /\ F!CallsEnded
  /\ net # <<>> => S!Settled
  /\ opts.n # -1 => ret # "none"
  /\ B!Emptied

(* BusSettles, AwaitsEnd, StreamEnds, ProcessReturns and GatesEmpty in one *)
(* formula: whatever was called returns and leaves no goroutine behind,    *)
(* but for the cases those properties name.                                *)
AllEnd == []<>AllEnded
=============================================================================
