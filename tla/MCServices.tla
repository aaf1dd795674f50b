----------------------------- MODULE MCServices -----------------------------
(***************************************************************************)
(* The components a service is put together from, one of them in each      *)
(* behaviour, and the service of examples/server that puts them together.  *)
(* The variables of the event store are those of EventStore.               *)
(***************************************************************************)
EXTENDS MCEventStore

CONSTANTS j1, j2, k1, k2, k3, c1, c2, w1, w2

VARIABLES part,
  steps, phase, at, done, failed, compErrs, heard, effect,
  workers, every, loop, tick, ready, slots, active, leaving, wg, cancelled, halt, began,
  conf, list, items, clock, last, others,
  mode, ttl, now, buckets, entry, lastSeen, client, passes, used, given, forgiven,
  opts, attempt, place, over, outcome, answers, retries, delays,
  db, command, prefix, cursor, page, flags, reply, writes, held, written, skipped,
  queueSize, stopped, jobs, closed, sub, offered, worker, job, stop,
  submitted, completed, errors, inFlight, answer, runs,
  server, request, ctxDone, buffer, took, hook, timedOut, dropped

-----------------------------------------------------------------------------
Sg == INSTANCE Saga WITH
  Plans <- UNION {[1 .. n -> {"undo", "keep"}] : n \in 0 .. 3}
Sc == INSTANCE Scheduler WITH Jobs <- {j1, j2}, Workers <- 0 .. 2, MaxTicks <- 2
Ca == INSTANCE Cache WITH
  Keys <- {k1, k2, k3}, Values <- {1, 2}, Capacities <- {1, 2}, TTLs <- {0, 1}, MaxTime <- 3
Li == INSTANCE Limiter WITH
  Clients <- {c1, c2}, Rate <- 1, Burst <- 2, TTLs <- {0, 1}, MaxTime <- 3,
  MaxPasses <- 3, MaxBuckets <- 2
Re == INSTANCE Retry WITH Attempts <- {1, 2, 5}, Initial <- 1, Max <- 3, MaxDuration <- 7
Rs == INSTANCE RedisScan WITH
  Slot <- [a |-> 1, b |-> 2, x |-> 1],
  Prefixes <- {[a |-> "m", b |-> "n"], [a |-> "m", x |-> "m"], [x |-> "short"]},
  Short <- "short", Values <- {1, 2}, Flags <- {1}, MaxWrites <- 2, call <- command
Sv == INSTANCE Server WITH
  HttpOrders <- {1}, GrpcOrders <- {2}, Workers <- {w1, w2}, QueueSize <- 1, Buffer <- 1

store == vars
saga == <<steps, phase, at, done, failed, compErrs, heard, effect>>
sched == <<workers, every, loop, tick, ready, slots, active, leaving, wg, cancelled, halt, began>>
cache == <<conf, list, items, clock, last, others>>
limiter == <<mode, ttl, now, buckets, entry, lastSeen, client, passes, used, given, forgiven>>
retry == <<opts, attempt, place, over, outcome, answers, retries, delays>>
scan == <<db, command, prefix, cursor, page, flags, reply, writes, held, written, skipped>>
service == <<queueSize, stopped, jobs, closed, sub, offered, worker, job, stop,
            submitted, completed, errors, inFlight, answer, runs,
            server, request, ctxDone, buffer, took, hook, timedOut, dropped>>
allVars == <<part, store, saga, sched, cache, limiter, retry, scan, service>>

-----------------------------------------------------------------------------
ServicesInit ==
  /\ part \in {"store", "saga", "sched", "cache", "limiter", "retry", "scan", "service"}
  /\ Init /\ Sg!Init /\ Sc!Init /\ Ca!Init /\ Li!Init /\ Re!Init /\ Rs!Init /\ Sv!Init

StoreStep ==
  /\ part = "store" /\ Next
  /\ UNCHANGED <<part, saga, sched, cache, limiter, retry, scan, service>>

SagaStep ==
  /\ part = "saga" /\ Sg!Next
  /\ UNCHANGED <<part, store, sched, cache, limiter, retry, scan, service>>

SchedulerStep ==
  /\ part = "sched" /\ Sc!Next
  /\ UNCHANGED <<part, store, saga, cache, limiter, retry, scan, service>>

CacheStep ==
  /\ part = "cache" /\ Ca!Next
  /\ UNCHANGED <<part, store, saga, sched, limiter, retry, scan, service>>

LimiterStep ==
  /\ part = "limiter" /\ Li!Next
  /\ UNCHANGED <<part, store, saga, sched, cache, retry, scan, service>>

RetryStep ==
  /\ part = "retry" /\ Re!Next
  /\ UNCHANGED <<part, store, saga, sched, cache, limiter, scan, service>>

RedisScanStep ==
  /\ part = "scan" /\ Rs!Next
  /\ UNCHANGED <<part, store, saga, sched, cache, limiter, retry, service>>

ServerStep ==
  /\ part = "service" /\ Sv!Next
  /\ UNCHANGED <<part, store, saga, sched, cache, limiter, retry, scan>>

ServicesNext ==
  \/ StoreStep \/ SagaStep \/ SchedulerStep \/ CacheStep \/ LimiterStep
  \/ RetryStep \/ RedisScanStep \/ ServerStep

(* Nothing that has to go on is enabled before its part has begun, so the  *)
(* fairness of one part asks nothing of the behaviours of another.         *)
ServicesSpec ==
  /\ ServicesInit /\ [][ServicesNext]_allVars
  /\ Fairness
  /\ Sg!Fairness /\ Sc!Fairness /\ Re!Fairness /\ Rs!Fairness /\ Sv!Fairness

-----------------------------------------------------------------------------
(* The error of a saga accounts for every effect that is left.             *)
SagaAccounts == Sg!SagaAccounts

(* The scheduler counts its goroutines, and Stop waits for all of them.    *)
SchedulerSound == Sc!SchedulerSound

(* Get finds what was last Set, unless as many keys as fit were used since. *)
CacheFaithful == Ca!CacheFaithful

(* No window of time sees more from a limiter than the burst and what      *)
(* comes back in it; from a key, no more than that and what its limiters   *)
(* lacked when they were dropped, which Evict keeps small.                 *)
RateHeld == Li!RateHeld

(* Do stops when it is told to, and never waits longer than Max; it waits  *)
(* min(Initial * 2^n, Max) as long as a Duration can hold the product.     *)
RetrySound == Re!RetrySound

(* Flush misses only keys that were written meanwhile, and ListAll, of the *)
(* keys that held flags all the time, only those whose GET failed.         *)
ScanSound == Rs!ScanSound

(* Until a signal comes an order is lost only to a full buffer or to the   *)
(* end of its request's context; and when the server exits by itself, the  *)
(* pool has run every order that it accepted.                              *)
OrdersKept == Sv!OrdersKept

ServicesTypeOK ==
  /\ TypeOK
  /\ Sg!TypeOK /\ Sc!TypeOK /\ Ca!TypeOK /\ Li!TypeOK /\ Re!TypeOK /\ Rs!TypeOK /\ Sv!TypeOK

(* What was called comes to its end: Append, Saga.Run, Scheduler.Stop,     *)
(* retry.Do, Flush and ListAll, and the shutdown of the server.            *)
AllEnd ==
  []<>(/\ \A w \in Writers : call[w] = NoCall
       /\ phase \in {"new", "returned"}
       /\ Sc!Quiet
       /\ opts.maxAttempts > 0 => outcome # "none"
       /\ command # "none" => reply # "none"
       /\ Sv!Down)
=============================================================================
