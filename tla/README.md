# TLA+ models of gkit-go

gkit-go is a toolkit of Go packages for services. This directory models the
packages whose correctness depends on interleavings and failures, checks the
models with TLC, and proves theorems about one of them with TLAPS.

## The system

The packages are libraries: each keeps its own state, and a service combines
them (`examples/server` does). What follows is the inventory; `PROJECT.json`
lists every package with its status, and the hazards at their lines.

| Part | State | Operations | What is hard | What makes it correct |
|---|---|---|---|---|
| `circuitbreaker` | state, two counters, `openedAt`, under a mutex | `Execute`, `State`, `Reset` | the call runs outside the mutex, so its outcome is recorded in whatever state the breaker is in by then; callbacks run in goroutines | counters are runs of outcomes; every change of state has a reason; recovery |
| `pool` | a channel, `stopped`, atomic counters | `Start`, `Submit`, `TrySubmit`, `Stop` | check of `stopped`, then use of the channel | accepted jobs run exactly once; `Stop` drains |
| `eventstore` | tables `events`, `snapshots` | `Append`, `Load`, `SaveSnapshot`, `LoadSnapshot` | read, check, insert without a lock | an atomic append-only log; rebuilds are exact |
| `lock` | a key with a ttl in Redis, a keepalive goroutine | `Acquire`, `TryAcquire`, `Release`, `WithLock` | late and lost commands, expiry, crashes | nobody takes the lock from a holder whose key lives; no key stays |
| `pubsub` | lists of subscriptions, a channel and a goroutine each | `Subscribe`, unsubscribe, `Publish` | `Publish` works on a copy while channels are closed | order, no loss, silence after unsubscribing |
| `queue` | table `jobs`, workers | `Register`, `Enqueue`, `Start`, `Stop` | a batch is one transaction and its errors are ignored | the table tells the truth; every job is settled |
| `outbox` | table of events, relays | `Store`, `Start`, `Stop` | publish and mark are not atomic | at least once, only committed events |
| `store` | a connection pool, a transaction in the context | `WithTx`, queries | commit, rollback and panic paths | used by the three above |
| `async` | futures, semaphores, barriers, throttles, streams | `Await`, `All`, `Race`, `Acquire`, `Batch`, `FanOut`, ... | cancellation against completion; goroutines over channels | results are cached once; limits hold; nothing is lost or leaked |
| `pipeline` | workers over channels | `Process`, `Chain` | an error cancels the rest, whose errors may arrive first | every result once and in place, or the error that caused it |
| `saga` | the steps completed | `Run` | failing compensations, steps without one | what was done is compensated, in reverse order, or reported |
| `sched` | tickers, a semaphore | `Every`, `After`, `Start`, `Stop` | overlapping jobs, `Stop` while dispatching | bounded concurrency; `Stop` waits |
| `graceful` | a list of hooks | `Register`, `Shutdown`, `ListenAndShutdown` | order and deadline | last in, first out |
| `cache` | entries with ttl and LRU order | `Get`, `Set`, `Delete`, `Clear`, the janitor | eviction against expiry | what was last set is found, unless expired or crowded out |
| `ratelimit` | token buckets, per key | `Allow`, `AllowN`, `Wait`, `Evict` | sleeping callers, eviction of keys that are in use | a limiter never gives more than the rate and the burst, a key no more than that and what was forgiven it |
| `retry` | none | `Do`, backoffs | cancellation against completion; overflow of the delay | attempts and delays within their bounds |
| `feature`, `rediscache` | keys in Redis | `Set`, `Delete`, `ListAll`; `Flush` | loops over `SCAN` while others write | nothing that stays put is missed |
| `health` | checks | `Register`, `Check` | | each goroutine writes an element of its own |
| `middleware`, `rpc`, `auth`, `config`, `validation`, `metrics`, `otel`, `api`, `testutil` | none worth modelling | | | wrappers, configuration, reflection, I/O |

How the parts interact: `queue`, `outbox` and `eventstore` run their statements
inside `store.DB.WithTx`; `metrics` reads the counters of `pool`; in
`examples/server` a `pubsub` subscriber submits to a `pool`, and `graceful`
stops the pool, the HTTP server, the gRPC server and the scheduler, in that order.

## Modules

| Module | Models | State and actions |
|---|---|---|
| `CircuitBreaker` | `pkg/circuitbreaker` | fields of `Breaker`; `allow`, `record` (with its three cases), `Panic`, `GetState`, `Reset`, `RunCallback`, `Tick`. A call is two steps, `allow` and `record`, with anything in between. |
| `CircuitBreaker_proofs` | | the theorems about it |
| `WorkerPool` | `pkg/pool` | `stopped`, the channel and each counter are separate atomics, so every access is a step |
| `EventStore` | `pkg/eventstore`, `WithTx` | committed rows per stream, one transaction per writer; an `Append` is `BeginAppend`, `CheckVersion`, one `Insert` per event, `Commit` or `Rollback` |
| `EventLog` | what `Append` promises | one log per stream; an append takes effect at once, while its expected version holds, or fails |
| `RedisLock` | `pkg/lock` | the key, commands under way, the caller and the keepalive goroutine of each client |
| `EventBus` | `pkg/pubsub` | one topic: list, channels, dispatch goroutines, publishers with their copies; a capacity per subscription |
| `JobQueue` | `pkg/queue`, `WithTx` | the committed table, each worker's batch, transaction and pending updates |
| `Outbox` | `pkg/outbox`, `WithTx` | business transactions, each relay's batch and transaction |
| `Future` | `pkg/async/future.go` | each future's channel, `Once` and cached result; each call of `Await`, `All` or `Race` with its goroutines and its context |
| `Stream` | `pkg/async/stream.go` | a network of goroutines and bounded channels; one action per case of their selects, one operator per stream operator |
| `Gates` | `Semaphore`, `Barrier` | the channel's length, the arrivals counted by the barrier's goroutine, the place of each caller |
| `Timers` | `Debounce`, `Throttle` | `trigger`, timer, permit, ticker and the tick in the goroutine's hand over a discrete clock |
| `Process` | `pkg/pipeline` | the channels of jobs and results, each worker with its stage of `Chain`, the collecting loop |
| `Saga` | `pkg/saga` | completed steps, compensation errors, what the hook heard |
| `Scheduler` | `pkg/sched` | a loop per job, the semaphore, the wait group, `Stop` |
| `Cache` | `pkg/cache` | map and list kept apart, as in the code; every method is a step under the mutex |
| `Limiter` | `pkg/ratelimit` | buckets, the entry of one key, callers between lookup and use or asleep in `WaitN` |
| `Retry` | `pkg/retry` | one `Do`: loop, attempt, sleep; the delays as sets of what the backoff may return |
| `RedisScan` | `rediscache.Flush`, `feature.ListAll` | keys in slots, the keys the prefix matches as a pattern and the names cut out of them, the cursor, the page in hand, other clients |
| `Server` | `examples/server`, `pkg/graceful` | an instance of `WorkerPool` with its one submitter, the subscription's buffer, requests with their contexts, the hooks |
| `MCAsync` | | `EventBus`, `Future`, `Stream`, `Process`, `Gates` and `Timers` side by side: a behaviour chooses one part, the others stay at their beginning |
| `MCServices` | | `EventStore`, `Saga`, `Scheduler`, `Cache`, `Limiter`, `Retry`, `RedisScan` and `Server` in the same way |
| other `MC...` | | constants for TLC and the claims of the documentation that the code does not keep |

`MCAsync` and `MCServices` put independent components into one run. That is sound
for safety because no step changes more than its own part, and for liveness
because every action with fairness is disabled until its part has begun.

History variables are declared apart from the state and no guard reads them.
Definitions marked "Mutant" are not part of the models: each is a plausible bug
in the definition after it, and the property `PROJECT.json` pairs it with must
catch it.

Go. A section under a mutex is one step. A send on a closed channel panics and
ends the call; an unbuffered send needs a parked receiver. Postgres is at READ
COMMITTED: an insert fails on a committed key and waits for an uncommitted one;
`FOR UPDATE SKIP LOCKED` passes over locked rows; a transaction that has failed
holds no locks, even if its client has not noticed. A `COMMIT` may take effect
and its answer be lost. Redis executes commands one at a time; a command may be
lost, or executed after its client has given up on it.

## Runs

Every passing run checks safety and liveness under a fair specification, without
symmetry. The type invariants (`TypeOK` of each module, `AsyncTypeOK`,
`ServicesTypeOK`) hold in the same runs and are there for the reader and the
proofs; the runs list what says something about the code.

| Run | Bounds | Shows |
|---|---|---|
| `breaker` | 2 callers, thresholds and timeout 2, at most 4 faults | the counters are the runs of outcomes they should be, probes wait for the timeout, notifications add up, every change has its reason, and the breaker recovers once its calls succeed |
| `pool` | 2 submitters of 2 jobs, 2 workers, buffer 0 or 1 | accepted jobs run exactly once, also those sent between the store to `stopped` and the close; `Stop` drains and returns; the counters add up |
| `pool_panic` | the same, 1 worker | violated: `Submit` panics when `Stop` comes between its check and its send |
| `eventstore_race` | 2 writers, 2 appends of 1 or 2 events | violated: the loser of a race does not get `ErrVersionConflict` |
| `lock` | 2 clients, 2 tokens and 1, 2 attempts | a holder loses the lock only to expiry, and if served in time only after two failed renewals; keys nobody holds go; `Release` returns |
| `bus_panic` | 1 event, capacity 1 | violated: an unsubscribe during `Publish` makes it panic before it reaches the others |
| `queue` | 2 jobs with any set of handlers, 2 workers, 2 attempts, batches of 2, 1 fault | the table is true and final, nothing runs twice without a fault, every job is settled, `Stop` returns |
| `queue_double` | 1 job, 2 workers, 1 fault | violated: a handler that succeeded is called again |
| `outbox` | 2 events, 2 relays, batches of 2, 2 faults | at least once, only committed events, exactly once without faults; delivery while a relay runs, and `Stop` returns |
| `outbox_poison` | 2 events, one always refused | violated: the other one is never delivered |
| `async` | see below | the parts of `MCAsync`: order, no loss while subscribed and silence afterwards (bus); outcomes that have their reason (futures); streams that deliver a prefix, and all of it when nothing is cancelled; `Process`; permits and barriers; debounce and throttle; and everything ends |
| `services` | see below | the parts of `MCServices`: the event store implements `EventLog`, its snapshots and rebuilds are exact; a saga's error accounts for every effect left; the scheduler's `Stop` leaves nobody running; LRU and ttl; the rate; attempts and delays; `Flush` and `ListAll`; orders of the example server; and everything ends |

Bounds of `async`: 1 publisher of 2 events, a subscription without a buffer and one of capacity 1 or 2;
2 futures and 7 pairs of calls that share them (`Await`, `All` and `Race` with each
other, and calls of no future); 5 networks over three items with channels of one place (16 for
`Generate` in the code), which between them use every operator, a batch size of 0 and of 2, and consumers that leave;
0, 1 or 3 items, widths 0 (ignored), 2 and 4, two stages; 3 callers, 0 to 2
permits and 0 to 2 parties; interval and limit 2 up to time 6, when a third tick
could meet two that were not used.

Bounds of `services`: 2 writers, 2 replayers, 2 appends of 1 or 2 events,
expected versions new, any, 0 and 1; sagas of up to 3 steps; 2 jobs, 0 to 2
places of the semaphore, 2 ticks; 3 keys in a cache of 1 or 2 with and without
ttl; 2 clients at rate 1 and burst 2, 3 tokens up to time 3, and a ttl of 1, in which
a bucket fills before it is evicted, or of 0, in which it does not; 1, 2 or 5 attempts with
a Duration that ends at 7 so that the doubling leaves it; 3 keys in Redis,
2 writes meanwhile, values that decode and values that do not, and three prefixes: one
that matches the keys under it, one that also matches a foreign key, and one
that matches only a foreign key shorter than itself; 2 orders, one over each server, 2
workers, queue and buffer of one.

Why these bounds are enough to be of use: each race in the code is between two
actors (two callers, a submitter and `Stop`, two transactions, a holder and a
contender), thresholds and batches of two tell "each" from "the last", a buffer
of zero, one or two shows empty, full and, at two, order, and one or two faults
let a failure meet the retry of an earlier one. Time runs past the second tick,
expiry or refill. Deadlock is checked in the runs of one module: where calls are
bounded, a `Terminated` step stands for the end of the run. In `async` and
`services` most parts simply end, so there `AllEnd` says which ends are right.

Fairness. Goroutines that can run do run, waits on the network end, and time
passes: weak fairness. `select` chooses at random among ready cases, so a case
that is ready again and again is chosen: strong fairness of `KeepaliveExits` and
of the `Exit` actions. Nobody has to call anything, and in `EventBus` handlers
need not return. In `CircuitBreaker` recovery is claimed only for callers that
keep calling; faults are bounded, so calls succeed in the end. Where a part has
only finite behaviours (`EventBus`, `Future`, `Stream` and most others of the
two joint runs) one weak fairness condition on all its goroutines together says
the same as one for each, and is what the module states. In `RedisScan` a page
may be repeated, but not for ever (strong fairness of the `Scan` that moves on).
Functions given by the caller return in `Future`, `Process`, `Saga` and
`Scheduler`; their failing is part of the models.

## Proofs

`CircuitBreaker_proofs` proves, for any callers and any integers as
thresholds and timeout, zero and negative ones included, since the options are
not validated (`BreakerAssumption` in `CircuitBreaker`), the invariants that `breaker` checks and the action
property `TransitionsJustified`.

The inductive invariant `IInv` is the conjunction of `TypeOK`, `CountersAreRuns`,
`NoOverdueTransition`, `QuarantineServed` and the equality of the time since
`openedAt` with the time since the last trip, a history variable. None is
inductive alone: that `record` trips exactly at the threshold needs the counter
below it before the step, which is `NoOverdueTransition`; that the counters are
the runs needs to know which states reset them; that a probe follows a full
timeout needs `openedAt` to be the time of the last trip. The proof has one step
per action and one per conjunct. `NotificationsBalance` is inductive given the
types, and is proved on its own: for every pair of states, the changes from one
to the other are the callbacks run plus the callbacks waiting.

Only model-checked: liveness, the refinement of `EventLog` by `EventStore`, and
everything about the other modules.

## Where the code and its documentation disagree

Five runs show it (`findings` in `PROJECT.json`): `pool_panic`,
`eventstore_race`, `bus_panic`, `queue_double`, `outbox_poison`. Also met while
modelling, and visible in the definitions:

- `README.md:319` says a half-open breaker allows one probe; `allow` admits every
  caller (`breaker.go:168`), and closing takes `successThreshold` successes.
- `lock.go:129` promises three chances to renew before expiry; the third is due
  at the expiry itself, and `TwoChances` is what holds. `README.md:719` says the
  lock never expires under a live holder; failed renewals are ignored
  (`lock.go:140`) and the holder is not told.
- `bus.go:63` and `bus.go:85` say an unbuffered subscriber blocks the publisher and
  never drops; the `default` case drops whenever its goroutine is busy.
- `future.go:69` says `Await` blocks until the future resolves or its context is
  cancelled. Only the first caller looks at its context; the others wait for it in
  `once.Do`. Its cancellation is what every later `Await` returns, one with a live
  context too, and `All` and `Race` leave such cancellations behind in the futures
  they did not wait for. `OutcomesExplained` says whose they can be, and that a
  caller who has not given up is not told of one if another `Await` of the future
  returns the result.
- `stream.go:259` and `stream.go:286` say that `FanOut` drops items for a receiver
  that is full, and `stream.go:360` that the receivers of `Tee` do not block each
  other; the sends block (`Send`).
- `stream.go:172` describes `Batch`'s timeout as counted from the last item; the
  timer is reset by a flush only.
- `semaphore.go:196`: `Wait` of a `Barrier` returns when the context is done, but
  not while its arrival blocks, which arrivals beyond those counted and buffered
  do, and a barrier of no parties from the start (`Stuck` in `Gates`).
- `semaphore.go:132` says at most one call per limit; a permit not used is kept, and
  a goroutine that runs late has one tick in hand and another in `ticker.C`, so
  three calls may pass close together. `TimersHold` is what holds.
- `keyed.go:34` says that a key gets its own bucket with the given rate and burst;
  after `Evict` it gets a full one. A ttl shorter than the time in which a bucket
  fills, or a call that is served later than it looked the limiter up, gives it
  more than that rate. `RateHeld` says how much more. A `Delete` forgives whatever
  the limiter lacked.
- `backoff.go:24` promises `min(Initial * Multiplier^n, Max)`; out of the range of a
  `Duration` the product is converted first, and may come out negative.
- `cache.go:107` of `rediscache` says that `Flush` removes all keys under the prefix, and
  `feature.go:181` that `ListAll` returns all flags of the namespace. Both put the
  prefix into the pattern as it is (`cache.go:126`, `feature.go:183`), so with a `*`,
  `?`, `[` or `\` in it they go over the keys it matches as a pattern. `ListAll` cuts
  the name out by the length of the prefix (`feature.go:202`): a foreign key may
  take the name of a flag, and one that is too short makes it panic. It also passes
  over a `GET` that fails and a value that does not decode, and returns no error
  (`feature.go:195`, `feature.go:199`). `ScanSound` is what holds.
- `feature.go:151` says an enabled flag without a percentage is off for whoever is
  not in its list; `IsEnabledFor` returns true (`feature.go:178`).
- The repository's `README.md:1075` gives the shutdown order as pool, gRPC, HTTP;
  HTTP comes before gRPC. The pool comes first, so orders accepted afterwards are
  refused by it or, by the race of `pool_panic`, crash the process; and since
  `Submit` gets the context of a request that has been answered, it may drop an
  order even if the queue has room. `OrdersKept` allows exactly that.
- `queue.go:102` bounds the attempts; attempts that are rolled back do not count.

## Not modelled

Of the modelled packages: a second `Stop` of a pool and a second call of an
unsubscribe (both close a closed channel); two concurrent `Release`s of one
`Lock`, and a ttl too short to be divided by three; the length of the backoff and
the order of a batch in `queue`; `Stop` without `Start` (of a scheduler; of a queue or
an outbox it waits for ever) and a second `Start`; a `Release` of a semaphore without its `Acquire` (it panics, as
documented); the error channels of streams, to which
no producer writes; the counters of the
cache; rates that are not whole numbers; payloads, tracing, logging and metrics.

A stream that is cancelled may end as if it were complete (`Generate` closes its
channel without an error, and `Collect` returns what it has with none):
`StreamFaithful` promises the whole only while the context lives. Operators
without a context stay blocked when their consumer leaves (`Take` leaves its
upstream so), and `AllEnd` does not count them. A call that looked up a limiter
which is dropped before it is used is served by that limiter, beside the key's next
one: `RateHeld` bounds each of them, not their sum. A `WaitN` for more than the burst waits until its context ends.

Other packages: `health.Check` (goroutines that do not share anything),
evaluation of flags (`IsEnabledFor`, a function of one flag and a hash), `Get`
and `MGet` of `rediscache` (one command each), `middleware`, `rpc`, `auth`,
`config`, `validation`, `metrics`, `otel`, `api`, migrations: no state that
outlives a call, configuration, reflection or I/O.

## Plan

Theorems next: `MarkedIsDelivered` and `OnlyCommitted` of `Outbox`,
`LostOnlyByExpiry` of `RedisLock`, `AcceptedRunsOnce` of `WorkerPool`, the
refinement of `EventStore`, `RecordsAreTrue` of `JobQueue`, `GatesHold` of `Gates`
and `SagaAccounts` of `Saga`.
