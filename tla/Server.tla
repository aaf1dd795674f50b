------------------------------- MODULE Server -------------------------------
(***************************************************************************)
(* examples/server: how an order gets from a request to a worker, and what *)
(* graceful.Group does to it.  The handlers of POST /orders and PlaceOrder *)
(* publish on the bus; the goroutine of the one subscription submits to    *)
(* the pool, which is the module WorkerPool, with the context of the       *)
(* request; the hooks of the group stop pool, servers and scheduler.       *)
(***************************************************************************)
EXTENDS Integers, Sequences, SequencesExt, FiniteSets

CONSTANTS
  HttpOrders, GrpcOrders,   \* the orders, by the way they come
  Workers, QueueSize,       \* of the pool
  Buffer                    \* of the subscription

VARIABLES queueSize, stopped, jobs, closed, sub, offered, worker, job, stop,
          submitted, completed, errors, inFlight, answer, runs   \* of the pool

VARIABLES
  server,       \* "down", "up", "exited", or "crashed" by a panic
  request,      \* request[o]: "none", "open", "published", "answered"
  ctxDone,      \* the orders whose request context is done
  buffer,       \* the channel of the subscription
  took,         \* the orders its goroutine has taken from it
  hook,         \* the hook that runs; above them before the signal, 0 after all
  timedOut      \* the context of Shutdown is done

VARIABLE dropped \* history: the orders that found the buffer full

Orders == HttpOrders \union GrpcOrders
d == "dispatcher"
Pool == INSTANCE WorkerPool WITH
  Submitters <- {d}, QueueSizes <- {QueueSize}, MaxJobs <- Cardinality(Orders)

pool == <<queueSize, stopped, jobs, closed, sub, offered, worker, job, stop,
          submitted, completed, errors, inFlight, answer, runs>>
front == <<request, ctxDone, buffer, dropped>>
serverVars == <<pool, server, front, took, hook, timedOut>>

(* In the order of registration; Shutdown runs them from the last one.     *)
Hooks == <<"scheduler", "grpc-server", "http-server", "order-pool">>
Serving == Len(Hooks) + 1
Runs(name) == server = "up" /\ hook \in DOMAIN Hooks /\ Hooks[hook] = name
Begun(name) == \E i \in DOMAIN Hooks : Hooks[i] = name /\ hook <= i

TypeOK ==
  /\ Pool!TypeOK
  /\ server \in {"down", "up", "exited", "crashed"}
  /\ request \in [Orders -> {"none", "open", "published", "answered"}]
  /\ ctxDone \subseteq Orders /\ dropped \subseteq Orders
  /\ buffer \in Seq(Orders) /\ took \in Seq(Orders)
  /\ hook \in 0 .. Serving /\ timedOut \in BOOLEAN

Init ==
  /\ Pool!Init
  /\ server = "down" /\ hook = Serving /\ timedOut = FALSE
  /\ request = [o \in Orders |-> "none"] /\ ctxDone = {} /\ dropped = {}
  /\ buffer = <<>> /\ took = <<>>

Launch ==
  /\ server = "down" /\ server' = "up"
  /\ Pool!Start
  /\ UNCHANGED <<request, ctxDone, buffer, dropped, took, hook, timedOut>>

-----------------------------------------------------------------------------
(* The requests.  The context of a request is done when its handler        *)
(* returns, or before that when the client leaves or the Timeout           *)
(* middleware ends it.                                                     *)
Accept(o) ==
  /\ server = "up" /\ request[o] = "none"
  /\ ~Begun(IF o \in HttpOrders THEN "http-server" ELSE "grpc-server")
  /\ request' = [request EXCEPT ![o] = "open"]
  /\ UNCHANGED <<pool, server, ctxDone, buffer, dropped, took, hook, timedOut>>

Publish(o) ==
  /\ server = "up" /\ request[o] = "open"
  /\ request' = [request EXCEPT ![o] = "published"]
  /\ IF Len(buffer) < Buffer
     THEN buffer' = Append(buffer, o) /\ UNCHANGED dropped
     ELSE dropped' = dropped \union {o} /\ UNCHANGED buffer
  /\ UNCHANGED <<pool, server, ctxDone, took, hook, timedOut>>

Answer(o) ==
  /\ server = "up" /\ request[o] = "published"
  /\ request' = [request EXCEPT ![o] = "answered"]
  /\ ctxDone' = ctxDone \union {o}
  /\ UNCHANGED <<pool, server, buffer, dropped, took, hook, timedOut>>

ContextEnds(o) ==
  /\ server = "up" /\ request[o] \in {"open", "published"} /\ o \notin ctxDone
  /\ ctxDone' = ctxDone \union {o}
  /\ UNCHANGED <<pool, server, request, buffer, dropped, took, hook, timedOut>>

-----------------------------------------------------------------------------
(* The goroutine of the subscription. *)
Take ==
  /\ server = "up" /\ buffer # <<>>
  /\ sub[d] = "idle" /\ offered[d] = Len(took)
  /\ took' = Append(took, Head(buffer)) /\ buffer' = Tail(buffer)
  /\ UNCHANGED <<pool, server, request, ctxDone, dropped, hook, timedOut>>

(* Nothing recovers the panic of a send on the closed channel. *)
Submit ==
  /\ server = "up"
  /\ \/ offered[d] < Len(took) /\ Pool!CheckStopped(d, "Submit") /\ UNCHANGED server
     \/ (Pool!Send(d) \/ Pool!CountSubmitted(d)) /\ UNCHANGED server
     \/ sub[d] = "Submit" /\ Last(took) \in ctxDone /\ Pool!Cancelled(d) /\ UNCHANGED server
     \/ Pool!SendOnClosed(d) /\ server' = "crashed"
  /\ UNCHANGED <<request, ctxDone, buffer, dropped, took, hook, timedOut>>

(* processOrder returns no error. *)
Work(w) ==
  /\ server = "up"
  /\ \/ Pool!Receive(w) \/ Pool!Begin(w) \/ Pool!Finish(w) \/ Pool!Complete(w)
     \/ Pool!Report(w, FALSE)
  /\ UNCHANGED <<server, request, ctxDone, buffer, dropped, took, hook, timedOut>>

-----------------------------------------------------------------------------
(* ListenAndShutdown and Shutdown. *)
Signal ==
  /\ server = "up" /\ hook = Serving
  /\ hook' = hook - 1
  /\ UNCHANGED <<pool, server, request, ctxDone, buffer, dropped, took, timedOut>>

ShutdownTimeout ==
  /\ server = "up" /\ hook < Serving /\ ~timedOut
  /\ timedOut' = TRUE
  /\ UNCHANGED <<pool, server, request, ctxDone, buffer, dropped, took, hook>>

(* Mutant: the hook does not wait for the workers. *)
StopPoolAtOnce ==
  /\ Runs("order-pool")
  /\ \/ Pool!StoreStopped /\ UNCHANGED hook
     \/ Pool!CloseJobs /\ hook' = hook - 1
  /\ UNCHANGED <<server, request, ctxDone, buffer, dropped, took, timedOut>>

(* Pool.Stop takes no context: the timeout does not end it. *)
StopPool ==
  /\ Runs("order-pool")
  /\ \/ (Pool!StoreStopped \/ Pool!CloseJobs) /\ UNCHANGED hook
     \/ Pool!Wait /\ hook' = hook - 1
  /\ UNCHANGED <<server, request, ctxDone, buffer, dropped, took, timedOut>>

InHandler(orders) == {o \in orders : request[o] \in {"open", "published"}}

StopServers ==
  /\ \/ Runs("http-server") /\ (InHandler(HttpOrders) = {} \/ timedOut)
     \/ Runs("grpc-server") /\ InHandler(GrpcOrders) = {}
     \/ Runs("scheduler")
  /\ hook' = hook - 1
  /\ UNCHANGED <<pool, server, request, ctxDone, buffer, dropped, took, timedOut>>

Exit ==
  /\ server = "up" /\ hook = 0 /\ server' = "exited"
  /\ UNCHANGED <<pool, request, ctxDone, buffer, dropped, took, hook, timedOut>>

-----------------------------------------------------------------------------
Goes ==
  \/ \E o \in Orders : Publish(o) \/ Answer(o)
  \/ Take \/ Submit \/ \E w \in Workers : Work(w)
  \/ StopPool \/ StopServers \/ Exit

Next ==
  \/ Launch \/ Signal \/ ShutdownTimeout
  \/ \E o \in Orders : Accept(o) \/ ContextEnds(o)
  \/ Goes

Fairness == WF_serverVars(Goes)

-----------------------------------------------------------------------------
(* The server exits with the pool drained, every order it took processed   *)
(* once, and with no handler at work but one of HTTP that outlived the     *)
(* timeout.  While no signal has come an order that was published is lost  *)
(* only to a full buffer or to the end of its request's context, and       *)
(* nothing crashes.  (A signal stops the pool before the servers: what     *)
(* they accept after that is refused, or crashes the process.)             *)
OrdersKept ==
  /\ server = "exited" =>
       /\ jobs = <<>> /\ inFlight = 0
       /\ \A k \in 1 .. offered[d] : answer[<<d, k>>] = "accepted" => runs[<<d, k>>] = 1
       /\ \A i, k \in DOMAIN took : took[i] = took[k] => i = k
       /\ InHandler(GrpcOrders) = {} /\ (InHandler(HttpOrders) # {} => timedOut)
  /\ hook = Serving =>
       /\ server # "crashed"
       /\ \A o \in Orders :
            request[o] \in {"published", "answered"}
            => o \in dropped \/ Contains(buffer, o) \/ Contains(took, o)
       /\ \A k \in 1 .. offered[d] :
            answer[<<d, k>>] \in {"none", "accepted"} \/ took[k] \in ctxDone

(* After the signal the server comes to an end, with or without the order. *)
Down == hook < Serving => server # "up"
ShutdownEnds == hook < Serving ~> Down
=============================================================================
