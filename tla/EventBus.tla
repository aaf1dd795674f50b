------------------------------ MODULE EventBus ------------------------------
(***************************************************************************)
(* pkg/pubsub: publishers and subscriptions of one topic of a Bus.         *)
(*                                                                         *)
(* Publish copies the topic's list under the lock and calls each           *)
(* subscription without it; unsubscribe removes under the lock, cancels    *)
(* and closes without it.  Each of these is a step.                        *)
(***************************************************************************)
EXTENDS Naturals, Sequences

CONSTANTS
  Publishers,   \* goroutines that publish to the topic
  Subs,         \* subscriptions that may be made
  BufSizes,     \* the bufSize arguments of Subscribe, for each subscription
  MaxEvents,    \* bound: events each publisher publishes
  NoEvent

ASSUME BusAssumption ==
  /\ BufSizes \in [Subs -> SUBSET Nat] /\ MaxEvents \in Nat
  /\ NoEvent \notin Publishers \X (1 .. MaxEvents)

VARIABLES
  subs,       \* b.subs[topic]
  sub,        \* how far each subscription is in its life
  ch, bufSize, \* its channel and the channel's capacity
  cancelled,  \* its context
  closed,     \* its channel is closed
  disp,       \* where its dispatch goroutine is
  cur,        \* the event its handler has
  pub,        \* where each publisher is
  count,      \* events each publisher has published
  rest        \* the part of Publish's copy it has yet to call

(* History: the subscriptions as they were when an event's copy was made,  *)
(* what each event met at each of them, the events each handler was given. *)
VARIABLES seen, met, given

life == <<sub, bufSize, cancelled, closed>>
vars == <<subs, sub, ch, bufSize, cancelled, closed, disp, cur, pub, count, rest, seen, met, given>>

Life == {"none", "registered", "removed", "cancelled", "closed"}
Event == Publishers \X (1 .. MaxEvents)
Current(p) == <<p, count[p]>>
-----------------------------------------------------------------------------
Init ==
  /\ subs = <<>>
  /\ sub = [u \in Subs |-> "none"]
  /\ ch = [u \in Subs |-> <<>>]
  /\ bufSize = [u \in Subs |-> 0]
  /\ cancelled = [u \in Subs |-> FALSE]
  /\ closed = [u \in Subs |-> FALSE]
  /\ disp = [u \in Subs |-> "none"]
  /\ cur = [u \in Subs |-> NoEvent]
  /\ pub = [p \in Publishers |-> "idle"]
  /\ count = [p \in Publishers |-> 0]
  /\ rest = [p \in Publishers |-> <<>>]
  /\ seen = [e \in Event |-> sub]
  /\ met = [e \in Event |-> [u \in Subs |-> "nothing"]]
  /\ given = [u \in Subs |-> <<>>]

\* The goroutine is started, then the subscription is registered.
Subscribe(u, n) ==
  /\ sub[u] = "none"
  /\ bufSize' = [bufSize EXCEPT ![u] = n]
  /\ sub' = [sub EXCEPT ![u] = "registered"]
  /\ disp' = [disp EXCEPT ![u] = "select"]
  /\ subs' = Append(subs, u)
  /\ UNCHANGED <<ch, cancelled, closed, cur, pub, count, rest, seen, met, given>>
-----------------------------------------------------------------------------
(* The function Subscribe returns, called once.                            *)

\* Mutant: the subscription stays in the list.
UnregisterNothing(u) ==
  /\ sub[u] = "registered"
  /\ sub' = [sub EXCEPT ![u] = "removed"]
  /\ UNCHANGED <<subs, ch, bufSize, cancelled, closed, disp, cur, pub, count, rest, seen, met, given>>

Unregister(u) ==
  /\ sub[u] = "registered"
  /\ sub' = [sub EXCEPT ![u] = "removed"]
  /\ subs' = SelectSeq(subs, LAMBDA x : x # u)
  /\ UNCHANGED <<ch, bufSize, cancelled, closed, disp, cur, pub, count, rest, seen, met, given>>

\* rh.cancel(): a goroutine parked in the select is woken by this and nothing else.
Cancel(u) ==
  /\ sub[u] = "removed"
  /\ sub' = [sub EXCEPT ![u] = "cancelled"]
  /\ cancelled' = [cancelled EXCEPT ![u] = TRUE]
  /\ disp' = [disp EXCEPT ![u] = IF @ = "parked" THEN "select" ELSE @]
  /\ UNCHANGED <<subs, ch, bufSize, closed, cur, pub, count, rest, seen, met, given>>

Close(u) ==
  /\ sub[u] = "cancelled"
  /\ sub' = [sub EXCEPT ![u] = "closed"]
  /\ closed' = [closed EXCEPT ![u] = TRUE]
  /\ UNCHANGED <<subs, ch, bufSize, cancelled, disp, cur, pub, count, rest, seen, met, given>>
-----------------------------------------------------------------------------
(* Publish.                                                                *)

Copy(p) ==
  /\ pub[p] = "idle" /\ count[p] < MaxEvents
  /\ count' = [count EXCEPT ![p] = @ + 1]
  /\ pub' = [pub EXCEPT ![p] = "publishing"]
  /\ rest' = [rest EXCEPT ![p] = subs]
  /\ seen' = [seen EXCEPT ![<<p, count'[p]>>] = sub]
  /\ UNCHANGED <<subs, life, ch, disp, cur, met, given>>

Calls(p, u, outcome) ==
  /\ pub[p] = "publishing" /\ rest[p] # <<>> /\ u = Head(rest[p])
  /\ met' = [met EXCEPT ![Current(p)][u] = outcome]
  /\ UNCHANGED <<subs, life, count, seen>>

\* The dispatch goroutine starts the handler on e.
Starts(u, e) ==
  /\ disp' = [disp EXCEPT ![u] = "running"]
  /\ cur' = [cur EXCEPT ![u] = e]
  /\ given' = [given EXCEPT ![u] = Append(@, e)]

\* Mutant: the newest event overtakes.
EnqueueInFront(u, e) == ch' = [ch EXCEPT ![u] = <<e>> \o @]

\* Mutant: a new event replaces the waiting ones.
EnqueueLatest(u, e) == ch' = [ch EXCEPT ![u] = <<e>>]

Enqueue(u, e) == ch' = [ch EXCEPT ![u] = Append(@, e)]

Room(u) == Len(ch[u]) < bufSize[u]

\* case ch <- fn: to the parked goroutine, or into the buffer.
Send(p, u) ==
  /\ Calls(p, u, "sent") /\ ~closed[u]
  /\ \/ /\ disp[u] = "parked"
        /\ Starts(u, Current(p))
        /\ UNCHANGED ch
     \/ /\ disp[u] # "parked" /\ Room(u)
        /\ Enqueue(u, Current(p))
        /\ UNCHANGED <<disp, cur, given>>
  /\ rest' = [rest EXCEPT ![p] = Tail(@)]
  /\ UNCHANGED pub

\* default
Drop(p, u) ==
  /\ Calls(p, u, "dropped") /\ ~closed[u]
  /\ disp[u] # "parked" /\ ~Room(u)
  /\ rest' = [rest EXCEPT ![p] = Tail(@)]
  /\ UNCHANGED <<ch, disp, cur, pub, given>>

\* A send on the closed channel: Publish panics and calls nobody else.
SendOnClosed(p, u) ==
  /\ Calls(p, u, "panic") /\ closed[u]
  /\ rest' = [rest EXCEPT ![p] = <<>>]
  /\ pub' = [pub EXCEPT ![p] = "idle"]
  /\ UNCHANGED <<ch, disp, cur, given>>

Return(p) ==
  /\ pub[p] = "publishing" /\ rest[p] = <<>>
  /\ pub' = [pub EXCEPT ![p] = "idle"]
  /\ UNCHANGED <<subs, life, ch, disp, cur, count, rest, seen, met, given>>
-----------------------------------------------------------------------------
(* The dispatch goroutine.                                                 *)

\* No case of the select is ready.
Park(u) ==
  /\ disp[u] = "select" /\ ch[u] = <<>> /\ ~cancelled[u] /\ ~closed[u]
  /\ disp' = [disp EXCEPT ![u] = "parked"]
  /\ UNCHANGED <<subs, life, ch, cur, pub, count, rest, seen, met, given>>

\* case fn, ok := <-ch with ok, even when ctx is done as well.
Take(u) ==
  /\ disp[u] = "select" /\ ch[u] # <<>>
  /\ Starts(u, Head(ch[u]))
  /\ ch' = [ch EXCEPT ![u] = Tail(@)]
  /\ UNCHANGED <<subs, life, pub, count, rest, seen, met>>

\* case <-ctx.Done(), or !ok.
Exit(u) ==
  /\ disp[u] = "select"
  /\ cancelled[u] \/ (closed[u] /\ ch[u] = <<>>)
  /\ disp' = [disp EXCEPT ![u] = "exited"]
  /\ UNCHANGED <<subs, life, ch, cur, pub, count, rest, seen, met, given>>

\* The handler returns.
Finish(u) ==
  /\ disp[u] = "running"
  /\ disp' = [disp EXCEPT ![u] = "select"]
  /\ cur' = [cur EXCEPT ![u] = NoEvent]
  /\ UNCHANGED <<subs, life, ch, pub, count, rest, seen, met, given>>
-----------------------------------------------------------------------------
Terminated ==
  /\ \A p \in Publishers : pub[p] = "idle" /\ count[p] = MaxEvents
  /\ \A u \in Subs : disp[u] \in {"parked", "exited"}
  /\ UNCHANGED vars

PublisherStep(p) ==
  \/ \E u \in Subs : Send(p, u) \/ Drop(p, u) \/ SendOnClosed(p, u)
  \/ Return(p)
DispatcherStep(u) == Park(u) \/ Take(u) \/ Exit(u)

Next ==
  \/ \E p \in Publishers : Copy(p) \/ PublisherStep(p)
  \/ \E u \in Subs : \E n \in BufSizes[u] : Subscribe(u, n)
  \/ \E u \in Subs : \/ Unregister(u) \/ Cancel(u) \/ Close(u)
                     \/ DispatcherStep(u) \/ Finish(u)
  \/ Terminated

Spec == Init /\ [][Next]_vars

(***************************************************************************)
(* Publish and unsubscribe, once called, go on, and a dispatch goroutine   *)
(* that can run does.  Nothing makes a handler return, or anybody publish, *)
(* subscribe or unsubscribe.  With the events bounded every behaviour is   *)
(* finite, and fairness for all of them together is fairness for each.     *)
(***************************************************************************)
Runs ==
  \/ \E p \in Publishers : PublisherStep(p)
  \/ \E u \in Subs : Cancel(u) \/ Close(u) \/ DispatcherStep(u)
Fairness == WF_vars(Runs)

FairSpec == Spec /\ Fairness
-----------------------------------------------------------------------------
\* The types; a channel never holds more than its capacity.
TypeOK ==
  /\ subs \in Seq(Subs)
  /\ sub \in [Subs -> Life]
  /\ ch \in [Subs -> Seq(Event)] /\ \A u \in Subs : Len(ch[u]) <= bufSize[u]
  /\ bufSize \in [Subs -> Nat] /\ \A u \in Subs : bufSize[u] \in BufSizes[u] \union {0}
  /\ cancelled \in [Subs -> BOOLEAN] /\ closed \in [Subs -> BOOLEAN]
  /\ disp \in [Subs -> {"none", "select", "parked", "running", "exited"}]
  /\ cur \in [Subs -> Event \union {NoEvent}]
  /\ pub \in [Publishers -> {"idle", "publishing"}]
  /\ count \in [Publishers -> 0 .. MaxEvents]
  /\ rest \in [Publishers -> Seq(Subs)]
  /\ seen \in [Event -> [Subs -> Life]]
  /\ met \in [Event -> [Subs -> {"nothing", "sent", "dropped", "panic"}]]
  /\ given \in [Subs -> Seq(Event)]

\* A handler gets the events of one publisher in the order they were published,
\* none of them twice, through whichever mix of hand-offs and buffering.
InOrder ==
  \A u \in Subs : \A i, j \in DOMAIN given[u] :
    i < j /\ given[u][i][1] = given[u][j][1] => given[u][i][2] < given[u][j][2]

\* Only unsubscribing loses events: while a subscription is not cancelled, each
\* event sent to it waits in its channel or was given to its handler, and no
\* event reaches the handler that was not sent.
SentIsHandled ==
  \A u \in Subs, e \in Event :
    LET pending == \E i \in DOMAIN ch[u] : ch[u][i] = e
        handled == \E i \in DOMAIN given[u] : given[u][i] = e
    IN  /\ pending \/ handled => met[e][u] = "sent"
        /\ met[e][u] = "sent" /\ ~cancelled[u] => pending \/ handled

\* An event published after unsubscribe took the subscription off the list never
\* gets to its handler, nor panics on its channel: only a Publish that made its
\* copy earlier can meet a subscription that is going away.
QuietAfterUnsubscribe ==
  \A e \in Event, u \in Subs :
    seen[e][u] \in {"removed", "cancelled", "closed"} => met[e][u] = "nothing"

\* No call of Publish is under way, and after unsubscribe no goroutine waits for
\* a channel: it has exited, or a handler has not returned.
Quiet ==
  /\ \A p \in Publishers : pub[p] = "idle"
  /\ \A u \in Subs : sub[u] \in {"none", "registered"} \/ disp[u] \in {"running", "exited"}

\* Publish "is non-blocking for buffered subscribers", and for the others: with
\* the events bounded every call ends, even if no handler ever returns, and the
\* goroutine of a subscription ends after unsubscribe if its handler returns.
BusSettles == []<>Quiet
=============================================================================
