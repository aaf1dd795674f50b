------------------------------- MODULE Stream -------------------------------
(***************************************************************************)
(* pkg/async/stream.go.  A network of goroutines connected by channels:    *)
(* FromSlice, operators, and consumers that Collect or ForEach.  A         *)
(* channel carries items; an item is a sequence of values, longer than one *)
(* only behind Batch.  No operator ever produces an error of its own, so   *)
(* an errCh is only ever closed, together with its ch, and is left out.    *)
(***************************************************************************)
EXTENDS Integers, Sequences, SequencesExt

CONSTANTS
  Networks, \* sequences of goroutines [op, in, outs, n], see Ops
  MaxSize,  \* bound on the goroutines and on the channels of a network
  Items,    \* the slice given to FromSlice
  Cap       \* capacity of the channels (1, 4 or 16 in the code)

VARIABLES
  net,      \* the network, empty before Start
  q,        \* q[c]: the items in channel c
  closed,   \* the closed channels
  g,        \* g[i]: the state of goroutine i, see Goroutine
  ctxDone   \* the context of the operators and of the consumers is done

streamVars == <<net, q, closed, g, ctxDone>>

(* Map, Filter, Batch and Take do not look at any context.                 *)
CtxOps == {"fanout", "tee", "forward", "ordone"}
Sinks == {"collect", "foreach"}
Ops == {"generate", "map", "filter", "batch", "take"} \union CtxOps \union Sinks
Chans == 1 .. MaxSize
Item == Seq(Int)

(* rest: channels still to be sent to or closed; acc: the values FromSlice *)
(* has left, Batch's buf, or what a consumer has got; end: how it left,    *)
(* "early" meaning before its input ended.                                 *)
Goroutine == [pc : {"recv", "send", "close", "done"}, item : Item, rest : Seq(Chans),
              acc : Seq(Int), count : Nat, end : {"no", "closed", "early", "cancelled"}]

TypeOK ==
  /\ \A i \in DOMAIN net : net[i] \in [op : Ops, in : 0 .. MaxSize, outs : Seq(Chans), n : Nat]
  /\ \A c \in Chans : q[c] \in Seq(Item) /\ Len(q[c]) <= Cap
  /\ closed \subseteq Chans
  /\ g \in [DOMAIN net -> Goroutine]
  /\ ctxDone \in BOOLEAN

Init ==
  /\ net = <<>> /\ g = <<>> /\ closed = {} /\ ctxDone = FALSE
  /\ q = [c \in Chans |-> <<>>]

(* The functions given to Map and to Filter.                               *)
Fn(v) == v + 10
Keep(v) == v % 2 = 1

Start(network) ==
  /\ net = <<>>
  /\ net' = network
  /\ g' = [i \in DOMAIN network |->
             [pc |-> "recv", item |-> <<>>, rest |-> <<>>,
              acc |-> IF network[i].op = "generate" THEN Items ELSE <<>>,
              count |-> 0, end |-> "no"]]
  /\ UNCHANGED <<q, closed, ctxDone>>

Cancel ==
  /\ net # <<>> /\ ~ctxDone
  /\ ctxDone' = TRUE
  /\ UNCHANGED <<net, q, closed, g>>

-----------------------------------------------------------------------------
Room(c) == Len(q[c]) < Cap
Drained(c) == q[c] = <<>> /\ c \in closed

(* Leaving runs the deferred closes; those of Tee run last in, first out.  *)
(* The forwarders of FanIn only call wg.Done.                              *)
ToClose(i) == CASE net[i].op = "forward" -> <<>>
                [] net[i].op = "tee" -> Reverse(net[i].outs)
                [] OTHER -> net[i].outs

Left(i, why) ==
  [g[i] EXCEPT !.pc = IF ToClose(i) = <<>> THEN "done" ELSE "close",
               !.rest = ToClose(i), !.end = why, !.item = <<>>]

Sending(i, item) == [g[i] EXCEPT !.pc = "send", !.item = item, !.rest = net[i].outs]

(* Generate with the producer of FromSlice: send selects between the       *)
(* context and the channel.                                                *)
Generate(i) ==
  /\ net[i].op = "generate" /\ g[i].pc = "recv"
  /\ LET c == net[i].outs[1] IN
     \/ /\ g[i].acc = <<>>
        /\ g' = [g EXCEPT ![i] = Left(i, "closed")]
        /\ UNCHANGED q
     \/ /\ g[i].acc # <<>> /\ ctxDone
        /\ g' = [g EXCEPT ![i] = Left(i, "cancelled")]
        /\ UNCHANGED q
     \/ /\ g[i].acc # <<>> /\ Room(c)
        /\ q' = [q EXCEPT ![c] = Append(@, <<Head(g[i].acc)>>)]
        /\ g' = [g EXCEPT ![i].acc = Tail(@)]
  /\ UNCHANGED <<net, closed, ctxDone>>

(* Batch: a full buffer is flushed; a size of 0 flushes every item.        *)
Flushing(i, buf) == [Sending(i, buf) EXCEPT !.acc = <<>>]

BatchItem(i, item) ==
  LET buf == g[i].acc \o item
  IN IF Len(buf) >= net[i].n THEN Flushing(i, buf) ELSE [g[i] EXCEPT !.acc = buf]

(* Take looks at the count when it has the next item in hand.              *)
TakeItem(i, item) ==
  IF g[i].count >= net[i].n THEN Left(i, "early")
  ELSE [Sending(i, item) EXCEPT !.count = @ + 1]

Got(i, item) == [g[i] EXCEPT !.acc = @ \o item]

Handled(i, item) ==
  CASE net[i].op = "map" -> {Sending(i, <<Fn(item[1])>>)}
    [] net[i].op = "filter" -> {IF Keep(item[1]) THEN Sending(i, item) ELSE g[i]}
    [] net[i].op = "batch" -> {BatchItem(i, item)}
    [] net[i].op = "take" -> {TakeItem(i, item)}
    [] net[i].op \in CtxOps -> {Sending(i, item)}
    [] net[i].op = "collect" -> {Got(i, item)}
    [] net[i].op = "foreach" -> {Got(i, item), [Left(i, "early") EXCEPT !.acc = @ \o item]}

Receive(i) ==
  /\ net[i].op # "generate" /\ g[i].pc = "recv" /\ q[net[i].in] # <<>>
  /\ \E next \in Handled(i, Head(q[net[i].in])) : g' = [g EXCEPT ![i] = next]
  /\ q' = [q EXCEPT ![net[i].in] = Tail(@)]
  /\ UNCHANGED <<net, closed, ctxDone>>

(* The timer of Batch, which only matters when there is something to flush. *)
Timer(i) ==
  /\ net[i].op = "batch" /\ g[i].pc = "recv" /\ g[i].acc # <<>>
  /\ g' = [g EXCEPT ![i] = Flushing(i, g[i].acc)]
  /\ UNCHANGED <<net, q, closed, ctxDone>>

(* Mutant: Batch forgets what it has when its input ends. *)
InputEndsUnflushed(i) ==
  /\ net[i].op # "generate" /\ g[i].pc = "recv" /\ Drained(net[i].in)
  /\ g' = [g EXCEPT ![i] = Left(i, "closed")]
  /\ UNCHANGED <<net, q, closed, ctxDone>>

(* The input is closed and empty: Batch flushes what it has, and then as   *)
(* the others leaves.                                                      *)
InputEnds(i) ==
  /\ net[i].op # "generate" /\ g[i].pc = "recv" /\ Drained(net[i].in)
  /\ g' = [g EXCEPT ![i] = IF net[i].op = "batch" /\ g[i].acc # <<>>
                           THEN Flushing(i, g[i].acc) ELSE Left(i, "closed")]
  /\ UNCHANGED <<net, q, closed, ctxDone>>

Send(i) ==
  /\ g[i].pc = "send" /\ Room(Head(g[i].rest))
  /\ q' = [q EXCEPT ![Head(g[i].rest)] = Append(@, g[i].item)]
  /\ g' = [g EXCEPT ![i].rest = Tail(@),
                    ![i].pc = IF Len(g[i].rest) = 1 THEN "recv" ELSE "send",
                    ![i].item = IF Len(g[i].rest) = 1 THEN <<>> ELSE @]
  /\ UNCHANGED <<net, closed, ctxDone>>

(* Mutant: a send that does not look at the context. *)
CancelledWhileReceiving(i) ==
  /\ ctxDone /\ net[i].op \in CtxOps \union Sinks /\ g[i].pc = "recv"
  /\ g' = [g EXCEPT ![i] = Left(i, "cancelled")]
  /\ UNCHANGED <<net, q, closed, ctxDone>>

(* The operators with a context select on it around every receive and send. *)
Cancelled(i) ==
  /\ ctxDone /\ net[i].op \in CtxOps \union Sinks /\ g[i].pc \in {"recv", "send"}
  /\ g' = [g EXCEPT ![i] = Left(i, "cancelled")]
  /\ UNCHANGED <<net, q, closed, ctxDone>>

Close(i) ==
  /\ g[i].pc = "close"
  /\ closed' = closed \union {Head(g[i].rest)}
  /\ g' = [g EXCEPT ![i].rest = Tail(@), ![i].pc = IF Len(g[i].rest) = 1 THEN "done" ELSE "close"]
  /\ UNCHANGED <<net, q, ctxDone>>

Forwarders(c) == {i \in DOMAIN net : net[i].op = "forward" /\ net[i].outs = <<c>>}

(* The last goroutine of FanIn, after wg.Wait.                             *)
CloseMerged(c) ==
  /\ c \notin closed /\ Forwarders(c) # {}
  /\ \A i \in Forwarders(c) : g[i].pc = "done"
  /\ closed' = closed \union {c}
  /\ UNCHANGED <<net, q, g, ctxDone>>

-----------------------------------------------------------------------------
Runs(i) == Generate(i) \/ Receive(i) \/ Timer(i) \/ InputEnds(i) \/ Send(i)
           \/ Cancelled(i) \/ Close(i)

Next ==
  \/ \E network \in Networks : Start(network)
  \/ \E i \in DOMAIN net : Runs(i)
  \/ \E c \in Chans : CloseMerged(c)
  \/ Cancel

(* The slice is finite, and so is every behaviour: that the goroutines     *)
(* together go on while one of them can is then fairness for each.         *)
Fairness ==
  WF_streamVars((\E i \in DOMAIN net : Runs(i)) \/ (\E c \in Chans : CloseMerged(c)))

Done(i) == g[i].pc = "done"
AllSinksDone == net # <<>> /\ \A i \in DOMAIN net : net[i].op \in Sinks => Done(i)

-----------------------------------------------------------------------------
(* What a channel has to carry, as a function of the slice: the operators  *)
(* applied one after the other to whole sequences.                         *)
Carries[c \in Chans] ==
  LET i == CHOOSE j \in DOMAIN net : c \in {net[j].outs[k] : k \in DOMAIN net[j].outs}
      from == IF net[i].in = 0 THEN <<>> ELSE Carries[net[i].in]
  IN CASE net[i].op = "generate" -> Items
       [] net[i].op = "map" -> [k \in DOMAIN from |-> Fn(from[k])]
       [] net[i].op = "filter" -> SelectSeq(from, Keep)
       [] net[i].op = "take" -> SubSeq(from, 1, IF net[i].n < Len(from) THEN net[i].n ELSE Len(from))
       [] OTHER -> from

Copies(v, s) == Len(SelectSeq(s, LAMBDA w : w = v))

(* Of two copies merged by FanIn a consumer has got, at any time, a prefix *)
(* of each: no value more often than the one before it, none more than     *)
(* once per forwarder.                                                     *)
Interleaves(s, from, n) ==
  \A k \in DOMAIN from : Copies(from[k], s) <= IF k = 1 THEN n ELSE Copies(from[k - 1], s)

(* What a consumer has got is a prefix of what the operators make of the   *)
(* slice, in order, nothing lost, nothing twice; all of it once its        *)
(* channel has ended, unless the context was done.  Batches are not empty  *)
(* and no longer than their size.  (Generate, Map, Filter, Batch, Take,    *)
(* FanOut, FanIn, Tee, OrDone, Collect, ForEach.)                          *)
StreamFaithful ==
  /\ \A i \in DOMAIN net : net[i].op \in Sinks =>
       LET n == Len(SetToSeq(Forwarders(net[i].in)))
           from == Carries[net[i].in]
           whole == g[i].end = "closed" /\ ~ctxDone
       IN IF n = 0
          THEN IsPrefix(g[i].acc, from) /\ (whole => g[i].acc = from)
          ELSE Interleaves(g[i].acc, from, n) /\ (whole => Len(g[i].acc) = n * Len(from))
  /\ \A i \in DOMAIN net : net[i].op = "batch" =>
       \A k \in DOMAIN q[net[i].outs[1]] :
         LET size == Len(q[net[i].outs[1]][k]) IN size = 1 \/ size \in 1 .. net[i].n

(* Everything ends.  Consumers that do not leave get to their end; if      *)
(* nothing is cancelled and nothing leaves early no goroutine stays; and   *)
(* once the context is done the consumers and every operator that takes a  *)
(* context leave, whatever they were waiting for.                          *)
Settled ==
  /\ ctxDone => \A i \in DOMAIN net :
       net[i].op \in {"generate"} \union CtxOps \union Sinks => Done(i)
  /\ (\A i \in DOMAIN net : net[i].op \in Sinks => g[i].end # "early") => AllSinksDone
  /\ (~ctxDone /\ \A i \in DOMAIN net : g[i].end # "early") => \A i \in DOMAIN net : Done(i)
StreamEnds == net # <<>> ~> Settled
=============================================================================
