------------------------------ MODULE EventLog ------------------------------
(***************************************************************************)
(* What pkg/eventstore promises its writers: a stream is an append-only    *)
(* sequence; an Append takes effect in one instant, whole, at a moment     *)
(* when its expected version holds, or not at all.                         *)
(***************************************************************************)
EXTENDS Integers, Sequences

CONSTANTS Writers, Streams, Event, NoCall

VARIABLES
  log,    \* the events of each stream
  call,   \* the Append each writer is in, or NoCall
  ret     \* what each writer's last Append returned

vars == <<log, call, ret>>

ExpectedVersionNew == -1
ExpectedVersionAny == -2

Request == [stream : Streams, expected : Int, events : Seq(Event)]

\* The expectation of an Append on a stream that holds the events of s.
Fits(expected, s) ==
  \/ expected = ExpectedVersionAny
  \/ expected = ExpectedVersionNew /\ Len(s) = 0
  \/ expected >= 0 /\ expected = Len(s) - 1

Init ==
  /\ log = [s \in Streams |-> <<>>]
  /\ call = [w \in Writers |-> NoCall]
  /\ ret = [w \in Writers |-> "none"]

Call(w) ==
  /\ call[w] = NoCall
  /\ call'[w] \in Request
  /\ call' = [call EXCEPT ![w] = call'[w]]
  /\ UNCHANGED <<log, ret>>

Return(w, answers) ==
  /\ call[w] # NoCall
  /\ call' = [call EXCEPT ![w] = NoCall]
  /\ \E a \in answers : ret' = [ret EXCEPT ![w] = a]

\* The answer may be lost on its way: an error says nothing about the effect.
TakeEffect(w) ==
  /\ Return(w, {"ok", "error"})
  /\ Fits(call[w].expected, log[call[w].stream])
  /\ log' = [log EXCEPT ![call[w].stream] = @ \o call[w].events]

Fail(w) ==
  /\ Return(w, {"conflict", "error"})
  /\ UNCHANGED log

Next == \E w \in Writers : Call(w) \/ TakeEffect(w) \/ Fail(w)

Spec == Init /\ [][Next]_vars
=============================================================================
