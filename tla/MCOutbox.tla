------------------------------ MODULE MCOutbox ------------------------------
(* Outbox for TLC, and what its documentation says that the code does not do. *)
EXTENDS Outbox

\* README: the outbox "guarantees at-least-once event delivery".  An event the
\* publisher accepts is delivered while a relay runs, whatever the others are.
AcceptableDelivered ==
  \A e \in Events \ Poisoned :
    business[e] = "committed" ~> (delivered[e] > 0 \/ ~Running)
=============================================================================
