----------------------------- MODULE MCEventBus -----------------------------
(* EventBus for TLC, and what its comments say that the code does not do.  *)
EXTENDS EventBus

OnePlaceEach == [u \in Subs |-> {1}]

\* "Publish delivers payload to all current subscribers of topic": once Publish
\* is over, it has called each subscription that was registered when it began
\* and still is, whatever the others did meanwhile.
OfferedToAll ==
  \A p \in Publishers, u \in Subs :
    /\ pub[p] = "idle" /\ count[p] > 0
    /\ seen[Current(p)][u] = "registered" /\ sub[u] = "registered"
    => met[Current(p)][u] # "nothing"
=============================================================================
