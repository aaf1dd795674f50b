----------------------------- MODULE MCJobQueue -----------------------------
(* JobQueue for TLC, and what its documentation says that the code does not do. *)
EXTENDS JobQueue

\* README: workers "can poll safely without double-delivery".
NoDoubleDelivery == \A j \in Jobs : oks[j] <= 1
=============================================================================
