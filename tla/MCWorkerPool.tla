---------------------------- MODULE MCWorkerPool ----------------------------
(* WorkerPool for TLC, and what its comments say that the code does not do. *)
EXTENDS WorkerPool

\* Submit: "Returns ErrPoolStopped if the pool has been stopped."  A call that
\* loses the race against Stop never gets any answer: it panics.
StoppedIsAnError == \A j \in Job : answer[j] # "panic"
=============================================================================
