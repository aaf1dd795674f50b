------------------------------ MODULE JobQueue ------------------------------
(***************************************************************************)
(* pkg/queue over Postgres: workers of any number of processes poll one    *)
(* table of jobs.                                                          *)
(*                                                                         *)
(* A worker runs a whole batch inside the transaction that locked it.  The *)
(* errors of its UPDATEs are ignored, so after a failed statement, a lost  *)
(* connection or a cancelled context it goes on calling handlers and only  *)
(* the commit fails: everything it recorded is undone, whatever was run.   *)
(***************************************************************************)
EXTENDS Naturals, Sequences, FiniteSets

CONSTANTS
  Jobs,         \* jobs that may be enqueued
  Workers,
  MaxAttempts,  \* max_attempts of every job, not validated by Enqueue
  Limit,        \* LIMIT of the polling query (10 in the code)
  MaxFaults     \* bound: failed statements and commits, lost connections, crashes

ASSUME QueueAssumption ==
  /\ IsFiniteSet(Jobs)
  /\ MaxAttempts \in Nat /\ Limit \in Nat \ {0} /\ MaxFaults \in Nat

VARIABLES
  handlers,   \* the jobs with a type that was registered before Start
  rows,       \* table jobs, as committed
  worker,     \* where each worker is
  batch,      \* the jobs of its batch it has yet to finish
  tx,         \* its transaction: "none", "open", or "failed" at the server
  update,     \* the rows it has locked, as updated by it
  ctxDone,    \* the context given to Start
  stop,       \* where Stop is
  faults

(* History: how often each job's handler was called, how often it succeeded. *)
VARIABLES runs, oks

database == <<rows, tx, update>>
history == <<runs, oks>>
vars == <<handlers, database, worker, batch, ctxDone, stop, faults, history>>

Settled == {"done", "failed", "dead"}
NoRow == [status |-> "none", attempts |-> 0, due |-> FALSE]

Fault == faults < MaxFaults /\ faults' = faults + 1
-----------------------------------------------------------------------------
Init ==
  /\ handlers \in SUBSET Jobs
  /\ rows = [j \in Jobs |-> NoRow]
  /\ worker = [w \in Workers |-> "select"]
  /\ batch = [w \in Workers |-> <<>>]
  /\ tx = [w \in Workers |-> "none"]
  /\ update = [w \in Workers |-> <<>>]
  /\ ctxDone = FALSE /\ stop = "uncalled" /\ faults = 0
  /\ runs = [j \in Jobs |-> 0]
  /\ oks = [j \in Jobs |-> 0]

\* The INSERT of Enqueue becomes visible: the caller's transaction commits.
Enqueue(j, delayed) ==
  /\ rows[j] = NoRow
  /\ rows' = [rows EXCEPT ![j] = [status |-> "pending", attempts |-> 0, due |-> ~delayed]]
  /\ UNCHANGED <<handlers, tx, update, worker, batch, ctxDone, stop, faults, history>>

\* run_at is reached.
Due(j) ==
  /\ rows[j].status = "pending" /\ ~rows[j].due
  /\ rows' = [rows EXCEPT ![j].due = TRUE]
  /\ UNCHANGED <<handlers, tx, update, worker, batch, ctxDone, stop, faults, history>>
-----------------------------------------------------------------------------
(* workerLoop and processBatch.                                            *)

\* Mutant: FOR UPDATE is missing.
NothingLocked == {}

\* Rows locked by open transactions: one that failed has let go of its locks,
\* even if its worker has yet to find out.
Locked == UNION {DOMAIN update[w] : w \in {v \in Workers : tx[v] = "open"}}

Ready == {j \in Jobs : rows[j].status = "pending" /\ rows[j].due} \ Locked

\* case <-ticker.C: BEGIN and the SELECT.  Which jobs come first (ORDER BY
\* run_at) is left open.  An empty batch commits and changes nothing.
Poll(w) ==
  /\ worker[w] = "select" /\ ~ctxDone
  /\ \E n \in 1 .. Limit : \E b \in [1 .. n -> Ready] :
       /\ Cardinality({b[i] : i \in 1 .. n}) = n
       /\ n = Limit \/ n = Cardinality(Ready)
       /\ batch' = [batch EXCEPT ![w] = b]
       /\ update' = [update EXCEPT ![w] = [j \in {b[i] : i \in 1 .. n} |-> rows[j]]]
  /\ worker' = [worker EXCEPT ![w] = "loop"]
  /\ tx' = [tx EXCEPT ![w] = "open"]
  /\ UNCHANGED <<handlers, rows, ctxDone, stop, faults, history>>

\* case <-q.stop, case <-ctx.Done().
Exit(w) ==
  /\ worker[w] = "select" /\ (ctxDone \/ stop # "uncalled")
  /\ worker' = [worker EXCEPT ![w] = "exited"]
  /\ UNCHANGED <<handlers, database, batch, ctxDone, stop, faults, history>>

\* executeJob calls the handler of the next job.
Handle(w) ==
  /\ worker[w] = "loop" /\ batch[w] # <<>> /\ Head(batch[w]) \in handlers
  /\ worker' = [worker EXCEPT ![w] = "handler"]
  /\ runs' = [runs EXCEPT ![Head(batch[w])] = @ + 1]
  /\ UNCHANGED <<handlers, database, batch, ctxDone, stop, faults, oks>>

Dead(attempts) == attempts >= MaxAttempts

\* Mutant: an error is recorded as success.
OutcomeIgnoresError(row, ok) ==
  [status |-> "done", attempts |-> row.attempts + 1, due |-> FALSE]

\* What the UPDATE after the handler's return stores; a retry waits for its backoff.
Outcome(row, ok) ==
  [status   |-> IF ok THEN "done" ELSE IF Dead(row.attempts + 1) THEN "dead" ELSE "pending",
   attempts |-> row.attempts + 1,
   due      |-> FALSE]

\* tx.Exec with its error ignored.  A statement can fail only while it could
\* have worked; in a failed transaction, or with ctx done, it does nothing.
Exec(w, j, row) ==
  \/ /\ tx[w] = "open" /\ ~ctxDone
     /\ update' = [update EXCEPT ![w][j] = row]
     /\ UNCHANGED <<tx, faults>>
  \/ /\ tx[w] = "open" /\ ~ctxDone /\ Fault
     /\ tx' = [tx EXCEPT ![w] = "failed"]
     /\ UNCHANGED update
  \/ /\ tx[w] # "open" \/ ctxDone
     /\ UNCHANGED <<tx, update, faults>>

NextJob(w) ==
  /\ worker' = [worker EXCEPT ![w] = "loop"]
  /\ batch' = [batch EXCEPT ![w] = Tail(@)]
  /\ UNCHANGED <<handlers, rows, ctxDone, stop>>

\* The handler returns and its outcome is recorded.
Record(w, ok) ==
  /\ worker[w] = "handler"
  /\ LET j == Head(batch[w])
     IN  /\ Exec(w, j, Outcome(update[w][j], ok))
         /\ oks' = IF ok THEN [oks EXCEPT ![j] = @ + 1] ELSE oks
  /\ NextJob(w)
  /\ UNCHANGED runs

\* No handler for the type.
Fail(w) ==
  /\ worker[w] = "loop" /\ batch[w] # <<>> /\ Head(batch[w]) \notin handlers
  /\ LET j == Head(batch[w])
     IN  Exec(w, j, [update[w][j] EXCEPT !.status = "failed"])
  /\ NextJob(w)
  /\ UNCHANGED history

EndTx(w) ==
  /\ tx' = [tx EXCEPT ![w] = "none"]
  /\ update' = [update EXCEPT ![w] = <<>>]

Written(w) == [j \in Jobs |-> IF j \in DOMAIN update[w] THEN update[w][j] ELSE rows[j]]

\* Mutant: the state of the transaction does not matter.
CommitAlways(w) ==
  /\ worker[w] = "loop" /\ batch[w] = <<>>
  /\ rows' = Written(w)
  /\ EndTx(w)
  /\ worker' = [worker EXCEPT ![w] = "select"]
  /\ UNCHANGED <<handlers, batch, ctxDone, stop, faults, history>>

\* fn returned nil, as it always does, and COMMIT works.
Commit(w) ==
  /\ worker[w] = "loop" /\ batch[w] = <<>>
  /\ tx[w] = "open" /\ ~ctxDone
  /\ rows' = Written(w)
  /\ EndTx(w)
  /\ worker' = [worker EXCEPT ![w] = "select"]
  /\ UNCHANGED <<handlers, batch, ctxDone, stop, faults, history>>

\* Mutant: the failed transaction is never ended and keeps its locks.
CommitFailsLeaks(w) ==
  /\ worker[w] = "loop" /\ batch[w] = <<>>
  /\ IF tx[w] = "open" /\ ~ctxDone THEN Fault ELSE UNCHANGED faults
  /\ worker' = [worker EXCEPT ![w] = "select"]
  /\ UNCHANGED <<handlers, database, batch, ctxDone, stop, history>>

\* COMMIT fails: the transaction had failed, ctx is done, or the
\* connection breaks now.
CommitFails(w) ==
  /\ worker[w] = "loop" /\ batch[w] = <<>>
  /\ IF tx[w] = "open" /\ ~ctxDone THEN Fault ELSE UNCHANGED faults
  /\ EndTx(w)
  /\ worker' = [worker EXCEPT ![w] = "select"]
  /\ UNCHANGED <<handlers, rows, batch, ctxDone, stop, history>>

\* The connection is lost and the server rolls back; the worker does not notice.
ConnectionLost(w) ==
  /\ tx[w] = "open" /\ Fault
  /\ tx' = [tx EXCEPT ![w] = "failed"]
  /\ UNCHANGED <<handlers, rows, update, worker, batch, ctxDone, stop, history>>

\* The worker's process dies (a handler that panics does this too) and is
\* started again.
Crash(w) ==
  /\ worker[w] \in {"loop", "handler"} /\ Fault
  /\ EndTx(w)
  /\ worker' = [worker EXCEPT ![w] = "select"]
  /\ batch' = [batch EXCEPT ![w] = <<>>]
  /\ UNCHANGED <<handlers, rows, ctxDone, stop, history>>
-----------------------------------------------------------------------------
Cancel ==
  /\ ~ctxDone
  /\ ctxDone' = TRUE
  /\ UNCHANGED <<handlers, database, worker, batch, stop, faults, history>>

CallStop ==
  /\ stop = "uncalled"
  /\ stop' = "waiting"
  /\ UNCHANGED <<handlers, database, worker, batch, ctxDone, faults, history>>

\* done is closed when every worker has exited.
StopReturns ==
  /\ stop = "waiting" /\ \A w \in Workers : worker[w] = "exited"
  /\ stop' = "returned"
  /\ UNCHANGED <<handlers, database, worker, batch, ctxDone, faults, history>>

Terminated ==
  /\ stop = "returned"
  /\ UNCHANGED vars

WorkerStep(w) ==
  \/ Poll(w) \/ Exit(w) \/ Handle(w) \/ Fail(w) \/ Commit(w) \/ CommitFails(w)
  \/ \E ok \in BOOLEAN : Record(w, ok)

Next ==
  \/ \E j \in Jobs : Due(j) \/ \E delayed \in BOOLEAN : Enqueue(j, delayed)
  \/ \E w \in Workers : WorkerStep(w) \/ ConnectionLost(w) \/ Crash(w)
  \/ Cancel \/ CallStop \/ StopReturns \/ Terminated

Spec == Init /\ [][Next]_vars

(***************************************************************************)
(* Time passes and every worker runs.  Exit competes with Poll in a select *)
(* that chooses at random, so it needs strong fairness.                    *)
(***************************************************************************)
FairSpec ==
  /\ Spec
  /\ \A j \in Jobs : WF_vars(Due(j))
  /\ \A w \in Workers : WF_vars(WorkerStep(w)) /\ SF_vars(Exit(w))
  /\ WF_vars(StopReturns)
-----------------------------------------------------------------------------
MaxRecorded == IF MaxAttempts = 0 THEN 1 ELSE MaxAttempts
Row == [status : Settled \union {"none", "pending"}, attempts : 0 .. MaxRecorded, due : BOOLEAN]

\* The types; no row records more attempts than max_attempts, and only a job that
\* has used them all is dead.
TypeOK ==
  /\ handlers \subseteq Jobs
  /\ rows \in [Jobs -> Row]
  /\ \A j \in Jobs : rows[j].status = "dead" => rows[j].attempts = MaxRecorded
  /\ worker \in [Workers -> {"select", "loop", "handler", "exited"}]
  /\ \A w \in Workers : /\ \A i \in DOMAIN batch[w] : batch[w][i] \in DOMAIN update[w]
                        /\ \A j \in DOMAIN update[w] : j \in Jobs /\ update[w][j] \in Row
  /\ tx \in [Workers -> {"none", "open", "failed"}]
  /\ ctxDone \in BOOLEAN
  /\ stop \in {"uncalled", "waiting", "returned"}
  /\ faults \in 0 .. MaxFaults
  /\ runs \in [Jobs -> Nat] /\ oks \in [Jobs -> Nat]

\* "multiple worker processes can poll safely without double-delivery" holds as
\* long as no statement, commit, connection or process fails and the context
\* lives: one worker at a time has a job, its handler succeeds once at the most
\* and is not called more than max_attempts times.
OnceWithoutFaults ==
  faults = 0 /\ ~ctxDone =>
    \A j \in Jobs :
      /\ Cardinality({w \in Workers : j \in DOMAIN update[w]}) <= 1
      /\ oks[j] <= 1
      /\ runs[j] <= MaxRecorded

\* A job is recorded as done only if its handler returned nil at least once, and
\* every attempt a row records was a call of the handler, whatever was rolled
\* back and run again.
RecordsAreTrue ==
  \A j \in Jobs :
    /\ rows[j].status = "done" => oks[j] > 0
    /\ rows[j].status = "failed" => runs[j] = 0
    /\ rows[j].attempts <= runs[j]

\* done, failed and dead are final and attempts never go down, though a worker
\* whose transaction failed goes on with rows that others have settled since.
SettledIsFinal ==
  [][ \A j \in Jobs : /\ rows[j].status \in Settled => rows'[j] = rows[j]
                      /\ rows'[j].attempts >= rows[j].attempts ]_vars

\* While workers poll, every job is settled in the end: the faults that undo
\* batches are finite in number, and nothing else keeps a job pending.
JobsSettle ==
  \A j \in Jobs :
    rows[j].status = "pending" ~> (rows[j].status \in Settled \/ ctxDone \/ stop # "uncalled")

\* Stop returns: a worker in a batch finishes it and then sees stop, even though
\* there may be more to poll.
StopEnds == stop = "waiting" ~> stop = "returned"

\* The workers get every job settled, or are stopped, and Stop returns.
WorkersServe == JobsSettle /\ StopEnds
=============================================================================
