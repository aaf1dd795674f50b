------------------------------ MODULE Process -------------------------------
(***************************************************************************)
(* pkg/pipeline.  Process runs fn on every item with a number of workers;  *)
(* fn is a Chain of stages.  Items are 1 .. n and the value of an item is  *)
(* its number.                                                             *)
(***************************************************************************)
EXTENDS Integers, Sequences, SequencesExt

CONSTANTS
  Sizes,      \* the lengths of the slices given to Process
  Widths,     \* the values given to WithWorkers
  Stages,     \* the number of stages of the chain
  MaxWorkers  \* bound on the workers

VARIABLES
  opts,       \* [n, workers, ordered]; n is -1 before the call
  jobs,       \* the channel of work, filled and closed at once
  worker,     \* worker[w]: "idle", "done", "none", or the item and stage it is at
  results,    \* the channel of results, [item, err]
  out,        \* the results collected
  firstErr,   \* "none", "failed" or "cancelled"
  done,       \* the derived context is done
  ret         \* "none", "ok", "failed" or "cancelled"

VARIABLES     \* history
  ran,        \* ran[i]: how often fn was called for item i
  byCaller    \* the caller cancelled its context

processVars == <<opts, jobs, worker, results, out, firstErr, done, ret, ran, byCaller>>

Workers == 1 .. MaxWorkers
Busy == [item : Nat, stage : 1 .. Stages, running : BOOLEAN]
Errors == {"none", "failed", "cancelled"}

TypeOK ==
  /\ opts \in [n : Sizes \union {-1}, workers : 0 .. MaxWorkers, ordered : BOOLEAN]
  /\ jobs \in Seq(Nat) /\ results \in Seq([item : Nat, err : Errors])
  /\ \A w \in Workers : worker[w] \in Busy \union [idle : BOOLEAN]
  /\ out \in Seq(Nat)
  /\ firstErr \in Errors /\ ret \in Errors \union {"ok"}
  /\ done \in BOOLEAN /\ byCaller \in BOOLEAN
  /\ ran \in Seq(0 .. 1)

Idle == [idle |-> TRUE]
Gone == [idle |-> FALSE]

Init ==
  /\ opts = [n |-> -1, workers |-> 0, ordered |-> FALSE]
  /\ jobs = <<>> /\ results = <<>> /\ out = <<>> /\ ran = <<>>
  /\ worker = [w \in Workers |-> Gone]
  /\ firstErr = "none" /\ ret = "none" /\ done = FALSE /\ byCaller = FALSE

(* WithWorkers ignores numbers below one; there are never more workers     *)
(* than items.                                                             *)
Width(n, width) == IF width \in 1 .. n THEN width ELSE n

Start(n, width, ordered) ==
  /\ opts.n = -1
  /\ opts' = [n |-> n, workers |-> Width(n, width), ordered |-> ordered]
  /\ jobs' = [i \in 1 .. n |-> i]
  /\ worker' = [w \in Workers |-> IF w <= Width(n, width) THEN Idle ELSE Gone]
  /\ out' = IF ordered THEN [i \in 1 .. n |-> 0] ELSE <<>>
  /\ ran' = [i \in 1 .. n |-> 0]
  /\ ret' = IF n = 0 THEN "ok" ELSE "none"
  /\ UNCHANGED <<results, firstErr, done, byCaller>>

CallerCancels ==
  /\ opts.n # -1 /\ ret = "none" /\ ~byCaller
  /\ byCaller' = TRUE /\ done' = TRUE
  /\ UNCHANGED <<opts, jobs, worker, results, out, firstErr, ret, ran>>

-----------------------------------------------------------------------------
Report(w, i, err) ==
  /\ results' = Append(results, [item |-> i, err |-> err])
  /\ worker' = [worker EXCEPT ![w] = Idle]

(* A worker takes a job and, unless the context is done, calls fn.         *)
TakeJob(w) ==
  /\ worker[w] = Idle /\ jobs # <<>>
  /\ jobs' = Tail(jobs)
  /\ IF done
     THEN Report(w, Head(jobs), "cancelled") /\ UNCHANGED ran
     ELSE /\ worker' = [worker EXCEPT ![w] = [item |-> Head(jobs), stage |-> 1, running |-> FALSE]]
          /\ ran' = [ran EXCEPT ![Head(jobs)] = @ + 1]
          /\ UNCHANGED results
  /\ UNCHANGED <<opts, out, firstErr, done, ret, byCaller>>

(* Chain: the context is looked at before every stage, and the first error *)
(* ends it; a stage may return the context's error if that is done.        *)
EnterStage(w) ==
  /\ worker[w] \in Busy /\ ~worker[w].running
  /\ IF done
     THEN Report(w, worker[w].item, "cancelled")
     ELSE worker' = [worker EXCEPT ![w].running = TRUE] /\ UNCHANGED results
  /\ UNCHANGED <<opts, jobs, out, firstErr, done, ret, ran, byCaller>>

StageReturns(w) ==
  /\ worker[w] \in Busy /\ worker[w].running
  /\ \/ \E err \in {"failed"} \union (IF done THEN {"cancelled"} ELSE {}) :
          Report(w, worker[w].item, err)
     \/ /\ worker[w].stage = Stages
        /\ Report(w, worker[w].item, "none")
     \/ /\ worker[w].stage < Stages
        /\ worker' = [worker EXCEPT ![w].stage = @ + 1, ![w].running = FALSE]
        /\ UNCHANGED results
  /\ UNCHANGED <<opts, jobs, out, firstErr, done, ret, ran, byCaller>>

WorkerEnds(w) ==
  /\ worker[w] = Idle /\ jobs = <<>>
  /\ worker' = [worker EXCEPT ![w] = Gone]
  /\ UNCHANGED <<opts, jobs, results, out, firstErr, done, ret, ran, byCaller>>

(* Mutant: a later error replaces the first. *)
CollectLatest ==
  /\ ret = "none" /\ results # <<>>
  /\ LET r == Head(results) IN
     /\ firstErr' = IF r.err # "none" THEN r.err ELSE firstErr
     /\ done' = (done \/ r.err # "none")
     /\ out' = IF r.err # "none" THEN out
               ELSE IF opts.ordered THEN [out EXCEPT ![r.item] = r.item]
                                    ELSE Append(out, r.item)
  /\ results' = Tail(results)
  /\ UNCHANGED <<opts, jobs, worker, ret, ran, byCaller>>

Collect ==
  /\ ret = "none" /\ results # <<>>
  /\ LET r == Head(results)
         first == r.err # "none" /\ firstErr = "none"
     IN /\ firstErr' = IF first THEN r.err ELSE firstErr
        /\ done' = (done \/ first)
        /\ out' = IF r.err # "none" THEN out
                  ELSE IF opts.ordered THEN [out EXCEPT ![r.item] = r.item]
                                       ELSE Append(out, r.item)
  /\ results' = Tail(results)
  /\ UNCHANGED <<opts, jobs, worker, ret, ran, byCaller>>

(* results is closed once every worker has left, which ends the collection. *)
Return ==
  /\ opts.n # -1 /\ ret = "none" /\ results = <<>>
  /\ \A w \in Workers : worker[w] = Gone
  /\ ret' = IF firstErr = "none" THEN "ok" ELSE firstErr
  /\ done' = TRUE
  /\ UNCHANGED <<opts, jobs, worker, results, out, firstErr, ran, byCaller>>

-----------------------------------------------------------------------------
Runs == Collect \/ Return \/ \E w \in Workers : TakeJob(w) \/ EnterStage(w)
                                              \/ StageReturns(w) \/ WorkerEnds(w)

Next ==
  \/ \E n \in Sizes, width \in Widths, ordered \in BOOLEAN : Start(n, width, ordered)
  \/ CallerCancels
  \/ Runs

Fairness == WF_processVars(Runs)

-----------------------------------------------------------------------------
(* When Process succeeds fn ran once for every item, and the output has    *)
(* the value of item i in place i, or of each item once in the order of    *)
(* completion; when it fails the error is not the cancellation that the    *)
(* failure itself caused: it is an fn's own, or the caller cancelled.  In  *)
(* either case no worker outlives the call (Process: "The first non-nil    *)
(* error cancels remaining work and is returned").                         *)
ProcessSound ==
  /\ ret = "ok" => /\ \A i \in 1 .. opts.n : ran[i] = 1
                   /\ Len(out) = opts.n
                   /\ \A i \in 1 .. opts.n : IF opts.ordered THEN out[i] = i
                                             ELSE \E k \in 1 .. opts.n : out[k] = i
  /\ ret = "cancelled" => byCaller
  /\ ret # "none" => \A w \in Workers : worker[w] = Gone

(* Process returns, whether or not an fn fails or the caller cancels.      *)
ProcessReturns == opts.n # -1 ~> ret # "none"
=============================================================================
