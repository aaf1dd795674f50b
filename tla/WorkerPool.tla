----------------------------- MODULE WorkerPool -----------------------------
(***************************************************************************)
(* pkg/pool: a fixed set of workers that range over a buffered channel,    *)
(* goroutines that Submit and TrySubmit to it, and one Stop.               *)
(*                                                                         *)
(* The stopped flag, the channel and the counters are separate atomics, so *)
(* each access is a step of its own.  A send on the closed channel panics; *)
(* the panic ends the submitting call, not the pool.                       *)
(***************************************************************************)
EXTENDS Naturals, Sequences, FiniteSets

CONSTANTS
  Submitters,   \* goroutines that submit
  Workers,      \* the worker goroutines of Start
  QueueSizes,   \* the values WithQueueSize may be given; 0 is an unbuffered channel
  MaxJobs       \* bound: jobs each submitter offers

ASSUME PoolAssumption ==
  /\ Workers # {} /\ IsFiniteSet(Workers)
  /\ QueueSizes \subseteq Nat /\ QueueSizes # {}
  /\ MaxJobs \in Nat

VARIABLES
  queueSize,    \* cap(p.jobs), from options.queueSize
  stopped,      \* p.stopped
  jobs, closed, \* the channel p.jobs
  sub,          \* where each submitter is
  offered,      \* jobs each submitter has offered so far
  worker,       \* where each worker is
  job,          \* the job each worker holds
  stop,         \* where Stop is
  submitted, completed, errors, inFlight   \* the atomic counters

(* History: what Submit answered for each job, and how often each job ran. *)
VARIABLES answer, runs

counters == <<submitted, completed, errors, inFlight>>
vars == <<queueSize, stopped, jobs, closed, sub, offered, worker, job, stop, counters, answer, runs>>

Job == Submitters \X (1 .. MaxJobs)
Current(s) == <<s, offered[s]>>
NoJob == <<>>
-----------------------------------------------------------------------------
Init ==
  /\ queueSize \in QueueSizes
  /\ stopped = FALSE
  /\ jobs = <<>> /\ closed = FALSE
  /\ sub = [s \in Submitters |-> "idle"]
  /\ offered = [s \in Submitters |-> 0]
  /\ worker = [w \in Workers |-> "unstarted"]
  /\ job = [w \in Workers |-> NoJob]
  /\ stop = "uncalled"
  /\ submitted = 0 /\ completed = 0 /\ errors = 0 /\ inFlight = 0
  /\ answer = [j \in Job |-> "none"]
  /\ runs = [j \in Job |-> 0]

Start ==
  /\ \A w \in Workers : worker[w] = "unstarted"
  /\ worker' = [w \in Workers |-> "receive"]
  /\ UNCHANGED <<queueSize, stopped, jobs, closed, sub, offered, job, stop, counters, answer, runs>>
-----------------------------------------------------------------------------
(* Submit and TrySubmit.                                                   *)

\* The call begins: p.stopped.Load().  how is the method that was called.
CheckStopped(s, how) ==
  /\ sub[s] = "idle" /\ offered[s] < MaxJobs
  /\ offered' = [offered EXCEPT ![s] = @ + 1]
  /\ IF stopped
       THEN /\ answer' = [answer EXCEPT ![<<s, offered'[s]>>] = "refused"]
            /\ UNCHANGED sub
       ELSE /\ sub' = [sub EXCEPT ![s] = how]
            /\ UNCHANGED answer
  /\ UNCHANGED <<queueSize, stopped, jobs, closed, worker, job, stop, counters, runs>>

Returns(s, a) ==
  /\ sub' = [sub EXCEPT ![s] = "idle"]
  /\ answer' = [answer EXCEPT ![Current(s)] = a]
  /\ UNCHANGED <<queueSize, stopped, jobs, closed, offered, worker, job, stop, counters, runs>>

\* Workers parked in the receive, who take a job straight from an unbuffered send.
Parked == {w \in Workers : worker[w] = "receive"}

Room == IF queueSize = 0 THEN Parked # {} ELSE Len(jobs) < queueSize

\* case p.jobs <- job, on the open channel.
Send(s) ==
  /\ sub[s] \in {"Submit", "TrySubmit"}
  /\ ~closed /\ Room
  /\ IF queueSize = 0
       THEN \E w \in Parked :
              /\ worker' = [worker EXCEPT ![w] = "got"]
              /\ job' = [job EXCEPT ![w] = Current(s)]
              /\ UNCHANGED jobs
       ELSE /\ jobs' = Append(jobs, Current(s))
            /\ UNCHANGED <<worker, job>>
  /\ sub' = [sub EXCEPT ![s] = "sent"]
  /\ answer' = [answer EXCEPT ![Current(s)] = "accepted"]
  /\ UNCHANGED <<queueSize, stopped, closed, offered, stop, counters, runs>>

\* The same case once Stop has closed the channel.
SendOnClosed(s) ==
  /\ sub[s] \in {"Submit", "TrySubmit"}
  /\ closed
  /\ Returns(s, "panic")

\* case <-ctx.Done() of Submit: the caller may cancel at any time.
Cancelled(s) ==
  /\ sub[s] = "Submit"
  /\ Returns(s, "refused")

\* default of TrySubmit: ErrQueueFull.
QueueFull(s) ==
  /\ sub[s] = "TrySubmit"
  /\ ~closed /\ ~Room
  /\ Returns(s, "refused")

\* p.submitted.Add(1), after the send.
CountSubmitted(s) ==
  /\ sub[s] = "sent"
  /\ sub' = [sub EXCEPT ![s] = "idle"]
  /\ submitted' = submitted + 1
  /\ UNCHANGED <<queueSize, stopped, jobs, closed, offered, worker, job, stop,
                 completed, errors, inFlight, answer, runs>>
-----------------------------------------------------------------------------
(* run: for job := range p.jobs.                                           *)

WorkerAt(w, from, to) ==
  /\ worker[w] = from
  /\ worker' = [worker EXCEPT ![w] = to]
  /\ UNCHANGED <<queueSize, stopped, closed, sub, offered, stop, submitted, answer>>

\* Mutant: a worker leaves as soon as the channel is closed.
ReceiveNoDrain(w) ==
  IF ~closed THEN /\ jobs # <<>>
                  /\ WorkerAt(w, "receive", "got")
                  /\ job' = [job EXCEPT ![w] = Head(jobs)]
                  /\ jobs' = Tail(jobs)
                  /\ UNCHANGED <<completed, errors, inFlight, runs>>
             ELSE /\ WorkerAt(w, "receive", "exited")
                  /\ UNCHANGED <<jobs, job, completed, errors, inFlight, runs>>

\* Mutant: the job stays in the queue.
ReceivePeek(w) ==
  IF jobs # <<>> THEN /\ WorkerAt(w, "receive", "got")
                      /\ job' = [job EXCEPT ![w] = Head(jobs)]
                      /\ UNCHANGED <<jobs, completed, errors, inFlight, runs>>
                 ELSE /\ closed
                      /\ WorkerAt(w, "receive", "exited")
                      /\ UNCHANGED <<jobs, job, completed, errors, inFlight, runs>>

\* Receive the next job, or leave the loop when the channel is closed and empty.
Receive(w) ==
  IF jobs # <<>> THEN /\ WorkerAt(w, "receive", "got")
                      /\ job' = [job EXCEPT ![w] = Head(jobs)]
                      /\ jobs' = Tail(jobs)
                      /\ UNCHANGED <<completed, errors, inFlight, runs>>
                 ELSE /\ closed
                      /\ WorkerAt(w, "receive", "exited")
                      /\ UNCHANGED <<jobs, job, completed, errors, inFlight, runs>>

\* p.inFlight.Add(1), and fn starts.
Begin(w) ==
  /\ WorkerAt(w, "got", "running")
  /\ inFlight' = inFlight + 1
  /\ runs' = [runs EXCEPT ![job[w]] = @ + 1]
  /\ UNCHANGED <<jobs, job, completed, errors>>

\* Mutant: the gauge is not decremented.
FinishKeepsGauge(w) ==
  /\ WorkerAt(w, "running", "finished")
  /\ UNCHANGED <<jobs, job, completed, errors, inFlight, runs>>

\* fn returns; p.inFlight.Add(-1).
Finish(w) ==
  /\ WorkerAt(w, "running", "finished")
  /\ inFlight' = inFlight - 1
  /\ UNCHANGED <<jobs, job, completed, errors, runs>>

\* p.completed.Add(1).
Complete(w) ==
  /\ WorkerAt(w, "finished", "completed")
  /\ completed' = completed + 1
  /\ UNCHANGED <<jobs, job, errors, inFlight, runs>>

\* On an error p.errors.Add(1) and the onError callback; then the next receive.
Report(w, failed) ==
  /\ WorkerAt(w, "completed", "receive")
  /\ job' = [job EXCEPT ![w] = NoJob]
  /\ errors' = IF failed THEN errors + 1 ELSE errors
  /\ UNCHANGED <<jobs, completed, inFlight, runs>>
-----------------------------------------------------------------------------
(* Stop, called once, on a started pool.                                   *)

StopAt(from, to) ==
  /\ stop = from
  /\ stop' = to
  /\ UNCHANGED <<queueSize, jobs, sub, offered, worker, job, counters, answer, runs>>

StoreStopped ==
  /\ \A w \in Workers : worker[w] # "unstarted"
  /\ StopAt("uncalled", "stored")
  /\ stopped' = TRUE
  /\ UNCHANGED closed

\* Mutant: the channel is left open.
CloseForgotten ==
  /\ StopAt("stored", "waiting")
  /\ UNCHANGED <<stopped, closed>>

CloseJobs ==
  /\ StopAt("stored", "waiting")
  /\ closed' = TRUE
  /\ UNCHANGED stopped

\* p.wg.Wait()
Wait ==
  /\ \A w \in Workers : worker[w] = "exited"
  /\ StopAt("waiting", "returned")
  /\ UNCHANGED <<stopped, closed>>

\* Stop has returned and every submitter is done.
Terminated ==
  /\ stop = "returned"
  /\ \A s \in Submitters : sub[s] = "idle" /\ offered[s] = MaxJobs
  /\ UNCHANGED vars

SubmitterStep(s) ==
  \/ Send(s) \/ SendOnClosed(s) \/ QueueFull(s) \/ CountSubmitted(s)
WorkerStep(w) ==
  \/ Receive(w) \/ Begin(w) \/ Finish(w) \/ Complete(w)
  \/ \E failed \in BOOLEAN : Report(w, failed)

Next ==
  \/ Start
  \/ \E s \in Submitters, how \in {"Submit", "TrySubmit"} : CheckStopped(s, how)
  \/ \E s \in Submitters : SubmitterStep(s) \/ Cancelled(s)
  \/ \E w \in Workers : WorkerStep(w)
  \/ StoreStopped \/ CloseJobs \/ Wait
  \/ Terminated

(***************************************************************************)
(* The scheduler runs every goroutine that can run, and fn returns.  No    *)
(* caller has to submit, cancel, Start or call Stop; a Stop that has begun *)
(* goes on.                                                                *)
(***************************************************************************)
Fairness ==
  /\ \A s \in Submitters : WF_vars(SubmitterStep(s))
  /\ \A w \in Workers : WF_vars(WorkerStep(w))
  /\ WF_vars(CloseJobs) /\ WF_vars(Wait)

Spec == Init /\ [][Next]_vars
FairSpec == Spec /\ Fairness
-----------------------------------------------------------------------------
\* The types of the pool's fields and of the goroutines' positions.
TypeOK ==
  /\ queueSize \in QueueSizes
  /\ stopped \in BOOLEAN /\ closed \in BOOLEAN
  /\ jobs \in Seq(Job) /\ Len(jobs) <= queueSize
  /\ sub \in [Submitters -> {"idle", "Submit", "TrySubmit", "sent"}]
  /\ offered \in [Submitters -> 0 .. MaxJobs]
  /\ worker \in [Workers -> {"unstarted", "receive", "got", "running",
                              "finished", "completed", "exited"}]
  /\ job \in [Workers -> Job \union {NoJob}]
  /\ stop \in {"uncalled", "stored", "waiting", "returned"}
  /\ submitted \in Nat /\ completed \in Nat /\ errors \in Nat /\ inFlight \in Nat
  /\ answer \in [Job -> {"none", "accepted", "refused", "panic"}]
  /\ runs \in [Job -> Nat]

Queued(j) == {i \in DOMAIN jobs : jobs[i] = j}
Holders(j, where) == {w \in Workers : worker[w] \in where /\ job[w] = j}

\* A job is handled exactly once if Submit or TrySubmit accepted it and not at
\* all if it got an error or a panic: it is queued once, or taken by one worker,
\* or has been run once.
AcceptedRunsOnce ==
  \A j \in Job :
    Cardinality(Queued(j)) + Cardinality(Holders(j, {"got"})) + runs[j]
      = IF answer[j] = "accepted" THEN 1 ELSE 0

\* Stop "drains the queue, waits for all in-flight jobs to finish": once it has
\* returned, every accepted job has run, even one that slipped in between the
\* store to stopped and the close, and no job is running.
StopDrains ==
  stop = "returned" =>
    /\ \A j \in Job : answer[j] = "accepted" => runs[j] = 1
    /\ inFlight = 0

\* The counters, updated one by one and after the fact, still add up: the gauge
\* is the number of workers inside fn, and Completed may run ahead of Submitted
\* only by submitters between their send and their count.
StatsAddUp ==
  /\ inFlight = Cardinality({w \in Workers : worker[w] = "running"})
  /\ submitted + Cardinality({s \in Submitters : sub[s] = "sent"})
       = Len(jobs) + completed
         + Cardinality({w \in Workers : worker[w] \in {"got", "running", "finished"}})
  /\ errors <= completed

\* A Stop that has begun returns, whatever the submitters do.
StopReturns == stop = "stored" ~> stop = "returned"

\* On a started pool no Submit blocks forever, stopped or not.
SubmitReturns ==
  \A s \in Submitters :
    (sub[s] = "Submit" /\ \A w \in Workers : worker[w] # "unstarted") ~> sub[s] # "Submit"

\* Neither Stop nor Submit is left waiting for the other.
CallsReturn == StopReturns /\ SubmitReturns
=============================================================================
