------------------------------- MODULE Retry --------------------------------
(***************************************************************************)
(* pkg/retry: one call of Do, with an ExponentialBackoff of multiplier 2,  *)
(* with or without Jitter.                                                 *)
(***************************************************************************)
EXTENDS Integers, Sequences

CONSTANTS
  Attempts,     \* the values given to WithMaxAttempts
  Initial, Max, \* of the backoff
  MaxDuration   \* the largest time.Duration

VARIABLES
  opts,         \* [maxAttempts, jitter]; maxAttempts is 0 before the call
  attempt,      \* the loop variable
  place,        \* "loop", "fn", "sleep" or "returned"
  over,         \* the context is done
  outcome       \* "none", "ok", "stop", "cancelled" or "exhausted"

VARIABLES       \* history
  answers,      \* what fn returned, call by call: "ok", "error" or "stop"
  retries,      \* how often onRetry was called
  delays        \* what the backoff returned

retryVars == <<opts, attempt, place, over, outcome, answers, retries, delays>>

TypeOK ==
  /\ opts \in [maxAttempts : Attempts \union {0}, jitter : BOOLEAN]
  /\ attempt \in Nat /\ over \in BOOLEAN
  /\ place \in {"loop", "fn", "sleep", "returned"}
  /\ outcome \in {"none", "ok", "stop", "cancelled", "exhausted"}
  /\ answers \in Seq({"ok", "error", "stop"}) /\ retries \in Nat /\ delays \in Seq(Int)

Init ==
  /\ opts = [maxAttempts |-> 0, jitter |-> FALSE]
  /\ attempt = 0 /\ place = "loop" /\ over = FALSE /\ outcome = "none"
  /\ answers = <<>> /\ retries = 0 /\ delays = <<>>

Do(max, jitter) ==
  /\ opts.maxAttempts = 0
  /\ opts' = [maxAttempts |-> max, jitter |-> jitter]
  /\ UNCHANGED <<attempt, place, over, outcome, answers, retries, delays>>

Cancel ==
  /\ opts.maxAttempts > 0 /\ place # "returned" /\ ~over
  /\ over' = TRUE
  /\ UNCHANGED <<opts, attempt, place, outcome, answers, retries, delays>>

-----------------------------------------------------------------------------
(* A float64 beyond the range of a Duration becomes the smallest one or    *)
(* the largest, depending on the processor.                                *)
Duration(d) == IF d <= MaxDuration THEN {d} ELSE {MaxDuration, -MaxDuration - 1}

Exponential(n) == {IF Max > 0 /\ d > Max THEN Max ELSE d : d \in Duration(Initial * 2^n)}

Jitter(base) == IF base <= 0 THEN {0} ELSE 0 .. base - 1

(* What the backoff may return after the attempt. *)
Delays(n) == IF opts.jitter THEN UNION {Jitter(d) : d \in Exponential(n)} ELSE Exponential(n)

Returns(result) == place' = "returned" /\ outcome' = result

LoopTurn ==
  /\ opts.maxAttempts > 0 /\ place = "loop"
  /\ IF attempt = opts.maxAttempts THEN Returns("exhausted")
     ELSE IF over THEN Returns("cancelled")
     ELSE place' = "fn" /\ UNCHANGED outcome
  /\ UNCHANGED <<opts, attempt, over, answers, retries, delays>>

FnEnds(answer) ==
  /\ place = "fn" /\ answer \in {"ok", "stop"}
  /\ answers' = Append(answers, answer) /\ Returns(answer)
  /\ UNCHANGED <<opts, attempt, over, retries, delays>>

(* Mutant: the last attempt is followed by a delay too. *)
FnFailsAlways(delay) ==
  /\ place = "fn" /\ delay \in Delays(attempt)
  /\ answers' = Append(answers, "error")
  /\ retries' = retries + 1 /\ delays' = Append(delays, delay)
  /\ IF delay > 0 THEN place' = "sleep" /\ UNCHANGED attempt
                  ELSE place' = "loop" /\ attempt' = attempt + 1
  /\ UNCHANGED <<opts, over, outcome>>

(* onRetry and the delay, between two attempts. *)
FnFails(delay) ==
  /\ place = "fn" /\ delay \in Delays(attempt)
  /\ answers' = Append(answers, "error")
  /\ IF attempt < opts.maxAttempts - 1
     THEN /\ retries' = retries + 1 /\ delays' = Append(delays, delay)
          /\ IF delay > 0 THEN place' = "sleep" /\ UNCHANGED attempt
                          ELSE place' = "loop" /\ attempt' = attempt + 1
     ELSE place' = "loop" /\ attempt' = attempt + 1 /\ UNCHANGED <<retries, delays>>
  /\ UNCHANGED <<opts, over, outcome>>

(* contextSleep *)
SleepEnds ==
  /\ place = "sleep"
  /\ \/ place' = "loop" /\ attempt' = attempt + 1 /\ UNCHANGED outcome
     \/ over /\ Returns("cancelled") /\ UNCHANGED attempt
  /\ UNCHANGED <<opts, over, answers, retries, delays>>

-----------------------------------------------------------------------------
Runs ==
  \/ LoopTurn \/ SleepEnds
  \/ \E answer \in {"ok", "stop"} : FnEnds(answer)
  \/ \E delay \in Delays(attempt) : FnFails(delay)

Next == Cancel \/ Runs \/ \E max \in Attempts, jitter \in BOOLEAN : Do(max, jitter)

Fairness == WF_retryVars(Runs)

-----------------------------------------------------------------------------
Failures == Len(SelectSeq(answers, LAMBDA a : a = "error"))

(* fn is called at most maxAttempts times and never after it succeeded or  *)
(* said Stop; Do gives up only after the last attempt failed and says that *)
(* the context was done only if it was.  onRetry and the backoff come      *)
(* between two attempts, not after the last; a delay is min(Initial*2^n,   *)
(* Max) as long as a Duration can hold that product, and above Max never.  *)
RetrySound ==
  /\ Len(answers) <= opts.maxAttempts
  /\ \A k \in 1 .. Len(answers) - 1 : answers[k] = "error"
  /\ outcome \in {"ok", "stop"} => answers[Len(answers)] = outcome
  /\ outcome = "exhausted" => Failures = opts.maxAttempts /\ retries = Failures - 1
  /\ outcome = "cancelled" => over /\ retries = Failures
  /\ \A k \in DOMAIN delays :
       LET whole == Initial * 2^(k - 1) IN
       /\ delays[k] <= Max
       /\ whole <= MaxDuration =>
            IF opts.jitter THEN delays[k] \in 0 .. whole
            ELSE delays[k] = IF whole < Max THEN whole ELSE Max
=============================================================================
