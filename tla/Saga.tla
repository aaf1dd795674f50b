-------------------------------- MODULE Saga --------------------------------
(***************************************************************************)
(* pkg/saga: one Run.  An Execute that fails may have taken effect or not; *)
(* a Compensate that fails has not undone it.  Both are given the context  *)
(* of Run, so once that is done any of them may fail.                      *)
(***************************************************************************)
EXTENDS Integers, Sequences, SequencesExt

CONSTANT Plans      \* the sagas: sequences over {"undo", "keep"}; "keep" has no Compensate

VARIABLES
  steps,            \* s.steps
  phase,            \* "new", "execute", "compensate", "returned"
  at,               \* the step to execute, or the position in done to compensate
  done,             \* completed, the steps whose Execute succeeded
  failed,           \* Error.FailedStep, 0 if there is none
  compErrs,         \* Error.CompensationErrors
  heard             \* what the onStep hook was told, <<phase, step>>

VARIABLE effect     \* history: the steps whose effect is in place

sagaVars == <<steps, phase, at, done, failed, compErrs, heard, effect>>

TypeOK ==
  /\ steps \in Plans \union {<<>>}
  /\ phase \in {"new", "execute", "compensate", "returned"}
  /\ at \in 0 .. Len(steps) + 1 /\ failed \in 0 .. Len(steps)
  /\ done \in Seq(1 .. Len(steps)) /\ compErrs \in Seq(1 .. Len(steps))
  /\ heard \in Seq({"execute", "compensate"} \X (1 .. Len(steps)))
  /\ effect \subseteq 1 .. Len(steps)

Init ==
  /\ steps = <<>> /\ phase = "new" /\ at = 1 /\ done = <<>> /\ failed = 0
  /\ compErrs = <<>> /\ heard = <<>> /\ effect = {}

Run(plan) ==
  /\ phase = "new"
  /\ steps' = plan /\ phase' = "execute"
  /\ UNCHANGED <<at, done, failed, compErrs, heard, effect>>

Succeeds ==
  /\ phase = "execute" /\ at <= Len(steps)
  /\ heard' = Append(heard, <<"execute", at>>)
  /\ done' = Append(done, at) /\ effect' = effect \union {at}
  /\ at' = at + 1
  /\ UNCHANGED <<steps, phase, failed, compErrs>>

Fails(took) ==
  /\ phase = "execute" /\ at <= Len(steps)
  /\ heard' = Append(heard, <<"execute", at>>)
  /\ failed' = at /\ effect' = IF took THEN effect \union {at} ELSE effect
  /\ phase' = "compensate" /\ at' = Len(done)
  /\ UNCHANGED <<steps, done, compErrs>>

(* Mutant: the first compensation to fail ends the rollback. *)
CompensateUntilError(ok) ==
  /\ phase = "compensate" /\ at > 0
  /\ at' = IF ok THEN at - 1 ELSE 0
  /\ heard' = Append(heard, <<"compensate", done[at]>>)
  /\ effect' = IF ok THEN effect \ {done[at]} ELSE effect
  /\ compErrs' = IF ok THEN compErrs ELSE Append(compErrs, done[at])
  /\ UNCHANGED <<steps, phase, done, failed>>

Compensate(ok) ==
  /\ phase = "compensate" /\ at > 0
  /\ at' = at - 1
  /\ IF steps[done[at]] = "keep"
     THEN UNCHANGED <<heard, effect, compErrs>>
     ELSE /\ heard' = Append(heard, <<"compensate", done[at]>>)
          /\ effect' = IF ok THEN effect \ {done[at]} ELSE effect
          /\ compErrs' = IF ok THEN compErrs ELSE Append(compErrs, done[at])
  /\ UNCHANGED <<steps, phase, done, failed>>

Return ==
  /\ \/ phase = "execute" /\ at > Len(steps)
     \/ phase = "compensate" /\ at = 0
  /\ phase' = "returned"
  /\ UNCHANGED <<steps, at, done, failed, compErrs, heard, effect>>

Runs == Succeeds \/ Return \/ \E b \in BOOLEAN : Fails(b) \/ Compensate(b)
Next == Runs \/ \E plan \in Plans : Run(plan)
Fairness == WF_sagaVars(Runs)

-----------------------------------------------------------------------------
(* A saga that succeeds has every effect in place.  Of one that fails the  *)
(* error accounts for every effect that is left: of the step that failed,  *)
(* of one with a compensation error, or of one that cannot be compensated; *)
(* the steps behind the failed one never ran, and the compensations came   *)
(* in the reverse order of the steps, each at most once (Run, compensate). *)
SagaAccounts ==
  /\ phase = "returned" =>
       IF failed = 0 THEN effect = 1 .. Len(steps)
       ELSE /\ \A s \in effect : s = failed \/ steps[s] = "keep" \/ Contains(compErrs, s)
            /\ \A s \in effect : s <= failed
            /\ \A k \in DOMAIN compErrs : compErrs[k] \in effect
  /\ \A j, k \in DOMAIN heard :
       j < k => /\ heard[k][1] = "execute" => heard[j][1] = "execute" /\ heard[j][2] < heard[k][2]
                /\ heard[j][1] = "compensate" => heard[j][2] > heard[k][2]
=============================================================================
