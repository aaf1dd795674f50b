------------------------------- MODULE Future -------------------------------
(***************************************************************************)
(* pkg/async/future.go.  A Future is a channel of capacity one that the    *)
(* goroutine of Async writes once, and a sync.Once around the receive.  A  *)
(* call of Await, All or Race awaits a set of futures, All and Race with   *)
(* one goroutine per future and a context of their own.                    *)
(***************************************************************************)
EXTENDS Naturals, Sequences, FiniteSets

CONSTANTS
  Futures,
  Plans,    \* the calls made, each plan a sequence of [kind, futures]
  None

VARIABLES
  ch,       \* ch[f]: None while fn runs, its result, or "taken" once received
  once,     \* once[f]: "new", "busy" while a caller is in the select, "done"
  res,      \* res[f]: the cached result
  calls     \* calls[c]: the call, see Call; none before Start

VARIABLES   \* history
  returned, \* returned[f]: what fn returned
  gaveUp    \* the calls whose caller cancelled their context

Calls == DOMAIN calls

vars == <<ch, once, res, calls, returned, gaveUp>>

Results == {"ok", "failed", "cancelled"}
Kinds == {"await", "all", "race"}

(* kind and futures are the arguments; done says that the context of the  *)
(* call is done, the callers' or the one All and Race derive from it;      *)
(* at[f] is where the call of f.Await stands: "begin" before once.Do, in   *)
(* the "select", "returned", or "sent" to merge; merge is the channel      *)
(* called merge in All and winner in Race, taken counts receives from it.  *)
Call == [kind : Kinds, futures : SUBSET Futures, done : BOOLEAN,
         at : [Futures -> {None, "begin", "select", "returned", "sent"}],
         merge : Seq(Results), taken : Nat, ret : Results \union {None}]

TypeOK ==
  /\ ch \in [Futures -> {None, "ok", "failed", "taken"}]
  /\ once \in [Futures -> {"new", "busy", "done"}]
  /\ res \in [Futures -> Results \union {None}]
  /\ calls \in Seq(Call)
  /\ returned \in [Futures -> {None, "ok", "failed"}]
  /\ gaveUp \subseteq Calls

Init ==
  /\ ch = [f \in Futures |-> None]
  /\ once = [f \in Futures |-> "new"]
  /\ res = [f \in Futures |-> None]
  /\ calls = <<>>
  /\ returned = [f \in Futures |-> None]
  /\ gaveUp = {}

-----------------------------------------------------------------------------
(* The goroutine of Async: fn returns and the result goes to the buffer.   *)
FnReturns(f, r) ==
  /\ calls # <<>> /\ returned[f] = None
  /\ returned' = [returned EXCEPT ![f] = r]
  /\ ch' = [ch EXCEPT ![f] = r]
  /\ UNCHANGED <<once, res, calls, gaveUp>>

(* A call starts a goroutine per future.  All of no futures returns at     *)
(* once.                                                                   *)
NewCall(kind, fs) ==
  [kind |-> kind, futures |-> fs, done |-> FALSE,
   at |-> [f \in Futures |-> IF f \in fs THEN "begin" ELSE None],
   merge |-> <<>>, taken |-> 0,
   ret |-> IF kind = "all" /\ fs = {} THEN "ok" ELSE None]

(* The calls of a plan begin, which has no effect before their first steps. *)
Start(plan) ==
  /\ calls = <<>>
  /\ calls' = [c \in DOMAIN plan |-> NewCall(plan[c].kind, plan[c].futures)]
  /\ UNCHANGED <<ch, once, res, returned, gaveUp>>

GiveUp(c) ==
  /\ calls[c].ret = None /\ c \notin gaveUp
  /\ gaveUp' = gaveUp \union {c}
  /\ calls' = [calls EXCEPT ![c].done = TRUE]
  /\ UNCHANGED <<ch, once, res, returned>>

-----------------------------------------------------------------------------
(* Await: the first caller runs the select inside once.Do; the others wait *)
(* for it to end, whatever happens to their contexts, and read f.res.      *)
EnterOnce(c, f) ==
  /\ calls[c].at[f] = "begin"
  /\ \/ /\ once[f] = "new"
        /\ once' = [once EXCEPT ![f] = "busy"]
        /\ calls' = [calls EXCEPT ![c].at[f] = "select"]
     \/ /\ once[f] = "done"
        /\ calls' = [calls EXCEPT ![c].at[f] = "returned"]
        /\ UNCHANGED once
  /\ UNCHANGED <<ch, res, returned, gaveUp>>

LeaveOnce(c, f, r) ==
  /\ calls[c].at[f] = "select"
  /\ res' = [res EXCEPT ![f] = r]
  /\ once' = [once EXCEPT ![f] = "done"]
  /\ calls' = [calls EXCEPT ![c].at[f] = "returned"]
  /\ UNCHANGED <<returned, gaveUp>>

Receive(c, f) ==
  /\ ch[f] \in Results
  /\ LeaveOnce(c, f, ch[f])
  /\ ch' = [ch EXCEPT ![f] = "taken"]

CtxDone(c, f) ==
  /\ calls[c].done
  /\ LeaveOnce(c, f, "cancelled")
  /\ UNCHANGED ch

AwaitReturns(c, f) ==
  /\ calls[c].kind = "await" /\ calls[c].at[f] = "returned" /\ calls[c].ret = None
  /\ calls' = [calls EXCEPT ![c].ret = res[f]]
  /\ UNCHANGED <<ch, once, res, returned, gaveUp>>

-----------------------------------------------------------------------------
(* The goroutines of All and Race send what Await returned; the channel    *)
(* has room for all of them, and nobody reads it once the call returned.   *)
Merge(c, f) ==
  /\ calls[c].kind \in {"all", "race"} /\ calls[c].at[f] = "returned"
  /\ calls' = [calls EXCEPT ![c].at[f] = "sent", 
                               ![c].merge = IF calls[c].ret = None THEN Append(@, res[f]) ELSE @]
  /\ UNCHANGED <<ch, once, res, returned, gaveUp>>

(* Returning runs the deferred cancel.                                     *)
Returns(c, r) == [calls[c] EXCEPT !.ret = r, !.done = TRUE, !.merge = <<>>, !.taken = 0]

(* Mutant: All counts its results from zero. *)
AllReceivesOneLess(c) ==
  LET n == calls[c].taken + 1
      r == calls[c].merge[n]
  IN calls' = [calls EXCEPT ![c] =
       IF r # "ok" \/ n + 1 >= Cardinality(calls[c].futures) THEN Returns(c, r)
                                                             ELSE [@ EXCEPT !.taken = n]]

AllReceives(c) ==
  LET n == calls[c].taken + 1
      r == calls[c].merge[n]
  IN calls' = [calls EXCEPT ![c] =
       IF r # "ok" \/ n = Cardinality(calls[c].futures) THEN Returns(c, r)
                                                        ELSE [@ EXCEPT !.taken = n]]

RaceReceives(c) ==
  calls' = [calls EXCEPT ![c] = Returns(c, calls[c].merge[1])]

Waits(c) == calls[c].kind \in {"all", "race"} /\ calls[c].ret = None

TakeResult(c) ==
  /\ Waits(c) /\ calls[c].taken < Len(calls[c].merge)
  /\ IF calls[c].kind = "all" THEN AllReceives(c) ELSE RaceReceives(c)
  /\ UNCHANGED <<ch, once, res, returned, gaveUp>>

GroupCancelled(c) ==
  /\ Waits(c) /\ calls[c].done
  /\ calls' = [calls EXCEPT ![c] = Returns(c, "cancelled")]
  /\ UNCHANGED <<ch, once, res, returned, gaveUp>>

-----------------------------------------------------------------------------
Runs(c) ==
  \/ \E f \in Futures : EnterOnce(c, f) \/ Receive(c, f) \/ CtxDone(c, f)
                        \/ AwaitReturns(c, f) \/ Merge(c, f)
  \/ TakeResult(c) \/ GroupCancelled(c)

Step ==
  \/ \E f \in Futures, r \in {"ok", "failed"} : FnReturns(f, r)
  \/ \E c \in Calls : Runs(c) \/ GiveUp(c)

Next == Step \/ \E plan \in Plans : Start(plan)

(* Goroutines go on and every fn returns; with the calls bounded every     *)
(* behaviour is finite, and fairness for all together is fairness for each. *)
Fairness ==
  WF_vars(\/ \E c \in Calls : Runs(c)
          \/ \E f \in Futures, r \in {"ok", "failed"} : FnReturns(f, r))

-----------------------------------------------------------------------------
Returned(c) == c \in Calls /\ calls[c].ret # None
Shares(c, d) == calls[c].futures \intersect calls[d].futures # {}

(* What a call returns has its reason, for whatever calls share futures:   *)
(* All succeeds only if every fn did, Race and Await only with a future's  *)
(* own success; an error is some future's own; and "cancelled" means that  *)
(* the caller gave up, or that a call that awaited one of the futures did, *)
(* or was an All or a Race that had returned and so left its cancellation  *)
(* in the cache of the futures it did not wait for (Await, All, Race).     *)
(* Once an Await has returned the result of fn, no Await of that future    *)
(* whose caller has not given up is told that it was cancelled: "result is *)
(* cached after first resolution".                                         *)
OutcomesExplained ==
  \A c \in Calls :
    /\ calls[c].ret = "ok" =>
         IF calls[c].kind = "all" THEN \A f \in calls[c].futures : returned[f] = "ok"
                                  ELSE \E f \in calls[c].futures : returned[f] = "ok"
    /\ calls[c].ret = "failed" => \E f \in calls[c].futures : returned[f] = "failed"
    /\ calls[c].ret = "cancelled" /\ c \notin gaveUp =>
         \E d \in Calls \ {c} : Shares(c, d) /\ calls[d].done
    /\ calls[c].kind = "await" /\ calls[c].ret = "cancelled" =>
         \A d \in Calls :
           calls[d].kind = "await" /\ calls[d].futures = calls[c].futures
           => calls[d].ret \in {None, "cancelled"} \/ c \in gaveUp

(* If the functions return, so does every call, and every goroutine of All *)
(* and Race comes to its end.  (Race of no futures has nothing to wait for *)
(* but its context.)                                                       *)
CallsEnded ==
  \A c \in Calls : /\ calls[c].futures # {} => Returned(c)
                   /\ \A f \in calls[c].futures : calls[c].at[f] \in {"returned", "sent"}
AwaitsEnd == calls # <<>> ~> CallsEnded
=============================================================================
