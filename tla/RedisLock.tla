------------------------------ MODULE RedisLock -----------------------------
(***************************************************************************)
(* pkg/lock: clients that contend for one key of one Redis server.         *)
(*                                                                         *)
(* A command is sent, executed by the server at some later moment or lost, *)
(* and answered; the client may stop waiting first (a cancelled context,   *)
(* the 5 s limit of a renewal, a broken connection), and the command it    *)
(* gave up on may still be executed.  One unit of time is ttl/3, the       *)
(* period of keepalive's ticker, so a fresh key lives TTL = 3 units.       *)
(***************************************************************************)
EXTENDS Naturals, FiniteSets

CONSTANTS
  Clients,    \* processes that use the lock
  RetryOk,    \* Locker.retryOk: WithRetry was given
  RetryN,     \* Locker.retryN
  MaxTokens,  \* bound: tokens each client draws
  NoKey

ASSUME LockAssumption ==
  /\ RetryOk \in BOOLEAN /\ RetryN \in Nat /\ MaxTokens \in [Clients -> Nat]
  /\ NoKey \notin [owner : Clients \X Nat, left : Nat]

VARIABLES
  key,      \* the key in Redis: NoKey, or the token stored and the time left
  wire,     \* commands sent and not yet executed or lost
  pc,       \* what each client is doing
  gen,      \* tokens each client has drawn; the last one is its current token
  attempt,  \* Acquire's attempt counter while it waits or tries, if RetryOk
  await,    \* the command a client waits for, or "none"
  reply,    \* its answer: "yes" (OK, 1), "no" (nil, 0), "none" so far
  keep,     \* the keepalive goroutine of the client's Lock
  tick      \* a tick waits in the goroutine's ticker channel

(* History: the renewals in a row that failed while a key was held, TTL if *)
(* the system was late instead, and whether the key expired while held.    *)
VARIABLES missed, expired

vars == <<key, wire, pc, gen, attempt, await, reply, keep, tick, missed, expired>>

\* Mutant: the ticker runs at ttl/2.
TTLOfTwo == 2

\* keepalive's ticks per ttl: NewTicker(ttl / 3).
TTL == 3

Token(c) == <<c, gen[c]>>
Tokens == UNION {{c} \X (1..MaxTokens[c]) : c \in Clients}
Op == {"SET", "RENEW", "DEL"}

\* A Lock was returned and Release has not been called on it.
Held(c) == pc[c] = "holding"
-----------------------------------------------------------------------------
Init ==
  /\ key = NoKey
  /\ wire = {}
  /\ pc = [c \in Clients |-> "idle"]
  /\ gen = [c \in Clients |-> 0]
  /\ attempt = [c \in Clients |-> 0]
  /\ await = [c \in Clients |-> "none"]
  /\ reply = [c \in Clients |-> "none"]
  /\ keep = [c \in Clients |-> "none"]
  /\ tick = [c \in Clients |-> FALSE]
  /\ missed = [c \in Clients |-> 0]
  /\ expired = [c \in Clients |-> FALSE]
-----------------------------------------------------------------------------
(* Redis and the connection to it.                                         *)

Mine(m) == key # NoKey /\ key.owner = m.token

\* Mutant: DEL without the comparison of tokens.
ExecutedUnguarded(m) ==
  CASE m.op = "SET"   -> IF key = NoKey THEN [owner |-> m.token, left |-> TTL] ELSE key
    [] m.op = "RENEW" -> IF Mine(m) THEN [key EXCEPT !.left = TTL] ELSE key
    [] m.op = "DEL"   -> NoKey

\* The key after SET ... NX, renewScript or releaseScript.
Executed(m) ==
  CASE m.op = "SET"   -> IF key = NoKey THEN [owner |-> m.token, left |-> TTL] ELSE key
    [] m.op = "RENEW" -> IF Mine(m) THEN [key EXCEPT !.left = TTL] ELSE key
    [] m.op = "DEL"   -> IF Mine(m) THEN NoKey ELSE key

Answer(m) ==
  IF (m.op = "SET" /\ key = NoKey) \/ (m.op # "SET" /\ Mine(m)) THEN "yes" ELSE "no"

\* The client that sent m is still waiting for it.
Waiting(c, m) == m.token = Token(c) /\ await[c] = m.op /\ reply[c] = "none"

Execute(m) ==
  /\ key' = Executed(m)
  /\ wire' = wire \ {m}
  /\ reply' = [c \in Clients |-> IF Waiting(c, m) THEN Answer(m) ELSE reply[c]]
  /\ missed' = [c \in Clients |->
                  IF m.op # "DEL" /\ Answer(m) = "yes" /\ m.token = Token(c) THEN 0 ELSE missed[c]]
  /\ UNCHANGED <<pc, gen, attempt, await, keep, tick, expired>>

Lose(m) ==
  /\ wire' = wire \ {m}
  /\ UNCHANGED <<key, pc, gen, attempt, await, reply, keep, tick, missed, expired>>

\* The key's time is up.
Expire ==
  /\ key # NoKey /\ key.left = 0
  /\ key' = NoKey
  /\ expired' = [c \in Clients |-> expired[c] \/ (Held(c) /\ key.owner = Token(c))]
  /\ UNCHANGED <<wire, pc, gen, attempt, await, reply, keep, tick, missed>>

\* c is still waiting for a command, or has not begun a renewal that is due.
Late(c) ==
  /\ pc[c] \in {"acquiring", "holding"}
  /\ tick[c] \/ await[c] # "none"

\* ttl/3 passes: the key ages, every ticker offers a tick to its channel of one.
Tick ==
  /\ key # NoKey => key.left > 0
  /\ missed' = [c \in Clients |-> IF Late(c) THEN TTL ELSE missed[c]]
  /\ key' = IF key = NoKey THEN key ELSE [key EXCEPT !.left = @ - 1]
  /\ tick' = [c \in Clients |-> keep[c] \in {"select", "renewing"}]
  /\ UNCHANGED <<wire, pc, gen, attempt, await, reply, keep, expired>>
-----------------------------------------------------------------------------
(* TryAcquire and Acquire.                                                 *)

Sends(c, op, t) ==
  /\ wire' = wire \union {[op |-> op, token |-> t]}
  /\ await' = [await EXCEPT ![c] = op]
  /\ reply' = [reply EXCEPT ![c] = "none"]

NoLongerHeld(c) ==
  /\ missed' = [missed EXCEPT ![c] = 0]
  /\ expired' = [expired EXCEPT ![c] = FALSE]

Stops(c) ==
  /\ await' = [await EXCEPT ![c] = "none"]
  /\ reply' = [reply EXCEPT ![c] = "none"]

\* A call of Acquire, or its next attempt after the interval: a new token.
TryAcquire(c) ==
  /\ pc[c] \in {"idle", "released", "interval"} /\ gen[c] < MaxTokens[c]
  /\ gen' = [gen EXCEPT ![c] = @ + 1]
  /\ pc' = [pc EXCEPT ![c] = "acquiring"]
  /\ Sends(c, "SET", <<c, gen[c] + 1>>)
  /\ keep' = [keep EXCEPT ![c] = "none"]
  /\ UNCHANGED <<key, attempt, tick, missed, expired>>

\* Acquire returns ErrNotAcquired instead of waiting for the next attempt.
GivesUp(c) == RetryOk /\ attempt[c] + 1 >= RetryN

\* The answer: a Lock with its keepalive, or ErrNotAcquired and maybe a retry.
Acquired(c) ==
  /\ pc[c] = "acquiring" /\ reply[c] # "none"
  /\ Stops(c)
  /\ IF reply[c] = "yes"
       THEN /\ pc' = [pc EXCEPT ![c] = "holding"]
            /\ keep' = [keep EXCEPT ![c] = "select"]
            /\ expired' = [expired EXCEPT ![c] = (key = NoKey \/ key.owner # Token(c))]
            /\ attempt' = [attempt EXCEPT ![c] = 0]
            /\ UNCHANGED missed
       ELSE /\ attempt' = [attempt EXCEPT ![c] = IF RetryOk /\ ~GivesUp(c) THEN @ + 1 ELSE 0]
            /\ pc' = [pc EXCEPT ![c] = IF GivesUp(c) THEN "idle" ELSE "interval"]
            /\ NoLongerHeld(c)
            /\ UNCHANGED keep
  /\ UNCHANGED <<key, wire, gen, tick>>

\* Any other error of the SET, or ctx done during the interval.
AcquireFails(c) ==
  /\ pc[c] \in {"acquiring", "interval"}
  /\ Stops(c)
  /\ pc' = [pc EXCEPT ![c] = "idle"]
  /\ attempt' = [attempt EXCEPT ![c] = 0]
  /\ NoLongerHeld(c)
  /\ UNCHANGED <<key, wire, gen, keep, tick>>
-----------------------------------------------------------------------------
(* keepalive.                                                              *)

Stopped(c) == pc[c] = "stopping"

\* case <-ticker.C
Renew(c) ==
  /\ keep[c] = "select" /\ tick[c]
  /\ tick' = [tick EXCEPT ![c] = FALSE]
  /\ keep' = [keep EXCEPT ![c] = "renewing"]
  /\ Sends(c, "RENEW", Token(c))
  /\ UNCHANGED <<key, pc, gen, attempt, missed, expired>>

\* The script answered, or failed: the result is ignored either way.
Renewed(c) ==
  /\ keep[c] = "renewing"
  /\ keep' = [keep EXCEPT ![c] = "select"]
  /\ Stops(c)
  /\ missed' = [missed EXCEPT ![c] = IF ~Held(c) \/ reply[c] = "yes" \/ @ >= TTL THEN @ ELSE @ + 1]
  /\ UNCHANGED <<key, wire, pc, gen, attempt, tick, expired>>

\* case <-l.stop
KeepaliveExits(c) ==
  /\ keep[c] = "select" /\ Stopped(c)
  /\ keep' = [keep EXCEPT ![c] = "exited"]
  /\ tick' = [tick EXCEPT ![c] = FALSE]
  /\ UNCHANGED <<key, wire, pc, gen, attempt, await, reply, missed, expired>>
-----------------------------------------------------------------------------
(* Release, called once or again; WithLock calls it when fn returns.       *)

\* close(stop), unless an earlier Release did.
Release(c) ==
  /\ pc[c] \in {"holding", "released"} /\ keep[c] # "none"
  /\ pc' = [pc EXCEPT ![c] = "stopping"]
  /\ NoLongerHeld(c)
  /\ UNCHANGED <<key, wire, gen, attempt, await, reply, keep, tick>>

\* Mutant: Release does not stop keepalive, nor wait for it.
ReleaseWithoutStop(c) ==
  /\ pc[c] = "stopping" /\ keep[c] # "renewing"
  /\ pc' = [pc EXCEPT ![c] = "deleting"]
  /\ Sends(c, "DEL", Token(c))
  /\ UNCHANGED <<key, gen, attempt, keep, tick, missed, expired>>

\* <-l.done, then releaseScript.
SendRelease(c) ==
  /\ pc[c] = "stopping" /\ keep[c] = "exited"
  /\ pc' = [pc EXCEPT ![c] = "deleting"]
  /\ Sends(c, "DEL", Token(c))
  /\ UNCHANGED <<key, gen, attempt, keep, tick, missed, expired>>

\* The script answered 1, or 0 ("token mismatch"), or failed.
Released(c) ==
  /\ pc[c] = "deleting"
  /\ Stops(c)
  /\ pc' = [pc EXCEPT ![c] = "released"]
  /\ UNCHANGED <<key, wire, gen, attempt, keep, tick, missed, expired>>

\* The client's process dies, with its goroutines.
Crash(c) ==
  /\ pc[c] # "idle"
  /\ Stops(c)
  /\ pc' = [pc EXCEPT ![c] = "idle"]
  /\ keep' = [keep EXCEPT ![c] = "none"]
  /\ tick' = [tick EXCEPT ![c] = FALSE]
  /\ attempt' = [attempt EXCEPT ![c] = 0]
  /\ NoLongerHeld(c)
  /\ UNCHANGED <<key, wire, gen>>
-----------------------------------------------------------------------------
ClientStep(c) ==
  \/ TryAcquire(c) \/ Acquired(c) \/ AcquireFails(c)
  \/ Renew(c) \/ Renewed(c) \/ KeepaliveExits(c)
  \/ Release(c) \/ SendRelease(c) \/ Released(c)
  \/ Crash(c)

Next ==
  \/ \E m \in wire : Execute(m) \/ Lose(m)
  \/ Expire \/ Tick
  \/ \E c \in Clients : ClientStep(c)

Spec == Init /\ [][Next]_vars

(***************************************************************************)
(* The scheduler runs goroutines that can run, a network wait ends, time   *)
(* passes.  The select of keepalive chooses at random among ready cases,   *)
(* so it cannot pass over stop forever: strong fairness.                   *)
(***************************************************************************)
FairSpec ==
  /\ Spec
  /\ WF_vars(Tick) /\ WF_vars(Expire)
  /\ \A c \in Clients :
       /\ SF_vars(KeepaliveExits(c))
       /\ WF_vars(Renewed(c)) /\ WF_vars(SendRelease(c)) /\ WF_vars(Released(c))
-----------------------------------------------------------------------------
(***************************************************************************)
(* Every variable has its type.  Before the last of the n attempts of      *)
(* WithRetry(n) fewer than n have failed: an Acquire sends at most n       *)
(* commands (one for n = 0).  A key is never older than its ttl.           *)
(***************************************************************************)
TypeOK ==
  /\ key \in [owner : Tokens, left : 0..TTL] \union {NoKey}
  /\ wire \subseteq [op : Op, token : Tokens]
  /\ pc \in [Clients -> {"idle", "acquiring", "interval", "holding",
                         "stopping", "deleting", "released"}]
  /\ \A c \in Clients : gen[c] \in 0..MaxTokens[c]
  /\ attempt \in [Clients -> 0..(IF RetryN = 0 THEN 0 ELSE RetryN - 1)]
  /\ await \in [Clients -> Op \union {"none"}]
  /\ reply \in [Clients -> {"yes", "no", "none"}]
  /\ keep \in [Clients -> {"none", "select", "renewing", "exited"}]
  /\ tick \in [Clients -> BOOLEAN]
  /\ missed \in [Clients -> 0..TTL]
  /\ expired \in [Clients -> BOOLEAN]

(***************************************************************************)
(* A client that was given the lock and has not released it owns the key,  *)
(* unless its own key ran out: no release, late command, retry or crash of *)
(* another client takes the lock from it.  Hence two clients that both     *)
(* hold the lock include one whose key has expired.                        *)
(***************************************************************************)
LostOnlyByExpiry ==
  \A c \in Clients : Held(c) /\ ~expired[c] => key # NoKey /\ key.owner = Token(c)

(***************************************************************************)
(* A live holder that gets its answers and its ticks within ttl/3 loses    *)
(* its key only after two renewals in a row have failed: keepalive gets    *)
(* two chances before the expiry.                                          *)
(***************************************************************************)
TwoChances == \A c \in Clients : Held(c) /\ expired[c] => missed[c] >= 2

(***************************************************************************)
(* A key nobody will release does not stay: when the SET that wrote it was *)
(* given up on, its holder crashed, or Release returned (with whatever     *)
(* error), the key goes.                                                   *)
(***************************************************************************)
Abandoned(t) ==
  /\ key # NoKey /\ key.owner = t
  /\ t = Token(t[1]) => pc[t[1]] \in {"idle", "released"}

NeverLeaks ==
  \A t \in Tokens :
    Abandoned(t) ~> (key = NoKey \/ key.owner # t)

(***************************************************************************)
(* Release returns, or its process dies: it waits for keepalive, which     *)
(* notices stop even while ticks keep coming and renewals keep failing.    *)
(***************************************************************************)
ReleaseReturns ==
  \A c \in Clients : pc[c] = "stopping" ~> pc[c] \in {"released", "idle"}

\* Every lock comes to its end, the call that ends it as well as the key.
LocksEnd == NeverLeaks /\ ReleaseReturns
=============================================================================
