------------------------------ MODULE Limiter -------------------------------
(***************************************************************************)
(* pkg/ratelimit: token buckets, one alone (Limiter) or one per key (Keyed *)
(* Limiter, of which one key is modelled: keys share nothing but the map). *)
(* Time is counted in units in which Rate tokens come back.  A limiter     *)
(* that was dropped lives on in the hands of the calls that looked it up.  *)
(***************************************************************************)
EXTENDS Integers, Sequences, FiniteSetsExt

CONSTANTS
  Clients,      \* the goroutines that call
  Rate, Burst,
  TTLs,         \* the values given to WithKeyTTL
  MaxTime,      \* bound on the clock
  MaxPasses,    \* bound on the tokens taken
  MaxBuckets    \* bound on the limiters made for the key

VARIABLES
  mode,         \* "none", "plain" or "keyed"
  ttl,          \* of the KeyedLimiter
  now,          \* time.Now()
  buckets,      \* the limiters made so far: [tokens, lastFill]
  entry,        \* the limiter of the key, 0 when it has none
  lastSeen,     \* of the entry
  client        \* client[c]: [at, bucket, n, wake]

VARIABLES       \* history
  passes,       \* passes[b]: the times at which a token was taken from bucket b
  used,         \* the tokens taken from what was then the key's limiter: [at, given]
  given,        \* what limiters lacked when they were dropped, all together
  forgiven      \* Evict dropped a limiter that was Owing

limiterVars == <<mode, ttl, now, buckets, entry, lastSeen, client, passes, used, given, forgiven>>

Idle == [at |-> "idle", bucket |-> 0, n |-> 0, wake |-> 0]

TypeOK ==
  /\ mode \in {"none", "plain", "keyed"} /\ now \in 0 .. MaxTime
  /\ ttl \in TTLs \union {0}
  /\ buckets \in Seq([tokens : 0 .. Burst, lastFill : 0 .. MaxTime])
  /\ entry \in 0 .. Len(buckets) /\ lastSeen \in 0 .. MaxTime
  /\ client \in [Clients -> [at : {"idle", "found", "sleeping"}, bucket : 0 .. Len(buckets),
                             n : 0 .. Burst + 1, wake : 0 .. 2 * MaxTime + Burst]]
  /\ passes \in Seq(Seq(0 .. MaxTime)) /\ given \in Nat
  /\ used \in Seq([at : 0 .. MaxTime, given : Nat])
  /\ forgiven \in BOOLEAN

Init ==
  /\ mode = "none" /\ ttl = 0 /\ now = 0 /\ buckets = <<>> /\ entry = 0 /\ lastSeen = 0
  /\ client = [c \in Clients |-> Idle]
  /\ passes = <<>> /\ used = <<>> /\ given = 0
  /\ forgiven = FALSE

NewBucket == [tokens |-> Burst, lastFill |-> now]

New ==
  /\ mode = "none" /\ mode' = "plain"
  /\ buckets' = <<NewBucket>> /\ entry' = 1 /\ passes' = <<<<>>>>
  /\ UNCHANGED <<ttl, now, lastSeen, client, used, given, forgiven>>

NewKeyed(d) ==
  /\ mode = "none" /\ mode' = "keyed" /\ ttl' = d
  /\ UNCHANGED <<now, buckets, entry, lastSeen, client, passes, used, given, forgiven>>

Elapse ==
  /\ mode # "none" /\ now < MaxTime
  /\ now' = now + 1
  /\ UNCHANGED <<mode, ttl, buckets, entry, lastSeen, client, passes, used, given, forgiven>>

-----------------------------------------------------------------------------
refill(b) ==
  LET full == b.tokens + (now - b.lastFill) * Rate
  IN [tokens |-> IF full < Burst THEN full ELSE Burst, lastFill |-> now]

Room(n) == MapThenSumSet(LAMBDA b : Len(passes[b]), DOMAIN passes) + n <= MaxPasses

(* Under the mutex of the limiter: refill, and take n tokens or none. *)
Take(b, n) ==
  LET filled == refill(buckets[b])
      ok == filled.tokens >= n
  IN /\ buckets' = [buckets EXCEPT ![b] = IF ok THEN [filled EXCEPT !.tokens = @ - n] ELSE filled]
     /\ passes' = IF ok THEN [passes EXCEPT ![b] = @ \o [k \in 1 .. n |-> now]] ELSE passes
     /\ used' = IF ok /\ b = entry THEN used \o [k \in 1 .. n |-> [at |-> now, given |-> given]]
                                  ELSE used

(* limiterFor, under the mutex of the KeyedLimiter; the limiter is used    *)
(* after it is released.                                                   *)
limiterFor(c, n) ==
  /\ mode = "keyed" /\ client[c].at = "idle"
  /\ entry = 0 => Len(buckets) < MaxBuckets
  /\ entry' = IF entry = 0 THEN Len(buckets) + 1 ELSE entry
  /\ buckets' = IF entry = 0 THEN Append(buckets, NewBucket) ELSE buckets
  /\ passes' = IF entry = 0 THEN Append(passes, <<>>) ELSE passes
  /\ lastSeen' = now
  /\ client' = [client EXCEPT ![c] = [Idle EXCEPT !.at = "found", !.bucket = entry', !.n = n]]
  /\ UNCHANGED <<mode, ttl, now, used, given, forgiven>>

KeyedAllowN(c) ==
  /\ client[c].at = "found" /\ Room(client[c].n)
  /\ Take(client[c].bucket, client[c].n)
  /\ client' = [client EXCEPT ![c] = Idle]
  /\ UNCHANGED <<mode, ttl, now, entry, lastSeen, given, forgiven>>

AllowN(c, n) ==
  /\ mode = "plain" /\ client[c].at = "idle" /\ Room(n)
  /\ Take(1, n)
  /\ UNCHANGED <<mode, ttl, now, entry, lastSeen, client, given, forgiven>>

-----------------------------------------------------------------------------
(* One turn of the loop of WaitN: the tokens are there, or the caller      *)
(* sleeps as long as they take to come.                                    *)
Attempt(c, n) ==
  /\ Take(1, n)
  /\ LET have == refill(buckets[1]).tokens IN
     client' = [client EXCEPT ![c] =
       IF have >= n THEN Idle
       ELSE [at |-> "sleeping", bucket |-> 1, n |-> n, wake |-> now + (n - have + Rate - 1) \div Rate]]
  /\ UNCHANGED <<mode, ttl, now, entry, lastSeen, given, forgiven>>

WaitN(c, n) ==
  /\ mode = "plain" /\ client[c].at = "idle" /\ Room(n)
  /\ Attempt(c, n)

Wakes(c) ==
  /\ client[c].at = "sleeping" /\ client[c].wake <= now
  /\ Room(client[c].n)
  /\ Attempt(c, client[c].n)

GivesUp(c) ==
  /\ client[c].at = "sleeping"
  /\ client' = [client EXCEPT ![c] = Idle]
  /\ UNCHANGED <<mode, ttl, now, buckets, entry, lastSeen, passes, used, given, forgiven>>

-----------------------------------------------------------------------------
(* What the key's limiter lacks to be full: the key is free of it when the *)
(* limiter is dropped, since the next one is made full.                    *)
Lacks == Burst - refill(buckets[entry]).tokens

(* The tokens taken later than the limiter was last looked up. *)
Late == Cardinality({i \in DOMAIN passes[entry] : passes[entry][i] > lastSeen})

(* It lacks more than is not made up for in longer than the ttl, and the   *)
(* late tokens.                                                            *)
Owing == Lacks > Max({0, Burst - Rate * (ttl + 1)}) + Late

Drop ==
  /\ entry' = 0 /\ given' = given + Lacks
  /\ UNCHANGED <<mode, ttl, now, buckets, lastSeen, client, passes, used>>

Delete == mode = "keyed" /\ entry # 0 /\ Drop /\ UNCHANGED forgiven

(* Mutant: the bound on idleness is off by one. *)
EvictEarly ==
  /\ mode = "keyed" /\ entry # 0 /\ lastSeen <= now - ttl
  /\ Drop /\ forgiven' = (forgiven \/ Owing)

Evict ==
  /\ mode = "keyed" /\ entry # 0 /\ lastSeen < now - ttl
  /\ Drop /\ forgiven' = (forgiven \/ Owing)

Next ==
  \/ New \/ Elapse \/ Delete \/ Evict
  \/ \E d \in TTLs : NewKeyed(d)
  \/ \E c \in Clients : KeyedAllowN(c) \/ Wakes(c) \/ GivesUp(c)
  \/ \E c \in Clients, n \in 1 .. Burst : limiterFor(c, n)
  \/ \E c \in Clients, n \in 1 .. Burst + 1 : AllowN(c, n) \/ WaitN(c, n)

-----------------------------------------------------------------------------
(* In no stretch of time does a limiter let more pass than its burst and   *)
(* what comes back in that time, however Allow and Wait are mixed.  Nor    *)
(* does a key, by the limiters it has one after the other, but for what    *)
(* they lacked when they were dropped.  And Evict drops none that lacks    *)
(* more than the ttl is too short to bring back, nothing if a bucket fills *)
(* within the ttl, and what calls took later than they had looked it up    *)
(* (AllowN, WaitN, refill, limiterFor, Evict).  A call that finds its      *)
(* limiter dropped is served by that limiter, within that one's rate.      *)
RateHeld ==
  /\ \A b \in DOMAIN passes : \A i, j \in DOMAIN passes[b] :
       i <= j => j - i + 1 <= Burst + Rate * (passes[b][j] - passes[b][i])
  /\ \A i, j \in DOMAIN used :
       i <= j => j - i + 1 <= Burst + Rate * (used[j].at - used[i].at) + used[j].given - used[i].given
  /\ ~forgiven
=============================================================================
