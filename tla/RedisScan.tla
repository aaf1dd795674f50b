----------------------------- MODULE RedisScan ------------------------------
(***************************************************************************)
(* The two loops over SCAN: rediscache.Flush and feature.ListAll, while    *)
(* other clients Set and Delete keys.  SCAN visits the slots of the table  *)
(* one after the other and may return a page twice; a key that is there    *)
(* all the time is returned.  Every command may fail.  The prefix goes     *)
(* into the pattern as it is, so that one with *, ?, [ or \ in it matches   *)
(* other keys than those that begin with it, or not even those.            *)
(***************************************************************************)
EXTENDS Integers, FiniteSets

CONSTANTS
  Slot,         \* the keys, each with its slot in Redis's table
  Prefixes,     \* a prefix, as the keys its pattern matches, each with the name that
                \* is left of it when the length of the prefix is cut off
  Short,        \* stands for the name of a key that is shorter than the prefix
  Values,
  Flags,        \* the values that decode as a Flag
  MaxWrites     \* bound on the commands of other clients

Keys == DOMAIN Slot
Slots == {Slot[k] : k \in Keys}
Names == UNION {{p[k] : k \in DOMAIN p} : p \in Prefixes} \ {Short}
Absent == 0

VARIABLES
  db,           \* db[k]: the value of the key, or Absent
  call,         \* "none", "flush", "flush all" or "list"
  prefix,       \* of the cache, or of the flags of the namespace
  cursor,       \* the slot to scan next
  page,         \* the keys SCAN returned that were not yet handled
  flags,        \* the map ListAll builds
  reply,        \* "none", "ok", "error" or "panic"
  writes        \* commands of other clients during the call

VARIABLES       \* history
  held,         \* held[k]: the values k had since the call began
  written,      \* the keys other clients wrote since then
  skipped       \* the keys with a GET that failed

scanVars == <<db, call, prefix, cursor, page, flags, reply, writes, held, written, skipped>>

TypeOK ==
  /\ db \in [Keys -> Values \union {Absent}]
  /\ flags \in [Names -> Flags \union {Absent}] /\ prefix \in Prefixes \union {<<>>}
  /\ call \in {"none", "flush", "flush all", "list"} /\ reply \in {"none", "ok", "error", "panic"}
  /\ cursor \in Nat /\ writes \in 0 .. MaxWrites
  /\ page \subseteq Keys /\ written \subseteq Keys /\ skipped \subseteq Keys
  /\ held \in [Keys -> SUBSET (Values \union {Absent})]

Empty == [k \in Keys |-> Absent]

Init ==
  /\ db = Empty /\ flags = [n \in Names |-> Absent]
  /\ prefix = <<>>
  /\ call = "none" /\ reply = "none" /\ cursor = 1 /\ writes = 0
  /\ page = {} /\ written = {} /\ skipped = {}
  /\ held = [k \in Keys |-> {Absent}]

(* Set and Delete of other clients, on any key. *)
Write(k, v) ==
  /\ writes < MaxWrites /\ call # "none" /\ reply = "none"
  /\ db' = [db EXCEPT ![k] = v] /\ writes' = writes + 1
  /\ written' = written \union {k}
  /\ held' = [held EXCEPT ![k] = @ \union {v}]
  /\ UNCHANGED <<call, prefix, cursor, page, flags, reply, skipped>>

(* The call begins, on whatever the database holds. *)
Begin(how, p, there) ==
  /\ call = "none" /\ call' = how /\ prefix' = p
  /\ db' = there
  /\ held' = [k \in Keys |-> {db'[k]}]
  /\ UNCHANGED <<cursor, page, flags, reply, writes, written, skipped>>

Reply(r) == reply' = r /\ UNCHANGED <<call, prefix, cursor, flags, writes, written, skipped>>

(* FLUSHDB, when there is no prefix. *)
FlushAll ==
  /\ call = "flush all" /\ reply = "none"
  /\ db' = Empty /\ held' = [k \in Keys |-> held[k] \union {Absent}]
  /\ Reply("ok") /\ UNCHANGED page

Fail ==
  /\ call # "none" /\ reply = "none" /\ (call = "list" => page = {})
  /\ Reply("error") /\ UNCHANGED <<db, page, held>>

Matched == DOMAIN prefix

(* A page of SCAN with MATCH: the keys of a slot that the pattern matches. *)
Page(slot) == {k \in Matched : Slot[k] = slot /\ db[k] # Absent}

Scan(again) ==
  /\ call \in {"flush", "list"} /\ reply = "none" /\ page = {} /\ cursor \in Slots
  /\ page' = Page(cursor)
  /\ cursor' = IF again THEN cursor ELSE cursor + 1
  /\ UNCHANGED <<db, call, prefix, flags, reply, writes, held, written, skipped>>

(* Mutant: the keys of the last page are left. *)
DelBatchButLast ==
  /\ call = "flush" /\ reply = "none" /\ page # {}
  /\ db' = IF cursor \in Slots THEN [k \in Keys |-> IF k \in page THEN Absent ELSE db[k]] ELSE db
  /\ held' = [k \in Keys |-> IF k \in page THEN held[k] \union {Absent} ELSE held[k]]
  /\ page' = {}
  /\ UNCHANGED <<call, prefix, cursor, flags, reply, writes, written, skipped>>

DelBatch ==
  /\ call = "flush" /\ reply = "none" /\ page # {}
  /\ db' = [k \in Keys |-> IF k \in page THEN Absent ELSE db[k]]
  /\ held' = [k \in Keys |-> IF k \in page THEN held[k] \union {Absent} ELSE held[k]]
  /\ page' = {}
  /\ UNCHANGED <<call, prefix, cursor, flags, reply, writes, written, skipped>>

(* A GET of ListAll, which fails, finds nothing or a value; an error is    *)
(* passed over, and so is a value that does not decode.  k[len(prefix):]   *)
(* panics when the key is shorter.                                         *)
Passes(k, fails) == fails \/ db[k] \notin Flags

GetFlag(k, fails) ==
  /\ call = "list" /\ reply = "none" /\ k \in page
  /\ page' = page \ {k}
  /\ IF Passes(k, fails) THEN UNCHANGED <<flags, reply>>
     ELSE IF prefix[k] = Short THEN reply' = "panic" /\ UNCHANGED flags
     ELSE flags' = [flags EXCEPT ![prefix[k]] = db[k]] /\ UNCHANGED reply
  /\ skipped' = IF fails THEN skipped \union {k} ELSE skipped
  /\ UNCHANGED <<db, call, prefix, cursor, writes, held, written>>

(* Mutant: the loop does not end with the cursor. *)
LoopEndsNot ==
  /\ call \in {"flush", "list"} /\ reply = "none" /\ page = {} /\ cursor \notin Slots
  /\ cursor' = 1
  /\ UNCHANGED <<db, call, prefix, page, flags, reply, writes, held, written, skipped>>

LoopEnds ==
  /\ call \in {"flush", "list"} /\ reply = "none" /\ page = {} /\ cursor \notin Slots
  /\ Reply("ok") /\ UNCHANGED <<db, page, held>>

-----------------------------------------------------------------------------
Runs ==
  \/ FlushAll \/ DelBatch \/ LoopEnds
  \/ \E k \in Keys, fails \in BOOLEAN : GetFlag(k, fails)

Next ==
  \/ \E k \in Keys, v \in Values \union {Absent} : Write(k, v)
  \/ \E there \in [Keys -> Values \union {Absent}] :
       \/ Begin("flush all", <<>>, there)
       \/ \E how \in {"flush", "list"}, p \in Prefixes : Begin(how, p, there)
  \/ \E again \in BOOLEAN : Scan(again)
  \/ Fail \/ Runs

(* SCAN does not return the same page forever: a full iteration ends. *)
Fairness == SF_scanVars(Scan(FALSE)) /\ WF_scanVars(Runs)

-----------------------------------------------------------------------------
Named(n) == {k \in Matched : prefix[k] = n}

(* A Flush that succeeds has removed every key its pattern matches that    *)
(* nobody wrote meanwhile; those are the keys under the prefix if it has   *)
(* none of *, ?, [ or \ in it.  What ListAll returns under a name is a value that  *)
(* a key of that name had during the call; and a key that held flags all   *)
(* the time, the same or one after the other, is missing only if its own   *)
(* GET failed, which ListAll passes over.  (Values that do not decode are  *)
(* passed over too, and two keys have one name if the pattern matches one  *)
(* that is not under the prefix.)                                          *)
ScanSound ==
  /\ call = "flush" /\ reply = "ok" => \A k \in Matched \ written : db[k] = Absent
  /\ call = "list" => \A n \in Names : flags[n] # Absent => \E k \in Named(n) : flags[n] \in held[k]
  /\ call = "list" /\ reply = "ok" =>
       \A k \in Matched \ skipped :
         held[k] \subseteq Flags => prefix[k] # Short /\ flags[prefix[k]] # Absent
=============================================================================
