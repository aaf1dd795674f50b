----------------------------- MODULE EventStore -----------------------------
(***************************************************************************)
(* pkg/eventstore over Postgres at its default isolation, READ COMMITTED.  *)
(*                                                                         *)
(* Append reads MAX(version) without locking anything and inserts the      *)
(* following versions one by one.  What keeps two writers apart is only    *)
(* the primary key (stream_id, version): an insert fails on a committed    *)
(* row and waits on an uncommitted one of another transaction.             *)
(***************************************************************************)
EXTENDS Integers, Sequences, FiniteSets

CONSTANTS
  Writers,       \* callers of Append
  Replayers,     \* callers of LoadSnapshot, Load and SaveSnapshot
  Streams,
  Expectations,  \* the expected versions passed to Append
  MaxBatch,      \* bound: events of one Append
  MaxCalls,      \* bound: Appends in all
  NoCall, NoSnapshot

ASSUME StoreAssumption ==
  /\ Expectations \subseteq Int /\ \A e \in Expectations : e >= -2
  /\ MaxBatch \in Nat /\ MaxCalls \in Nat
  /\ NoCall \notin [stream : Streams, expected : Int,
                    events : Seq(Writers \X Nat \X Nat)]

VARIABLES
  table,     \* table events: per stream, the committed rows by version
  call,      \* the arguments of the Append each writer is in, or NoCall
  tx,        \* its transaction: phase, version read, rows inserted
  calls,     \* Appends made so far
  ret,       \* what the last Append returned
  snapshot,  \* table snapshots
  replay     \* where each replayer is and what it has rebuilt

appendVars == <<table, call, tx, calls, ret>>
replayVars == <<snapshot, replay>>
vars == <<appendVars, replayVars>>

Event == Writers \X Nat \X Nat
ExpectedVersionNew == -1
ExpectedVersionAny == -2
NoTx == [phase |-> "none", cur |-> -1, done |-> 0]
-----------------------------------------------------------------------------
(* The database.                                                           *)

\* COALESCE(MAX(version), -1) over the committed rows.
MaxVersion(rows) ==
  CHOOSE v \in DOMAIN rows \union {-1} : \A u \in DOMAIN rows : u <= v

\* The versions a transaction has inserted and not committed.
Inserted(w) == tx[w].cur + 1 .. tx[w].cur + tx[w].done

\* Another transaction's uncommitted row makes an insert wait.
Blocked(w, v) ==
  \E u \in Writers \ {w} :
    /\ tx[u].phase = "inserting"
    /\ call[u].stream = call[w].stream
    /\ v \in Inserted(u)

\* SELECT ... WHERE version >= from ORDER BY version.
SelectFrom(rows, from) ==
  LET D == {v \in DOMAIN rows : v >= from}
  IN  [i \in 1 .. Cardinality(D) |->
         rows[CHOOSE v \in D : Cardinality({u \in D : u < v}) = i - 1]]
-----------------------------------------------------------------------------
Init ==
  /\ table = [s \in Streams |-> <<>>]
  /\ call = [w \in Writers |-> NoCall]
  /\ tx = [w \in Writers |-> NoTx]
  /\ calls = 0
  /\ ret = [w \in Writers |-> "none"]
  /\ snapshot = [s \in Streams |-> NoSnapshot]
  /\ replay = [r \in Replayers |-> [phase |-> "idle"]]

\* Append is called with at least one event (with none it returns at once) and
\* WithTx begins a transaction.
BeginAppend(w, s, n, expected) ==
  /\ call[w] = NoCall /\ calls < MaxCalls
  /\ calls' = calls + 1
  /\ call' = [call EXCEPT ![w] =
                [stream |-> s, expected |-> expected,
                 events |-> [i \in 1 .. n |-> <<w, calls', i>>]]]
  /\ tx' = [tx EXCEPT ![w] = [NoTx EXCEPT !.phase = "begun"]]
  /\ UNCHANGED <<table, ret, replayVars>>

Returns(w, a) ==
  /\ call' = [call EXCEPT ![w] = NoCall]
  /\ tx' = [tx EXCEPT ![w] = NoTx]
  /\ ret' = [ret EXCEPT ![w] = a]
  /\ UNCHANGED <<calls, replayVars>>

\* The switch on expectedVersion.
Fits(expected, cur) ==
  /\ expected = ExpectedVersionNew => cur < 0
  /\ expected \notin {ExpectedVersionNew, ExpectedVersionAny} => cur = expected

\* currentVersion, then the optimistic check on what it read.
CheckVersion(w) ==
  /\ tx[w].phase = "begun"
  /\ LET cur == MaxVersion(table[call[w].stream])
     IN  IF Fits(call[w].expected, cur)
           THEN /\ tx' = [tx EXCEPT ![w] = [phase |-> "inserting", cur |-> cur, done |-> 0]]
                /\ UNCHANGED <<table, call, calls, ret, replayVars>>
           ELSE Returns(w, "conflict") /\ UNCHANGED table

\* Mutant: the table has no primary key.
InsertUnchecked(w) ==
  /\ tx[w].phase = "inserting" /\ tx[w].done < Len(call[w].events)
  /\ tx' = [tx EXCEPT ![w].done = @ + 1]
  /\ UNCHANGED <<table, call, calls, ret, replayVars>>

\* One INSERT of the loop.
Insert(w) ==
  /\ tx[w].phase = "inserting" /\ tx[w].done < Len(call[w].events)
  /\ LET version == tx[w].cur + 1 + tx[w].done
     IN  /\ ~Blocked(w, version)
         /\ IF version \in DOMAIN table[call[w].stream]
              THEN Returns(w, "duplicate") /\ UNCHANGED table
              ELSE /\ tx' = [tx EXCEPT ![w].done = @ + 1]
                   /\ UNCHANGED <<table, call, calls, ret, replayVars>>

\* The committed rows of w's stream once w's own become visible.
Merged(w) ==
  LET rows == table[call[w].stream]
      first == tx[w].cur + 1
  IN  [v \in DOMAIN rows \union Inserted(w) |->
         IF v \in DOMAIN rows THEN rows[v] ELSE call[w].events[v - first + 1]]

\* fn returned nil; the answer to COMMIT may be lost although it took effect.
Commit(w) ==
  /\ tx[w].phase = "inserting" /\ tx[w].done = Len(call[w].events)
  /\ table' = [table EXCEPT ![call[w].stream] = Merged(w)]
  /\ \E a \in {"ok", "error"} : Returns(w, a)

\* Any other end: a failed statement or marshalling, a cancelled context, a
\* lost connection, a COMMIT that did not happen.  The rows are rolled back.
Rollback(w) ==
  /\ call[w] # NoCall
  /\ Returns(w, "error")
  /\ UNCHANGED table
-----------------------------------------------------------------------------
(* Rebuilding an aggregate as the README does: LoadSnapshot, Load of the   *)
(* versions after it, SaveSnapshot of the result.  The state of an         *)
(* aggregate is the sequence of events it was built from.                  *)

Replays(r, p) ==
  /\ replay' = [replay EXCEPT ![r] = p]
  /\ UNCHANGED appendVars

LoadSnapshot(r, s) ==
  /\ replay[r].phase = "idle"
  /\ Replays(r, [phase |-> "loaded", stream |-> s,
                 state |-> IF snapshot[s] = NoSnapshot THEN <<>> ELSE snapshot[s].data,
                 from  |-> IF snapshot[s] = NoSnapshot THEN 0 ELSE snapshot[s].version + 1])
  /\ UNCHANGED snapshot

\* Mutant: the tail begins with the snapshot's own version.
LoadOverlapping(r) ==
  /\ replay[r].phase = "loaded"
  /\ LET from == IF replay[r].from = 0 THEN 0 ELSE replay[r].from - 1
         tail == SelectFrom(table[replay[r].stream], from)
     IN  IF tail = <<>> /\ from = 0
           THEN Replays(r, [phase |-> "idle"])
           ELSE Replays(r, [phase |-> "rebuilt", stream |-> replay[r].stream,
                            state |-> replay[r].state \o tail])
  /\ UNCHANGED snapshot

\* Load; from = 0 and no event is ErrStreamNotFound.
Load(r) ==
  /\ replay[r].phase = "loaded"
  /\ LET tail == SelectFrom(table[replay[r].stream], replay[r].from)
     IN  IF tail = <<>> /\ replay[r].from = 0
           THEN Replays(r, [phase |-> "idle"])
           ELSE Replays(r, [phase |-> "rebuilt", stream |-> replay[r].stream,
                            state |-> replay[r].state \o tail])
  /\ UNCHANGED snapshot

\* Mutant: the version saved is the number of events.
SaveSnapshotCount(r) ==
  /\ replay[r].phase = "rebuilt"
  /\ snapshot' = [snapshot EXCEPT ![replay[r].stream] =
                    [version |-> Len(replay[r].state), data |-> replay[r].state]]
  /\ Replays(r, [phase |-> "idle"])

\* The upsert replaces whatever row is there, a newer one too.
SaveSnapshot(r) ==
  /\ replay[r].phase = "rebuilt"
  /\ snapshot' = [snapshot EXCEPT ![replay[r].stream] =
                    [version |-> Len(replay[r].state) - 1, data |-> replay[r].state]]
  /\ Replays(r, [phase |-> "idle"])

\* The aggregate is used and no snapshot is saved.
Discard(r) ==
  /\ replay[r].phase = "rebuilt"
  /\ Replays(r, [phase |-> "idle"])
  /\ UNCHANGED snapshot
-----------------------------------------------------------------------------
Step(w) == CheckVersion(w) \/ Insert(w) \/ Commit(w)

AppendNext ==
  \/ \E w \in Writers, s \in Streams, n \in 1 .. MaxBatch, e \in Expectations :
       BeginAppend(w, s, n, e)
  \/ \E w \in Writers : Step(w) \/ Rollback(w)

ReplayNext ==
  \/ \E r \in Replayers, s \in Streams : LoadSnapshot(r, s)
  \/ \E r \in Replayers : Load(r) \/ SaveSnapshot(r) \/ Discard(r)

\* MaxCalls Appends have been made.
Terminated ==
  /\ calls = MaxCalls /\ \A w \in Writers : call[w] = NoCall
  /\ UNCHANGED vars

Next == AppendNext \/ ReplayNext \/ Terminated

Spec == Init /\ [][Next]_vars

\* A transaction that has begun goes on; nobody has to begin one.
Fairness == \A w \in Writers : WF_vars(Step(w))
FairSpec == Spec /\ Fairness
-----------------------------------------------------------------------------
Request == [stream : Streams, expected : Expectations, events : Seq(Event)]

\* The types of the tables and of the transactions.
TypeOK ==
  /\ DOMAIN table = Streams
  /\ \A s \in Streams : /\ DOMAIN table[s] \subseteq Nat
                        /\ \A v \in DOMAIN table[s] : table[s][v] \in Event
  /\ call \in [Writers -> Request \union {NoCall}]
  /\ tx \in [Writers -> [phase : {"none", "begun", "inserting"}, cur : Int, done : Nat]]
  /\ \A w \in Writers : (tx[w].phase = "none") <=> (call[w] = NoCall)
  /\ calls \in 0 .. MaxCalls
  /\ ret \in [Writers -> {"none", "ok", "conflict", "duplicate", "error"}]

\* The events of a stream in the order of their versions.
LogOf(s) == SelectFrom(table[s], 0)

Log == INSTANCE EventLog WITH
  log <- [s \in Streams |-> LogOf(s)],
  ret <- [w \in Writers |-> IF ret[w] = "duplicate" THEN "error" ELSE ret[w]]

\* Although the version is read without a lock and checked before the inserts,
\* every Append is atomic, appends after everything committed before it, and
\* took effect while its expected version held: no update is lost.
ImplementsEventLog == Log!Spec

\* Writers that wait for each other's rows never wait in a circle: an Append
\* that has begun returns.
AppendReturns == \A w \in Writers : call[w] # NoCall ~> call[w] = NoCall

\* A snapshot, however late it was saved and whatever it replaced, is the state
\* of its stream at its version.
SnapshotSound ==
  \A s \in Streams : snapshot[s] # NoSnapshot =>
    /\ snapshot[s].version + 1 <= Len(LogOf(s))
    /\ snapshot[s].data = SubSeq(LogOf(s), 1, snapshot[s].version + 1)

\* A rebuild from a snapshot and the versions after it yields the whole stream
\* as of the Load, though appends and other snapshots come between the two reads.
RebuildsExactly ==
  [][ \A r \in Replayers :
        replay[r].phase = "loaded" /\ replay'[r].phase = "rebuilt" =>
          replay'[r].state = LogOf(replay[r].stream) ]_vars
=============================================================================
