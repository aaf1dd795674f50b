------------------------------- MODULE Outbox -------------------------------
(***************************************************************************)
(* pkg/outbox over Postgres: business transactions that Store an event,    *)
(* and relays that publish the events and mark them, a batch to a          *)
(* transaction.                                                            *)
(*                                                                         *)
(* created_at defaults to NOW(), the time the business transaction began,  *)
(* so the order of the events is the order of the BEGINs, not of the       *)
(* COMMITs.                                                                *)
(***************************************************************************)
EXTENDS Naturals, Sequences, FiniteSets

CONSTANTS
  Events,      \* events, one to a business transaction
  Poisoned,    \* events the publisher always refuses
  Relays,
  BatchSize,   \* relayOptions.batchSize
  MaxFaults    \* bound: refused publishes of other events, failed statements and
               \* commits, lost connections, crashes

ASSUME OutboxAssumption ==
  /\ IsFiniteSet(Events) /\ Poisoned \subseteq Events
  /\ BatchSize \in Nat /\ MaxFaults \in Nat

VARIABLES
  business,   \* each business transaction: "none", "open", "committed", "rolledback"
  created,    \* the events in the order of created_at
  published,  \* the events with published_at set
  relay,      \* where each relay is
  batch,      \* its batch
  next,       \* the index of the next event to publish
  tx,         \* its transaction: "none", "open", or "failed" at the server
  ctxDone, stop,  \* the context given to Start, and where Stop is
  faults

(* History: how often each event was handed to the broker. *)
VARIABLE delivered

write == <<business, created>>
vars == <<write, published, relay, batch, next, tx, ctxDone, stop, faults, delivered>>

Fault == faults < MaxFaults /\ faults' = faults + 1
Elements(s) == {s[i] : i \in DOMAIN s}
-----------------------------------------------------------------------------
Init ==
  /\ business = [e \in Events |-> "none"]
  /\ created = <<>>
  /\ published = {}
  /\ relay = [r \in Relays |-> "select"]
  /\ batch = [r \in Relays |-> <<>>]
  /\ next = [r \in Relays |-> 1]
  /\ tx = [r \in Relays |-> "none"]
  /\ ctxDone = FALSE
  /\ stop = [r \in Relays |-> "uncalled"]
  /\ faults = 0
  /\ delivered = [e \in Events |-> 0]

\* A business transaction begins; in it, Store inserts the event.
Store(e) ==
  /\ business[e] = "none"
  /\ business' = [business EXCEPT ![e] = "open"]
  /\ created' = Append(created, e)
  /\ UNCHANGED <<published, relay, batch, next, tx, ctxDone, stop, faults, delivered>>

\* It ends, one way or the other.
EndBusiness(e) ==
  /\ business[e] = "open"
  /\ \E end \in {"committed", "rolledback"} : business' = [business EXCEPT ![e] = end]
  /\ UNCHANGED <<created, published, relay, batch, next, tx, ctxDone, stop, faults, delivered>>
-----------------------------------------------------------------------------
(* run and relay.                                                          *)

\* Mutant: rows of open transactions are read.
UnpublishedDirty == {e \in Events : business[e] \in {"open", "committed"}} \ published

Unpublished == {e \in Events : business[e] = "committed"} \ published

\* Mutant: FOR UPDATE is missing.
NothingLocked == {}

Locked == UNION {Elements(batch[r]) : r \in {q \in Relays : tx[q] = "open"}}

\* ORDER BY created_at LIMIT batchSize FOR UPDATE SKIP LOCKED.
Fetched ==
  LET rows == SelectSeq(created, LAMBDA e : e \in Unpublished \ Locked)
  IN  SubSeq(rows, 1, IF Len(rows) < BatchSize THEN Len(rows) ELSE BatchSize)

\* case <-ticker.C: BEGIN and the SELECT.  An empty batch changes nothing.
Fetch(r) ==
  /\ relay[r] = "select" /\ ~ctxDone
  /\ Fetched # <<>>
  /\ relay' = [relay EXCEPT ![r] = "publish"]
  /\ batch' = [batch EXCEPT ![r] = Fetched]
  /\ next' = [next EXCEPT ![r] = 1]
  /\ tx' = [tx EXCEPT ![r] = "open"]
  /\ UNCHANGED <<write, published, ctxDone, stop, faults, delivered>>

\* relay returns, with its transaction at its end; run goes back to the select.
Ends(r) ==
  /\ relay' = [relay EXCEPT ![r] = "select"]
  /\ batch' = [batch EXCEPT ![r] = <<>>]
  /\ next' = [next EXCEPT ![r] = 1]
  /\ tx' = [tx EXCEPT ![r] = "none"]

Current(r) == batch[r][next[r]]

\* publisher.Publish returns nil.
Publish(r) ==
  /\ relay[r] = "publish" /\ next[r] <= Len(batch[r])
  /\ Current(r) \notin Poisoned
  /\ delivered' = [delivered EXCEPT ![Current(r)] = @ + 1]
  /\ next' = [next EXCEPT ![r] = @ + 1]
  /\ UNCHANGED <<write, published, relay, batch, tx, ctxDone, stop, faults>>

\* Mutant: a refused event is skipped and marked with the others.
PublishSkips(r) ==
  /\ relay[r] = "publish" /\ next[r] <= Len(batch[r])
  /\ next' = [next EXCEPT ![r] = @ + 1]
  /\ IF Current(r) \in Poisoned \/ ctxDone THEN UNCHANGED faults ELSE Fault
  /\ UNCHANGED <<write, published, relay, batch, tx, ctxDone, stop, delivered>>

\* Mutant: the early return leaves the transaction, and its locks, open.
PublishFailsLeaks(r) ==
  /\ relay[r] = "publish" /\ next[r] <= Len(batch[r])
  /\ IF Current(r) \in Poisoned \/ ctxDone THEN UNCHANGED faults ELSE Fault
  /\ relay' = [relay EXCEPT ![r] = "select"]
  /\ UNCHANGED <<write, published, batch, next, tx, ctxDone, stop, delivered>>

\* It returns an error, and the broker may have the event all the same: the
\* transaction is rolled back.
PublishFails(r) ==
  /\ relay[r] = "publish" /\ next[r] <= Len(batch[r])
  /\ \/ Current(r) \in Poisoned /\ UNCHANGED delivered
     \/ /\ Current(r) \notin Poisoned
        /\ \E n \in 0 .. 1 : delivered' = [delivered EXCEPT ![Current(r)] = @ + n]
  /\ IF Current(r) \in Poisoned \/ ctxDone THEN UNCHANGED faults ELSE Fault
  /\ Ends(r)
  /\ UNCHANGED <<write, published, ctxDone, stop>>

\* The rows the UPDATE marks.
Mark(r) == published \union Elements(batch[r])

\* The UPDATE and the COMMIT.
Commit(r) ==
  /\ relay[r] = "publish" /\ next[r] > Len(batch[r])
  /\ tx[r] = "open" /\ ~ctxDone
  /\ published' = Mark(r)
  /\ Ends(r)
  /\ UNCHANGED <<write, ctxDone, stop, faults, delivered>>

\* One of them fails.
CommitFails(r) ==
  /\ relay[r] = "publish" /\ next[r] > Len(batch[r])
  /\ IF tx[r] = "open" /\ ~ctxDone THEN Fault ELSE UNCHANGED faults
  /\ Ends(r)
  /\ UNCHANGED <<write, published, ctxDone, stop, delivered>>

\* The connection is lost while the relay publishes; it finds out at the UPDATE.
ConnectionLost(r) ==
  /\ tx[r] = "open" /\ Fault
  /\ tx' = [tx EXCEPT ![r] = "failed"]
  /\ UNCHANGED <<write, published, relay, batch, next, ctxDone, stop, delivered>>

\* The relay's process dies and is started again.
Crash(r) ==
  /\ relay[r] = "publish" /\ Fault
  /\ Ends(r)
  /\ UNCHANGED <<write, published, ctxDone, stop, delivered>>

\* case <-r.stop, case <-ctx.Done(); run closes done.
Exit(r) ==
  /\ relay[r] = "select" /\ (ctxDone \/ stop[r] # "uncalled")
  /\ relay' = [relay EXCEPT ![r] = "exited"]
  /\ UNCHANGED <<write, published, batch, next, tx, ctxDone, stop, faults, delivered>>

Cancel ==
  /\ ~ctxDone
  /\ ctxDone' = TRUE
  /\ UNCHANGED <<write, published, relay, batch, next, tx, stop, faults, delivered>>

CallStop(r) ==
  /\ stop[r] = "uncalled"
  /\ stop' = [stop EXCEPT ![r] = "waiting"]
  /\ UNCHANGED <<write, published, relay, batch, next, tx, ctxDone, faults, delivered>>

\* <-r.done
StopReturns(r) ==
  /\ stop[r] = "waiting" /\ relay[r] = "exited"
  /\ stop' = [stop EXCEPT ![r] = "returned"]
  /\ UNCHANGED <<write, published, relay, batch, next, tx, ctxDone, faults, delivered>>

Terminated ==
  /\ \A r \in Relays : stop[r] = "returned"
  /\ UNCHANGED vars
-----------------------------------------------------------------------------
RelayStep(r) ==
  \/ Fetch(r) \/ Publish(r) \/ PublishFails(r) \/ Commit(r) \/ CommitFails(r) \/ Exit(r)

Next ==
  \/ \E e \in Events : Store(e) \/ EndBusiness(e)
  \/ \E r \in Relays : RelayStep(r) \/ ConnectionLost(r) \/ Crash(r) \/ CallStop(r) \/ StopReturns(r)
  \/ Cancel \/ Terminated

Spec == Init /\ [][Next]_vars

\* Every relay keeps running; its select, which chooses at random, does not pass
\* over stop forever.
FairSpec ==
  /\ Spec
  /\ \A r \in Relays : WF_vars(RelayStep(r)) /\ SF_vars(Exit(r)) /\ WF_vars(StopReturns(r))
-----------------------------------------------------------------------------
\* The types; a relay's batch is never longer than batchSize, and a relay is in
\* a transaction exactly while it works on one.
TypeOK ==
  /\ business \in [Events -> {"none", "open", "committed", "rolledback"}]
  /\ created \in Seq(Events)
  /\ published \subseteq Events
  /\ relay \in [Relays -> {"select", "publish", "exited"}]
  /\ \A r \in Relays : Elements(batch[r]) \subseteq Events /\ Len(batch[r]) <= BatchSize
  /\ \A r \in Relays : next[r] \in 1 .. Len(batch[r]) + 1
  /\ tx \in [Relays -> {"none", "open", "failed"}]
  /\ \A r \in Relays : tx[r] = "none" <=> relay[r] # "publish"
  /\ ctxDone \in BOOLEAN
  /\ stop \in [Relays -> {"uncalled", "waiting", "returned"}]
  /\ faults \in 0 .. MaxFaults
  /\ delivered \in [Events -> Nat]

\* Events follow their business data: what the broker gets was committed, never
\* rolled back or still open.
OnlyCommitted == \A e \in Events : delivered[e] > 0 => business[e] = "committed"

\* At least once: no event is marked published that the broker has not got, in
\* whatever order publishes, failures and the relays' transactions end.
MarkedIsDelivered == \A e \in published : delivered[e] > 0

\* Without a failure anywhere, and with several relays, it is exactly once.
OnceWithoutFaults ==
  faults = 0 /\ ~ctxDone /\ Poisoned = {} => \A e \in Events : delivered[e] <= 1

\* A committed event is delivered, if no event is refused for ever, faults are
\* finite in number and some relay keeps running.
Running == ~ctxDone /\ \E r \in Relays : stop[r] = "uncalled"
Delivered ==
  \A e \in Events : business[e] = "committed" ~> (delivered[e] > 0 \/ ~Running)

\* Stop returns: it waits for the relay's goroutine, which finishes its batch and
\* then looks at stop, though the ticker may be ready as well.
StopEnds == \A r \in Relays : stop[r] = "waiting" ~> stop[r] = "returned"

\* The relays deliver what was committed, or are stopped, and Stop returns.
RelaysServe == Delivered /\ StopEnds
=============================================================================
