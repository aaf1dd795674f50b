------------------------------- MODULE Cache --------------------------------
(***************************************************************************)
(* pkg/cache.  Every method holds the mutex, so it is one step; the map of *)
(* elements and the list of entries are separate, as in the code.          *)
(***************************************************************************)
EXTENDS Integers, Sequences, SequencesExt, FiniteSets

CONSTANTS
  Keys, Values,
  Capacities,   \* the capacities given to New
  TTLs,         \* the values given to WithTTL; 0 is none
  MaxTime       \* bound on the clock

VARIABLES
  conf,         \* [capacity, ttl]; the capacity is 0 before New
  list,         \* the list, its front first: [key, value, expiresAt]
  items,        \* the keys of the map
  clock         \* time.Now()

VARIABLES       \* history
  last,         \* last[k]: [value, at] of the last Set of k, or a value of Gone
  others        \* others[k]: the keys used since k was last used

cacheVars == <<conf, list, items, clock, last, others>>

Gone == [value |-> 0, at |-> -1]

TypeOK ==
  /\ conf \in [capacity : Capacities \union {0}, ttl : TTLs]
  /\ list \in Seq([key : Keys, value : Values, expiresAt : 0 .. 2 * MaxTime])
  /\ items \subseteq Keys /\ clock \in 0 .. MaxTime
  /\ last \in [Keys -> [value : Values \union {0}, at : -1 .. MaxTime]]
  /\ others \in [Keys -> SUBSET Keys]

Init ==
  /\ conf = [capacity |-> 0, ttl |-> 0]
  /\ list = <<>> /\ items = {} /\ clock = 0
  /\ last = [k \in Keys |-> Gone] /\ others = [k \in Keys |-> {}]

New(capacity, ttl) ==
  /\ conf.capacity = 0
  /\ conf' = [capacity |-> capacity, ttl |-> ttl]
  /\ UNCHANGED <<list, items, clock, last, others>>

Elapse ==
  /\ conf.ttl > 0 /\ clock < MaxTime
  /\ clock' = clock + 1
  /\ UNCHANGED <<conf, list, items, last, others>>

-----------------------------------------------------------------------------
newExpiry == IF conf.ttl = 0 THEN 0 ELSE clock + conf.ttl
isExpired(e) == e.expiresAt # 0 /\ clock > e.expiresAt
removeElement(s, key) == SelectSeq(s, LAMBDA e : e.key # key)
Element(key) == CHOOSE e \in ToSet(list) : e.key = key
evictOldest == removeElement(list, Last(list).key)

Used(key) ==
  others' = [k \in Keys |-> IF k = key THEN {} ELSE others[k] \union {key}]

Get(key) ==
  /\ conf.capacity > 0 /\ key \in items
  /\ LET e == Element(key) IN
     IF isExpired(e)
     THEN /\ list' = removeElement(list, key) /\ items' = items \ {key}
          /\ UNCHANGED others
     ELSE /\ list' = <<e>> \o removeElement(list, key)
          /\ Used(key) /\ UNCHANGED items
  /\ UNCHANGED <<conf, clock, last>>

(* Mutant: an update leaves the entry where it is. *)
SetInPlace(key, value) ==
  /\ conf.capacity > 0
  /\ LET new == [key |-> key, value |-> value, expiresAt |-> newExpiry] IN
     IF key \in items
     THEN /\ list' = [k \in DOMAIN list |-> IF list[k].key = key THEN new ELSE list[k]]
          /\ UNCHANGED items
     ELSE LET kept == IF Len(list) >= conf.capacity THEN evictOldest ELSE list IN
          /\ list' = <<new>> \o kept
          /\ items' = {kept[k].key : k \in DOMAIN kept} \union {key}
  /\ last' = [last EXCEPT ![key] = [value |-> value, at |-> clock]]
  /\ Used(key)
  /\ UNCHANGED <<conf, clock>>

(* An entry that is there is moved to the front and gets a new expiry;     *)
(* else the last of a full list is evicted.                                *)
Set(key, value) ==
  /\ conf.capacity > 0
  /\ LET new == [key |-> key, value |-> value, expiresAt |-> newExpiry] IN
     IF key \in items
     THEN list' = <<new>> \o removeElement(list, key) /\ UNCHANGED items
     ELSE IF Len(list) >= conf.capacity
     THEN /\ list' = <<new>> \o evictOldest
          /\ items' = (items \ {Last(list).key}) \union {key}
     ELSE /\ list' = <<new>> \o list /\ items' = items \union {key}
  /\ last' = [last EXCEPT ![key] = [value |-> value, at |-> clock]]
  /\ Used(key)
  /\ UNCHANGED <<conf, clock>>

Delete(key) ==
  /\ key \in items
  /\ list' = removeElement(list, key) /\ items' = items \ {key}
  /\ last' = [last EXCEPT ![key] = Gone]
  /\ UNCHANGED <<conf, clock, others>>

Clear ==
  /\ conf.capacity > 0
  /\ list' = <<>> /\ items' = {} /\ last' = [k \in Keys |-> Gone]
  /\ UNCHANGED <<conf, clock, others>>

(* The janitor. *)
deleteExpired ==
  /\ conf.ttl # 0
  /\ list' = SelectSeq(list, LAMBDA e : ~isExpired(e))
  /\ items' = {k \in items : ~isExpired(Element(k))}
  /\ UNCHANGED <<conf, clock, last, others>>

Next ==
  \/ \E capacity \in Capacities, ttl \in TTLs : New(capacity, ttl)
  \/ \E k \in Keys : Get(k) \/ Delete(k) \/ \E v \in Values : Set(k, v)
  \/ Elapse \/ Clear \/ deleteExpired

-----------------------------------------------------------------------------
Live(key) == last[key] # Gone /\ (conf.ttl > 0 => clock <= last[key].at + conf.ttl)

(* What Get would find is what was last Set, not deleted, cleared or       *)
(* expired since.  It misses such a value only when the key was evicted,   *)
(* and that takes as many other keys used since it was last used as the    *)
(* cache has places.  Map and list hold the same keys, each once, and      *)
(* never more than the capacity.                                           *)
CacheFaithful ==
  /\ conf.capacity > 0 => Len(list) <= conf.capacity
  /\ Cardinality(items) = Len(list) /\ items = {list[k].key : k \in DOMAIN list}
  /\ \A key \in items :
       /\ Element(key).value = last[key].value
       /\ ~isExpired(Element(key)) <=> Live(key)
  /\ \A key \in Keys \ items :
       Live(key) => Cardinality(others[key]) >= conf.capacity
=============================================================================
