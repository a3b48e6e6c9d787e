------------------------------- MODULE HashMap -------------------------------
(***************************************************************************)
(* struct map of src/phonemizer.c: an open-addressed hash table with       *)
(* tombstones and linear probing.  A table is a record of its slots, its   *)
(* count of live entries and its capacity; every operation is a function   *)
(* of the table it is given.                                               *)
(*                                                                         *)
(* A probe walks the slots from the key's home.  It stops at a slot that   *)
(* is EMPTY or that holds the key; tombstones do not stop it, and they do  *)
(* not count in the load that makes the table grow.  In a table without an *)
(* EMPTY slot a probe for an absent key never ends: ProbeEnds tells.       *)
(***************************************************************************)
EXTENDS Integers, FiniteSets

CONSTANTS
  Keys,           \* the words that may be looked up
  Values,         \* what a word may be mapped to
  Home,           \* map_hash(): the hash of each key
  FirstCapacity,  \* the capacity of the first allocation (16 in the code)
  NULL            \* what map_get() returns for an absent key

ASSUME HomeAssumption == Home \in [Keys -> Nat]
(* The mask of the code is a remainder only for a power of two.            *)
ASSUME CapacityAssumption ==
  /\ FirstCapacity \in Nat /\ FirstCapacity > 1
  /\ \E n \in 1 .. FirstCapacity : FirstCapacity = 2 ^ n
ASSUME NullAssumption == NULL \notin Keys \cup Values

EMPTY == [state |-> "empty", key |-> NULL, value |-> NULL]
TOMBSTONE == [state |-> "tombstone", key |-> NULL, value |-> NULL]
Live(k, v) == [state |-> "live", key |-> k, value |-> v]

Slots == {EMPTY, TOMBSTONE} \cup {Live(k, v) : k \in Keys, v \in Values}

IsTable(t) ==
  \E c \in Nat :
    t \in [slots : [0 .. c - 1 -> Slots], count : Int, capacity : {c}]

(* calloc() in map_grow(); with capacity 0, map_init().                    *)
NewTable(capacity) ==
  [slots |-> [i \in 0 .. capacity - 1 |-> EMPTY],
   count |-> 0, capacity |-> capacity]

(* The table with one slot written and its count set.                      *)
Store(t, s, slot, count) ==
  [slots |-> [t.slots EXCEPT ![s] = slot],
   count |-> count, capacity |-> t.capacity]

(* The slot a probe for k looks at after i others.                         *)
Probe(t, k, i) == (Home[k] + i) % t.capacity

Holds(t, k, i) == /\ t.slots[Probe(t, k, i)].state = "live"
                  /\ t.slots[Probe(t, k, i)].key = k
IsEmpty(t, k, i) == t.slots[Probe(t, k, i)] = EMPTY
Stops(t, k, i) == IsEmpty(t, k, i) \/ Holds(t, k, i)

(* While the slots repeat after one lap, a probe that did not stop by then *)
(* never does.                                                             *)
ProbeEnds(t, k) == \E i \in 0 .. t.capacity - 1 : Stops(t, k, i)

(* Where the probe for k stops, counted from its home.                     *)
Stop(t, k) ==
  CHOOSE i \in 0 .. t.capacity - 1 :
    Stops(t, k, i) /\ \A j \in 0 .. i - 1 : ~Stops(t, k, j)

Found(t, k) == t.capacity > 0 /\ Holds(t, k, Stop(t, k))

(* map_get()                                                               *)
Get(t, k) == IF Found(t, k) THEN t.slots[Probe(t, k, Stop(t, k))].value
             ELSE NULL

(* The first tombstone the probe passed, or the slot it stopped at.        *)
FreeAt(t, k) ==
  LET passed == {j \in 0 .. Stop(t, k) - 1 :
                   t.slots[Probe(t, k, j)] = TOMBSTONE}
  IN  IF passed = {} THEN Stop(t, k)
      ELSE CHOOSE j \in passed : \A i \in passed : j <= i

(* Mutant: the first tombstone is taken before the key is searched for.    *)
PutHereEarly(t, k, v) ==
  IF \E j \in 0 .. Stop(t, k) - 1 : t.slots[Probe(t, k, j)] = TOMBSTONE
  THEN Store(t, Probe(t, k, FreeAt(t, k)), Live(k, v), t.count + 1)
  ELSE IF Found(t, k)
       THEN Store(t, Probe(t, k, Stop(t, k)), Live(k, v), t.count)
       ELSE Store(t, Probe(t, k, Stop(t, k)), Live(k, v), t.count + 1)

(* The part of map_put() that follows the growth: a present key keeps its  *)
(* slot and loses its old value, an absent one takes the first free slot.  *)
PutHere(t, k, v) ==
  IF Found(t, k)
  THEN Store(t, Probe(t, k, Stop(t, k)), Live(k, v), t.count)
  ELSE Store(t, Probe(t, k, FreeAt(t, k)), Live(k, v), t.count + 1)

(* map_grow(): the live slots, in their order, move to the first empty     *)
(* slot from their home in a new table; tombstones stay behind.            *)
FirstEmpty(t, k) ==
  CHOOSE i \in 0 .. t.capacity - 1 :
    IsEmpty(t, k, i) /\ \A j \in 0 .. i - 1 : ~IsEmpty(t, k, j)

MoveInto(t, slot) ==
  IF slot.state = "live"
  THEN Store(t, Probe(t, slot.key, FirstEmpty(t, slot.key)), slot, t.count)
  ELSE t

Rehash(t, capacity) ==
  LET Moved[n \in 0 .. t.capacity] ==
        IF n = 0 THEN [NewTable(capacity) EXCEPT !.count = t.count]
        ELSE MoveInto(Moved[n - 1], t.slots[n - 1])
  IN  Moved[t.capacity]

(* Mutant: the load is that of the entries already there.                  *)
RoomyLate(t) ==
  IF t.capacity = 0 THEN Rehash(t, FirstCapacity)
  ELSE IF t.count * 4 > t.capacity * 3 THEN Rehash(t, t.capacity * 2) ELSE t

(* The table map_put() probes: grown when one more live entry would fill   *)
(* more than three quarters.                                               *)
Roomy(t) ==
  IF t.capacity = 0 THEN Rehash(t, FirstCapacity)
  ELSE IF (t.count + 1) * 4 > t.capacity * 3 THEN Rehash(t, t.capacity * 2)
       ELSE t

Put(t, k, v) == PutHere(Roomy(t), k, v)
PutEnds(t, k) == ProbeEnds(Roomy(t), k)
GetEnds(t, k) == t.capacity = 0 \/ ProbeEnds(t, k)

(* map_remove(): what is freed leaves a tombstone.                         *)
Delete(t, k) ==
  IF Found(t, k)
  THEN Store(t, Probe(t, k, Stop(t, k)), TOMBSTONE, t.count - 1)
  ELSE t

-----------------------------------------------------------------------------
LiveSlots(t) == {i \in 0 .. t.capacity - 1 : t.slots[i].state = "live"}

(* Nothing stops a probe for the key of slot s before s itself.            *)
Reached(t, s) ==
  LET k == t.slots[s].key
  IN  \E i \in 0 .. t.capacity - 1 :
        s = Probe(t, k, i) /\ \A j \in 0 .. i - 1 : ~Stops(t, k, j)

(* Every live entry is found, so that no key is live twice.                *)
ChainsWhole(t) == \A s \in LiveSlots(t) : Reached(t, s)

(* The count is what the load is computed from, and the load keeps a       *)
(* quarter of the slots for empty ones and tombstones.                     *)
LoadBounded(t) == /\ t.count = Cardinality(LiveSlots(t))
                  /\ t.count * 4 <= t.capacity * 3

=============================================================================
