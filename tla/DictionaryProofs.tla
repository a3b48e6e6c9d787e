-------------------------- MODULE DictionaryProofs --------------------------
(***************************************************************************)
(* First what the operations on a hash table do, for any keys, hashes and  *)
(* capacities: the chains stay whole, so that every binding is found, and  *)
(* each operation changes the binding of its own key only.  Then what      *)
(* load_dictionary() leaves behind, for files of any lines: the table is   *)
(* whole and counted, it hangs only when tombstones fill it, and every map *)
(* holds what the lines say.                                               *)
(***************************************************************************)
EXTENDS Dictionary, Numbers, FiniteSetTheorems

-----------------------------------------------------------------------------
(* The hash table.                                                         *)

(* k is bound to v.                                                        *)
Binds(t, k, v) ==
  \E s \in LiveSlots(t) : t.slots[s].key = k /\ t.slots[s].value = v

Sound(t) == IsTable(t) /\ ChainsWhole(t)

(* A slot is empty, a tombstone, or live with a key and a value.           *)
LEMMA SlotCases ==
  ASSUME NEW t, IsTable(t), NEW s \in 0 .. t.capacity - 1
  PROVE  /\ \/ t.slots[s] = EMPTY
            \/ t.slots[s] = TOMBSTONE
            \/ \E k \in Keys, v \in Values : t.slots[s] = Live(k, v)
         /\ t.slots[s].state = "live" =>
              /\ t.slots[s].key \in Keys /\ t.slots[s].value \in Values
              /\ t.slots[s] = Live(t.slots[s].key, t.slots[s].value)
         /\ t.slots[s].state \in {"empty", "tombstone", "live"}
         /\ t.slots[s].state = "empty" <=> t.slots[s] = EMPTY
         /\ t.slots[s].state = "tombstone" <=> t.slots[s] = TOMBSTONE
<1>1. t.slots[s] \in Slots
  BY DEF IsTable
<1> QED
  BY <1>1 DEF Slots, EMPTY, TOMBSTONE, Live

(* A probe stays inside the table.                                         *)
LEMMA ProbeInside ==
  ASSUME NEW t, IsTable(t), t.capacity > 0, NEW k \in Keys, NEW i \in Nat
  PROVE  Probe(t, k, i) \in 0 .. t.capacity - 1
<1>1. t.capacity \in Nat /\ Home[k] \in Nat
  BY HomeAssumption DEF IsTable
<1> QED
  BY <1>1 DEF Probe

(* A probe that ends has a first slot to stop at.                          *)
LEMMA StopsFirst ==
  ASSUME NEW t, IsTable(t), NEW k \in Keys, ProbeEnds(t, k)
  PROVE  /\ Stop(t, k) \in 0 .. t.capacity - 1
         /\ Stops(t, k, Stop(t, k))
         /\ \A j \in 0 .. Stop(t, k) - 1 : ~Stops(t, k, j)
<1> DEFINE S == {i \in 0 .. t.capacity - 1 : Stops(t, k, i)}
<1>2. t.capacity \in Nat
  BY DEF IsTable
<1>8. S \subseteq Nat /\ S # {}
  BY <1>2 DEF ProbeEnds
<1> HIDE DEF S
<1>9. \E n \in S : \A m \in S : n <= m
  BY <1>8, LeastNumber
<1> USE DEF S
<1>1. PICK n \in S : \A m \in S : n <= m
  BY <1>9
<1>3. \A j \in 0 .. n - 1 : ~Stops(t, k, j)
  BY <1>1, <1>2
<1>4. /\ n \in 0 .. t.capacity - 1
      /\ Stops(t, k, n) /\ \A j \in 0 .. n - 1 : ~Stops(t, k, j)
  BY <1>1, <1>3
<1> QED
  BY <1>4 DEF Stop

(* The first slot where it stops is the only one.                          *)
LEMMA StopsThere ==
  ASSUME NEW t, IsTable(t), NEW k \in Keys, NEW i \in 0 .. t.capacity - 1,
         Stops(t, k, i), \A j \in 0 .. i - 1 : ~Stops(t, k, j)
  PROVE  ProbeEnds(t, k) /\ Stop(t, k) = i
<1>1. ProbeEnds(t, k)
  BY DEF ProbeEnds
<1>2. /\ Stop(t, k) \in 0 .. t.capacity - 1
      /\ Stops(t, k, Stop(t, k))
      /\ \A j \in 0 .. Stop(t, k) - 1 : ~Stops(t, k, j)
  BY <1>1, StopsFirst
<1>3. t.capacity \in Nat
  BY DEF IsTable
<1>4. ~ (Stop(t, k) < i) /\ ~ (i < Stop(t, k))
  BY <1>2, <1>3
<1> QED
  BY <1>1, <1>2, <1>3, <1>4

(* In a table with whole chains a probe reaches every binding.             *)
LEMMA BindingFound ==
  ASSUME NEW t, Sound(t), NEW k \in Keys, NEW s \in LiveSlots(t),
         t.slots[s].key = k
  PROVE  /\ ProbeEnds(t, k) /\ Found(t, k)
         /\ Probe(t, k, Stop(t, k)) = s
         /\ Get(t, k) = t.slots[s].value
<1>1. PICK i \in 0 .. t.capacity - 1 :
        s = Probe(t, k, i) /\ \A j \in 0 .. i - 1 : ~Stops(t, k, j)
  BY DEF Sound, ChainsWhole, Reached
<1>2. Holds(t, k, i)
  BY <1>1 DEF Holds, LiveSlots
<1>3. ProbeEnds(t, k) /\ Stop(t, k) = i
  BY <1>1, <1>2, StopsThere DEF Stops, Sound
<1>4. t.capacity > 0
  BY DEF LiveSlots, Sound, IsTable
<1> QED
  BY <1>1, <1>2, <1>3, <1>4 DEF Found, Get

(* A probe that ends without finding its key tells that nobody has it.     *)
LEMMA NotFoundAbsent ==
  ASSUME NEW t, Sound(t), NEW k \in Keys, ~Found(t, k)
  PROVE  \A s \in LiveSlots(t) : t.slots[s].key # k
BY BindingFound

(* map_get() answers by the bindings: a table binds a key once at most.    *)
THEOREM GetAnswers ==
  ASSUME NEW t, Sound(t), NEW k \in Keys, GetEnds(t, k)
  PROVE  /\ \A v \in Values : Binds(t, k, v) <=> Get(t, k) = v
         /\ Get(t, k) = NULL <=> \A v \in Values : ~Binds(t, k, v)
<1>1. CASE Found(t, k)
  <2>1. t.capacity > 0 /\ ProbeEnds(t, k)
    BY <1>1 DEF Found, GetEnds, Sound, IsTable
  <2> DEFINE s == Probe(t, k, Stop(t, k))
  <2>2. s \in 0 .. t.capacity - 1
    BY <2>1, StopsFirst, ProbeInside DEF Sound
  <2>3. s \in LiveSlots(t) /\ t.slots[s].key = k
    BY <1>1, <2>2 DEF Found, Holds, LiveSlots
  <2>4. Get(t, k) = t.slots[s].value
    BY <1>1 DEF Get
  <2>5. t.slots[s].value \in Values
    BY <2>2, <2>3, SlotCases DEF Sound, LiveSlots
  <2>6. \A r \in LiveSlots(t) : t.slots[r].key = k => r = s
    BY BindingFound
  <2>7. NULL \notin Values
    BY NullAssumption
  <2> QED
    BY <2>3, <2>4, <2>5, <2>6, <2>7 DEF Binds
<1>2. CASE ~Found(t, k)
  <2>1. \A v \in Values : ~Binds(t, k, v)
    BY <1>2, NotFoundAbsent DEF Binds
  <2>2. Get(t, k) = NULL /\ NULL \notin Values
    BY <1>2, NullAssumption DEF Get
  <2> QED
    BY <2>1, <2>2
<1> QED
  BY <1>1, <1>2

(* Writing one slot leaves a table.                                        *)
LEMMA StoreTable ==
  ASSUME NEW t, IsTable(t), NEW s \in 0 .. t.capacity - 1, NEW x \in Slots,
         NEW n \in Int
  PROVE  /\ IsTable(Store(t, s, x, n))
         /\ Store(t, s, x, n).capacity = t.capacity
         /\ Store(t, s, x, n).slots = [t.slots EXCEPT ![s] = x]
         /\ Store(t, s, x, n).slots[s] = x
         /\ \A r \in 0 .. t.capacity - 1 :
              r # s => Store(t, s, x, n).slots[r] = t.slots[r]
<1>1. PICK c \in Nat :
        t \in [slots : [0 .. c - 1 -> Slots], count : Int, capacity : {c}]
  BY DEF IsTable
<1>2. Store(t, s, x, n) \in
        [slots : [0 .. c - 1 -> Slots], count : Int, capacity : {c}]
  BY <1>1 DEF Store
<1>3. IsTable(Store(t, s, x, n))
  BY <1>2 DEF IsTable
<1> QED
  BY <1>1, <1>3 DEF Store

(* Whole chains survive a change of one slot that no chain of another live *)
(* slot passes through into something that stops it.                       *)
LEMMA ChainsSurvive ==
  ASSUME NEW t, NEW u, Sound(t), IsTable(u), u.capacity = t.capacity,
         NEW s \in 0 .. t.capacity - 1,
         \A q \in 0 .. t.capacity - 1 : q # s => u.slots[q] = t.slots[q],
         NEW r \in LiveSlots(u), r # s,
         \/ u.slots[s].state = "tombstone"
         \/ /\ u.slots[s].state = "live"
            /\ u.slots[s].key # t.slots[r].key
  PROVE  Reached(u, r)
<1>1. r \in LiveSlots(t) /\ u.slots[r] = t.slots[r]
  BY DEF LiveSlots, Sound, IsTable
<1> DEFINE k == t.slots[r].key
<1>2. k \in Keys
  BY <1>1, SlotCases DEF LiveSlots, Sound
<1>3. PICK i \in 0 .. t.capacity - 1 :
        r = Probe(t, k, i) /\ \A j \in 0 .. i - 1 : ~Stops(t, k, j)
  BY <1>1 DEF Sound, ChainsWhole, Reached
<1>4. t.capacity \in Nat /\ t.capacity > 0
  BY DEF Sound, IsTable
<1>5. ASSUME NEW j \in 0 .. i - 1 PROVE ~Stops(u, k, j)
  <2>1. Probe(u, k, j) = Probe(t, k, j) /\ Probe(t, k, j) \in 0 .. t.capacity - 1
    BY <1>2, <1>4, ProbeInside DEF Probe, Sound
  <2>2. CASE Probe(t, k, j) # s
    <3>1. u.slots[Probe(t, k, j)] = t.slots[Probe(t, k, j)]
      BY <2>1, <2>2 DEF Sound, IsTable
    <3> QED
      BY <1>3, <2>1, <3>1 DEF Stops, Holds, IsEmpty
  <2>3. CASE Probe(t, k, j) = s
    BY <2>1, <2>3 DEF Stops, Holds, IsEmpty, EMPTY
  <2> QED
    BY <2>2, <2>3
<1>6. Probe(u, k, i) = Probe(t, k, i)
  BY DEF Probe
<1> QED
  BY <1>1, <1>3, <1>5, <1>6 DEF Reached

(* Where a probe that found its key stopped.                               *)
LEMMA FoundSlot ==
  ASSUME NEW t, Sound(t), NEW k \in Keys, GetEnds(t, k), Found(t, k)
  PROVE  LET s == Probe(t, k, Stop(t, k))
         IN  /\ s \in LiveSlots(t) /\ t.slots[s].key = k
             /\ \A r \in LiveSlots(t) : t.slots[r].key = k => r = s
<1>1. t.capacity > 0 /\ ProbeEnds(t, k)
  BY DEF Found, GetEnds, Sound, IsTable
<1>2. Probe(t, k, Stop(t, k)) \in 0 .. t.capacity - 1
  BY <1>1, StopsFirst, ProbeInside DEF Sound
<1>3. \A r \in LiveSlots(t) :
        t.slots[r].key = k => r = Probe(t, k, Stop(t, k))
  BY BindingFound
<1> QED
  BY <1>2, <1>3 DEF Found, Holds, LiveSlots

(* map_remove() takes one binding away, its own, and breaks no chain.      *)
THEOREM DeleteSound ==
  ASSUME NEW t, Sound(t), NEW k \in Keys, GetEnds(t, k)
  PROVE  /\ Sound(Delete(t, k))
         /\ \A k2 \in Keys, v2 \in Values :
              Binds(Delete(t, k), k2, v2) <=> k2 # k /\ Binds(t, k2, v2)
<1>1. CASE ~Found(t, k)
  BY <1>1, NotFoundAbsent DEF Delete, Binds
<1>2. CASE Found(t, k)
  <2> DEFINE s == Probe(t, k, Stop(t, k))
             u == Delete(t, k)
  <2>1. /\ s \in LiveSlots(t) /\ t.slots[s].key = k
        /\ \A r \in LiveSlots(t) : t.slots[r].key = k => r = s
    BY <1>2, FoundSlot
  <2>2. s \in 0 .. t.capacity - 1
    BY <2>1 DEF LiveSlots
  <2>3. u = Store(t, s, TOMBSTONE, t.count - 1)
    BY <1>2 DEF Delete
  <2>4. TOMBSTONE \in Slots /\ t.count - 1 \in Int /\ IsTable(t)
    BY DEF Slots, Sound, IsTable
  <2>5. /\ IsTable(u) /\ u.capacity = t.capacity
        /\ u.slots = [t.slots EXCEPT ![s] = TOMBSTONE]
        /\ u.slots[s] = TOMBSTONE
        /\ \A r \in 0 .. t.capacity - 1 : r # s => u.slots[r] = t.slots[r]
    <3> HIDE DEF s
    <3> QED
      BY <2>2, <2>3, <2>4, StoreTable
  <2>6. u.slots[s].state = "tombstone"
    BY <2>5 DEF TOMBSTONE
  <2>7. s \notin LiveSlots(u)
    BY <2>6 DEF LiveSlots
  <2>8. ChainsWhole(u)
    <3> HIDE DEF u, s
    <3> SUFFICES ASSUME NEW r \in LiveSlots(u) PROVE Reached(u, r)
      BY DEF ChainsWhole
    <3>1. r # s
      BY <2>7
    <3>2. \A q \in 0 .. t.capacity - 1 : q # s => u.slots[q] = t.slots[q]
      BY <2>5
    <3>3. IsTable(u) /\ u.capacity = t.capacity
      BY <2>5
    <3> QED
      BY <2>2, <2>6, <3>1, <3>2, <3>3, ChainsSurvive, ZenonT(60)
  <2>10. \A k2 \in Keys, v2 \in Values :
           Binds(u, k2, v2) <=> k2 # k /\ Binds(t, k2, v2)
    <3> HIDE DEF u, s
    <3> QED
      BY <2>1, <2>5, <2>7 DEF Binds, LiveSlots
  <2> QED
    BY <2>5, <2>8, <2>10 DEF Sound
<1> QED
  BY <1>1, <1>2

(* The slot map_put() takes for an absent key: it stops no other chain,    *)
(* and no slot before it stops the key's own.                              *)
LEMMA FreeSlot ==
  ASSUME NEW t, Sound(t), NEW k \in Keys, ProbeEnds(t, k), ~Found(t, k)
  PROVE  /\ FreeAt(t, k) \in 0 .. Stop(t, k)
         /\ FreeAt(t, k) \in 0 .. t.capacity - 1
         /\ Probe(t, k, FreeAt(t, k)) \in 0 .. t.capacity - 1
         /\ t.slots[Probe(t, k, FreeAt(t, k))] \in {EMPTY, TOMBSTONE}
         /\ \A j \in 0 .. FreeAt(t, k) - 1 :
              /\ ~Stops(t, k, j)
              /\ Probe(t, k, j) # Probe(t, k, FreeAt(t, k))
<1>1. /\ Stop(t, k) \in 0 .. t.capacity - 1
      /\ Stops(t, k, Stop(t, k))
      /\ \A j \in 0 .. Stop(t, k) - 1 : ~Stops(t, k, j)
  BY StopsFirst DEF Sound
<1>2. t.capacity \in Nat /\ t.capacity > 0
  BY <1>1 DEF Sound, IsTable
<1>3. \A j \in Nat : Probe(t, k, j) \in 0 .. t.capacity - 1
  BY <1>2, ProbeInside DEF Sound
<1>4. IsEmpty(t, k, Stop(t, k))
  BY <1>1, <1>2 DEF Found, Stops
<1> DEFINE passed == {j \in 0 .. Stop(t, k) - 1 :
                        t.slots[Probe(t, k, j)] = TOMBSTONE}
<1>5. CASE passed = {}
  <2>1. FreeAt(t, k) = Stop(t, k)
    BY <1>5 DEF FreeAt
  <2> QED
    BY <1>1, <1>2, <1>3, <1>4, <2>1 DEF IsEmpty, Stops
<1>6. CASE passed # {}
  <2>1. passed \subseteq Nat
    BY <1>1
  <2> HIDE DEF passed
  <2>2. \E j \in passed : \A i \in passed : j <= i
    BY <1>6, <2>1, LeastNumber
  <2> USE DEF passed
  <2>3. FreeAt(t, k) \in passed /\ \A i \in passed : FreeAt(t, k) <= i
    BY <1>6, <2>2 DEF FreeAt
  <2>4. \A j \in 0 .. FreeAt(t, k) - 1 : j \in 0 .. Stop(t, k) - 1
    BY <1>1, <2>3
  <2>5. \A j \in 0 .. FreeAt(t, k) - 1 : t.slots[Probe(t, k, j)] # TOMBSTONE
    BY <1>1, <2>3, <2>4
  <2> QED
    BY <1>1, <1>2, <1>3, <2>3, <2>4, <2>5
<1> QED
  BY <1>5, <1>6

(* The slot s, met at the i-th step of the probe for k, may be given to k. *)
Fits(t, k, i, s) ==
  /\ s = Probe(t, k, i)
  /\ \A j \in 0 .. i - 1 : ~Stops(t, k, j) /\ Probe(t, k, j) # s
  /\ \A r \in LiveSlots(t) : t.slots[r].key = k <=> r = s

(* The table u is t with k bound to v.                                     *)
Bound(u, t, k, v) ==
  /\ Sound(u) /\ u.capacity = t.capacity
  /\ \A k2 \in Keys, v2 \in Values :
       Binds(u, k2, v2) <=> \/ k2 = k /\ v2 = v
                            \/ k2 # k /\ Binds(t, k2, v2)

(* Writing k into a slot that the probe for k reaches, while no other slot *)
(* holds k, breaks no chain and changes the binding of k only.             *)
LEMMA WriteLive ==
  ASSUME NEW t, Sound(t), NEW k \in Keys, NEW v \in Values, NEW n \in Int,
         NEW i \in 0 .. t.capacity - 1, NEW s \in 0 .. t.capacity - 1,
         Fits(t, k, i, s),
         NEW u, u = Store(t, s, Live(k, v), n)
  PROVE  Bound(u, t, k, v)
<1> USE DEF Fits
<1>1. Live(k, v) \in Slots /\ IsTable(t)
  BY DEF Slots, Sound
<1>2. /\ IsTable(u) /\ u.capacity = t.capacity
      /\ u.slots[s] = Live(k, v)
      /\ \A q \in 0 .. t.capacity - 1 : q # s => u.slots[q] = t.slots[q]
  <2>1. IsTable(u)
    BY <1>1, StoreTable
  <2>2. t.slots \in [0 .. t.capacity - 1 -> Slots]
    BY <1>1 DEF IsTable
  <2>3. u.capacity = t.capacity /\ u.slots = [t.slots EXCEPT ![s] = Live(k, v)]
    BY DEF Store
  <2> QED
    BY <2>1, <2>2, <2>3
<1>3. u.slots[s].state = "live" /\ u.slots[s].key = k /\ u.slots[s].value = v
  BY <1>2 DEF Live
<1>4. ASSUME NEW r \in LiveSlots(u), r # s PROVE Reached(u, r)
  <2>1. r \in LiveSlots(t) /\ t.slots[r].key # k
    BY <1>2, <1>4 DEF LiveSlots
  <2>2. \A q \in 0 .. t.capacity - 1 : q # s => u.slots[q] = t.slots[q]
    BY <1>2
  <2>3. IsTable(u) /\ u.capacity = t.capacity
    BY <1>2
  <2> QED
    BY <1>3, <1>4, <2>1, <2>2, <2>3, ChainsSurvive, ZenonT(60)
<1>5. Reached(u, s)
  <2>1. t.capacity \in Nat /\ t.capacity > 0
    BY DEF Sound, IsTable
  <2>2. \A j \in Nat : /\ Probe(u, k, j) = Probe(t, k, j)
                       /\ Probe(t, k, j) \in 0 .. t.capacity - 1
    BY <1>1, <1>2, <2>1, ProbeInside DEF Probe
  <2>3. ASSUME NEW j \in 0 .. i - 1 PROVE ~Stops(u, k, j)
    <3>1. u.slots[Probe(u, k, j)] = t.slots[Probe(t, k, j)]
      BY <1>2, <2>2
    <3> QED
      BY <2>2, <3>1 DEF Stops, Holds, IsEmpty
  <2> QED
    BY <1>2, <1>3, <2>2, <2>3 DEF Reached
<1>6. ChainsWhole(u)
  BY <1>4, <1>5 DEF ChainsWhole
<1>7. s \in LiveSlots(u)
  BY <1>2, <1>3 DEF LiveSlots
<1>8. \A r \in 0 .. t.capacity - 1 :
        r # s => (r \in LiveSlots(u) <=> r \in LiveSlots(t))
  BY <1>2 DEF LiveSlots
<1>9. LiveSlots(u) \subseteq 0 .. t.capacity - 1
      /\ LiveSlots(t) \subseteq 0 .. t.capacity - 1
  BY <1>2 DEF LiveSlots
<1>10. ASSUME NEW k2 \in Keys, NEW v2 \in Values
       PROVE  Binds(u, k2, v2) <=> \/ k2 = k /\ v2 = v
                                   \/ k2 # k /\ Binds(t, k2, v2)
  <2>1. CASE k2 = k
    <3>1. \A r \in LiveSlots(u) : u.slots[r].key = k => r = s
      BY <1>2, <1>8, <1>9
    <3> QED
      BY <1>3, <1>7, <2>1, <3>1 DEF Binds
  <2>2. CASE k2 # k
    BY <1>2, <1>3, <1>7, <1>8, <1>9, <2>2 DEF Binds
  <2> QED
    BY <2>1, <2>2
<1> QED
  BY <1>2, <1>6, <1>10 DEF Sound, Bound

(* map_put() binds its key to its value and leaves the others alone.       *)
THEOREM PutHereSound ==
  ASSUME NEW t, Sound(t), NEW k \in Keys, NEW v \in Values, ProbeEnds(t, k)
  PROVE  /\ Sound(PutHere(t, k, v))
         /\ \A k2 \in Keys, v2 \in Values :
              Binds(PutHere(t, k, v), k2, v2) <=>
                \/ k2 = k /\ v2 = v
                \/ k2 # k /\ Binds(t, k2, v2)
<1>1. /\ Stop(t, k) \in 0 .. t.capacity - 1
      /\ Stops(t, k, Stop(t, k))
      /\ \A j \in 0 .. Stop(t, k) - 1 : ~Stops(t, k, j)
  BY StopsFirst DEF Sound
<1>2. t.capacity \in Nat /\ t.capacity > 0 /\ t.count \in Int
      /\ t.count + 1 \in Int
  BY <1>1 DEF Sound, IsTable
<1>3. CASE Found(t, k)
  <2> DEFINE s == Probe(t, k, Stop(t, k))
  <2>1. /\ s \in LiveSlots(t) /\ t.slots[s].key = k
        /\ \A r \in LiveSlots(t) : t.slots[r].key = k => r = s
    BY <1>2, <1>3, FoundSlot DEF GetEnds
  <2>2. s \in 0 .. t.capacity - 1
    BY <2>1 DEF LiveSlots
  <2>3. PutHere(t, k, v) = Store(t, s, Live(k, v), t.count)
    BY <1>3 DEF PutHere
  <2>4. \A j \in 0 .. Stop(t, k) - 1 : ~Stops(t, k, j) /\ Probe(t, k, j) # s
    BY <1>1, <2>1 DEF Stops, Holds, LiveSlots
  <2>5. \A r \in LiveSlots(t) : t.slots[r].key = k <=> r = s
    BY <2>1
  <2> HIDE DEF s
  <2>6. s = Probe(t, k, Stop(t, k)) /\ Stop(t, k) \in 0 .. t.capacity - 1
    BY <1>1 DEF s
  <2> QED
    <3> SUFFICES ASSUME NEW u, u = Store(t, s, Live(k, v), t.count)
                 PROVE  /\ Sound(u)
                        /\ \A k2 \in Keys, v2 \in Values :
                             Binds(u, k2, v2) <=>
                               \/ k2 = k /\ v2 = v
                               \/ k2 # k /\ Binds(t, k2, v2)
      BY <2>3
    <3>1. Fits(t, k, Stop(t, k), s)
      BY <2>4, <2>5, <2>6 DEF Fits
    <3>2. Bound(u, t, k, v)
      BY <1>2, <2>2, <2>6, <3>1, WriteLive
    <3> QED
      BY <3>2 DEF Bound
<1>4. CASE ~Found(t, k)
  <2> DEFINE s == Probe(t, k, FreeAt(t, k))
  <2>1. /\ FreeAt(t, k) \in 0 .. t.capacity - 1
        /\ s \in 0 .. t.capacity - 1
        /\ t.slots[s] \in {EMPTY, TOMBSTONE}
        /\ \A j \in 0 .. FreeAt(t, k) - 1 :
             ~Stops(t, k, j) /\ Probe(t, k, j) # s
    BY <1>4, FreeSlot
  <2>2. \A r \in LiveSlots(t) : t.slots[r].key # k
    BY <1>4, NotFoundAbsent
  <2>3. s \notin LiveSlots(t)
    BY <2>1 DEF LiveSlots, EMPTY, TOMBSTONE
  <2>4. \A r \in LiveSlots(t) : t.slots[r].key = k <=> r = s
    BY <2>2, <2>3
  <2>5. PutHere(t, k, v) = Store(t, s, Live(k, v), t.count + 1)
    BY <1>4 DEF PutHere
  <2> HIDE DEF s
  <2>6. s = Probe(t, k, FreeAt(t, k))
    BY DEF s
  <2> QED
    <3> SUFFICES ASSUME NEW u, u = Store(t, s, Live(k, v), t.count + 1)
                 PROVE  /\ Sound(u)
                        /\ \A k2 \in Keys, v2 \in Values :
                             Binds(u, k2, v2) <=>
                               \/ k2 = k /\ v2 = v
                               \/ k2 # k /\ Binds(t, k2, v2)
      BY <2>5
    <3>1. Fits(t, k, FreeAt(t, k), s)
      BY <2>1, <2>4, <2>6 DEF Fits
    <3>2. Bound(u, t, k, v)
      BY <1>2, <2>1, <3>1, WriteLive
    <3> QED
      BY <3>2 DEF Bound
<1> QED
  BY <1>3, <1>4

(* A lap of the probe passes every slot.                                   *)
LEMMA LapPassesAll ==
  ASSUME NEW c \in Nat, NEW h \in Nat, NEW s \in 0 .. c - 1
  PROVE  \E i \in 0 .. c - 1 : s = (h + i) % c
<1>4. h % c \in 0 .. c - 1 /\ h = c * (h \div c) + (h % c)
  OBVIOUS
<1>5. h \div c \in Nat
  OBVIOUS
<1>1. PICK r \in 0 .. c - 1, d \in Nat : h = c * d + r
  BY <1>4, <1>5
<1>2. CASE s >= r
  <2>1. s - r \in 0 .. c - 1 /\ h + (s - r) = c * d + s /\ h + (s - r) \in Nat
    BY <1>1, <1>2
  <2>2. (h + (s - r)) % c = s
    BY <1>1, <2>1, Remainder
  <2> QED
    BY <2>1, <2>2
<1>3. CASE s < r
  <2>1. c * (d + 1) = c * d + c
    BY <1>1
  <2>2. /\ s - r + c \in 0 .. c - 1 /\ h + (s - r + c) \in Nat
        /\ h + (s - r + c) = c * (d + 1) + s /\ d + 1 \in Nat
    BY <1>1, <1>3, <2>1
  <2>3. (h + (s - r + c)) % c = s
    BY <1>1, <2>2, Remainder
  <2> QED
    BY <2>2, <2>3
<1> QED
  BY <1>1, <1>2, <1>3

(* The tables a growth goes through, as a function of the slots moved.     *)
IsMove(m, t, c, n) ==
  m = [i \in 0 .. n |->
         IF i = 0 THEN [NewTable(c) EXCEPT !.count = t.count]
         ELSE MoveInto(m[i - 1], t.slots[i - 1])]

(* Growing a table yields the last of the tables of such a function.       *)
LEMMA RehashMoves ==
  ASSUME NEW t, NEW c, NEW m0, IsMove(m0, t, c, t.capacity)
  PROVE  \E m : IsMove(m, t, c, t.capacity) /\ Rehash(t, c) = m[t.capacity]
<1> DEFINE m == CHOOSE m : IsMove(m, t, c, t.capacity)
<1>1. IsMove(m, t, c, t.capacity)
  OBVIOUS
<1>2. Rehash(t, c) = m[t.capacity]
  BY DEF Rehash, IsMove
<1> QED
  BY <1>1, <1>2

(* There is such a function for any number of slots.                       *)
LEMMA MovesExist ==
  ASSUME NEW t, NEW c
  PROVE  \A n \in Nat : \E m : IsMove(m, t, c, n)
<1> DEFINE Bad == {n \in Nat : ~ \E m : IsMove(m, t, c, n)}
<1>1. SUFFICES ASSUME Bad # {} PROVE FALSE
  OBVIOUS
<1>2. Bad \subseteq Nat
  OBVIOUS
<1> HIDE DEF Bad
<1>3. \E n \in Bad : \A k \in Bad : n <= k
  BY <1>1, <1>2, LeastNumber
<1> USE DEF Bad
<1>4. PICK n \in Bad : \A k \in Bad : n <= k
  BY <1>3
<1>5. CASE n = 0
  <2> DEFINE m == [i \in 0 .. 0 |-> [NewTable(c) EXCEPT !.count = t.count]]
  <2>1. IsMove(m, t, c, 0)
    BY DEF IsMove
  <2> QED
    BY <1>4, <1>5, <2>1
<1>6. CASE n # 0
  <2>1. n \in Nat /\ n - 1 \in Nat /\ n - 1 \notin Bad
    BY <1>4, <1>6
  <2>2. PICK m : IsMove(m, t, c, n - 1)
    BY <2>1
  <2> DEFINE f == [i \in 0 .. n |-> IF i = n THEN MoveInto(m[n - 1], t.slots[n - 1])
                                    ELSE m[i]]
  <2>3. \A i \in 0 .. n - 1 : f[i] = m[i]
    BY <2>1
  <2>4. ASSUME NEW i \in 0 .. n
        PROVE  f[i] = IF i = 0 THEN [NewTable(c) EXCEPT !.count = t.count]
                      ELSE MoveInto(f[i - 1], t.slots[i - 1])
    <3>1. CASE i = n
      BY <1>6, <2>1, <2>3, <3>1
    <3>2. CASE i # n
      <4>1. i \in 0 .. n - 1 /\ (i # 0 => i - 1 \in 0 .. n - 1)
        BY <2>1, <3>2
      <4>2. m[i] = IF i = 0 THEN [NewTable(c) EXCEPT !.count = t.count]
                   ELSE MoveInto(m[i - 1], t.slots[i - 1])
        BY <2>2, <4>1 DEF IsMove
      <4> QED
        BY <2>3, <4>1, <4>2
    <3> QED
      BY <3>1, <3>2
  <2>5. IsMove(f, t, c, n)
    <3>1. f = [i \in 0 .. n |-> f[i]]
      OBVIOUS
    <3> HIDE DEF f
    <3> QED
      BY <2>4, <3>1 DEF IsMove
  <2> QED
    BY <1>4, <2>5
<1> QED
  BY <1>5, <1>6

(* The live slots before slot i, counted one by one.                       *)
Passed(t, i) == {s \in LiveSlots(t) : s < i}

(* Each live slot passed counts one.                                       *)
LEMMA PassedCounted ==
  ASSUME NEW t, IsTable(t), NEW i \in Nat
  PROVE  /\ IsFiniteSet(Passed(t, i)) /\ Cardinality(Passed(t, i)) \in Nat
         /\ Cardinality(Passed(t, i)) <= i
         /\ i \notin LiveSlots(t) => Passed(t, i + 1) = Passed(t, i)
         /\ i \in LiveSlots(t) =>
              Cardinality(Passed(t, i + 1)) = Cardinality(Passed(t, i)) + 1
<1>1. t.capacity \in Nat /\ LiveSlots(t) \subseteq Nat
  BY DEF IsTable, LiveSlots
<1>2. Passed(t, i) \in SUBSET (0 .. i - 1)
  BY <1>1 DEF Passed
<1>3. IsFiniteSet(0 .. i - 1) /\ Cardinality(0 .. i - 1) = i
  BY FS_Interval
<1>4. /\ IsFiniteSet(Passed(t, i))
      /\ Cardinality(Passed(t, i)) <= Cardinality(0 .. i - 1)
  BY <1>2, <1>3, FS_Subset
<1>5. Cardinality(Passed(t, i)) \in Nat
  BY <1>4, FS_CardinalityType
<1>6. i \notin LiveSlots(t) => Passed(t, i + 1) = Passed(t, i)
  BY <1>1 DEF Passed
<1>7. ASSUME i \in LiveSlots(t)
      PROVE  Cardinality(Passed(t, i + 1)) = Cardinality(Passed(t, i)) + 1
  <2>1. Passed(t, i + 1) = Passed(t, i) \cup {i} /\ i \notin Passed(t, i)
    BY <1>1, <1>7 DEF Passed
  <2> QED
    BY <1>4, <2>1, FS_AddElement
<1> QED
  BY <1>3, <1>4, <1>5, <1>6, <1>7

(* Half way through a growth: the first i slots have been moved.           *)
Moving(u, t, c, i) ==
  /\ Sound(u) /\ u.capacity = c /\ u.count = t.count
  /\ \A s \in 0 .. c - 1 : u.slots[s] # TOMBSTONE
  /\ IsFiniteSet(LiveSlots(u))
  /\ Cardinality(LiveSlots(u)) = Cardinality(Passed(t, i))
  /\ \A k \in Keys, v \in Values :
       Binds(u, k, v) <=> \E s \in LiveSlots(t) :
                            /\ s < i
                            /\ t.slots[s].key = k /\ t.slots[s].value = v

(* Nothing is moved yet in the new table of a growth.                      *)
LEMMA MoveStarts ==
  ASSUME NEW t, Sound(t), NEW c \in Nat
  PROVE  Moving([NewTable(c) EXCEPT !.count = t.count], t, c, 0)
<1> DEFINE u == [NewTable(c) EXCEPT !.count = t.count]
<1>1. u = [slots |-> [i \in 0 .. c - 1 |-> EMPTY], count |-> t.count,
           capacity |-> c]
  BY DEF NewTable
<1>2. t.count \in Int /\ EMPTY \in Slots
  BY DEF Sound, IsTable, Slots
<1>3. IsTable(u)
  BY <1>1, <1>2 DEF IsTable
<1>4. /\ u.capacity = c /\ u.count = t.count
      /\ \A s \in 0 .. c - 1 : u.slots[s] = EMPTY
  BY <1>1
<1> HIDE DEF u
<1>5. LiveSlots(u) = {}
  BY <1>4 DEF LiveSlots, EMPTY
<1>6. Sound(u)
  BY <1>3, <1>5 DEF Sound, ChainsWhole
<1>7. EMPTY # TOMBSTONE
  BY DEF EMPTY, TOMBSTONE
<1>9. \A s \in LiveSlots(t) : ~(s < 0)
  BY DEF LiveSlots, Sound, IsTable
<1>8. /\ IsFiniteSet(LiveSlots(u))
      /\ Cardinality(LiveSlots(u)) = Cardinality(Passed(t, 0))
  <2>1. Passed(t, 0) = {}
    BY <1>9 DEF Passed
  <2> QED
    BY <1>5, <2>1, FS_EmptySet
<1>10. Moving(u, t, c, 0)
  BY <1>4, <1>5, <1>6, <1>7, <1>8, <1>9 DEF Moving, Binds
<1> QED
  BY <1>10 DEF u

(* A table that is not full of live slots and has no tombstones lets every *)
(* probe reach an empty slot.                                              *)
LEMMA FirstEmptySlot ==
  ASSUME NEW t, IsTable(t), NEW k \in Keys,
         \A s \in 0 .. t.capacity - 1 : t.slots[s] # TOMBSTONE,
         IsFiniteSet(LiveSlots(t)), Cardinality(LiveSlots(t)) < t.capacity
  PROVE  /\ FirstEmpty(t, k) \in 0 .. t.capacity - 1
         /\ IsEmpty(t, k, FirstEmpty(t, k))
         /\ \A j \in 0 .. FirstEmpty(t, k) - 1 : ~IsEmpty(t, k, j)
<1>1. t.capacity \in Nat /\ Home[k] \in Nat
  BY HomeAssumption DEF IsTable
<1>2. PICK s \in 0 .. t.capacity - 1 : s \notin LiveSlots(t)
  <2>1. SUFFICES ASSUME 0 .. t.capacity - 1 \subseteq LiveSlots(t) PROVE FALSE
    OBVIOUS
  <2>2. LiveSlots(t) = 0 .. t.capacity - 1
    BY <2>1 DEF LiveSlots
  <2>3. Cardinality(0 .. t.capacity - 1) = t.capacity
    BY <1>1, FS_Interval, SMTT(30)
  <2> QED
    BY <1>1, <2>2, <2>3
<1>3. t.slots[s] = EMPTY
  BY <1>2, SlotCases DEF LiveSlots, Live
<1> DEFINE S == {i \in 0 .. t.capacity - 1 : IsEmpty(t, k, i)}
<1>4. S \subseteq Nat
  BY <1>1
<1>5. S # {}
  <2>1. PICK i \in 0 .. t.capacity - 1 : s = (Home[k] + i) % t.capacity
    BY <1>1, LapPassesAll
  <2> QED
    BY <1>3, <2>1 DEF IsEmpty, Probe
<1> HIDE DEF S
<1>6. \E i \in S : \A j \in S : i <= j
  BY <1>4, <1>5, LeastNumber
<1> USE DEF S
<1>7. PICK i \in S : \A j \in S : i <= j
  BY <1>6
<1>8. \A j \in 0 .. i - 1 : ~IsEmpty(t, k, j)
  BY <1>1, <1>7
<1>9. /\ i \in 0 .. t.capacity - 1 /\ IsEmpty(t, k, i)
      /\ \A j \in 0 .. i - 1 : ~IsEmpty(t, k, j)
  BY <1>7, <1>8
<1> QED
  BY <1>9 DEF FirstEmpty

(* No key is live in two slots.                                            *)
LEMMA KeyOnce ==
  ASSUME NEW t, Sound(t), NEW r \in LiveSlots(t), NEW s \in LiveSlots(t),
         t.slots[r].key = t.slots[s].key
  PROVE  r = s
<1> DEFINE k == t.slots[s].key
<1>1. k \in Keys
  BY SlotCases DEF LiveSlots, Sound
<1>2. t.slots[s].key = k /\ t.slots[r].key = k
  OBVIOUS
<1> HIDE DEF k
<1>3. Probe(t, k, Stop(t, k)) = s
  BY <1>1, <1>2, BindingFound
<1>4. Probe(t, k, Stop(t, k)) = r
  BY <1>1, <1>2, BindingFound
<1> QED
  BY <1>3, <1>4

(* One live slot moved: its key is new to the table it goes to, where the  *)
(* first empty slot from its home takes it.                                *)
LEMMA MoveLive ==
  ASSUME NEW t, Sound(t), NEW c \in Nat, t.capacity < c,
         NEW i \in LiveSlots(t), NEW u, Moving(u, t, c, i),
         NEW k \in Keys, NEW v \in Values, t.slots[i] = Live(k, v),
         NEW s, s = Probe(u, k, FirstEmpty(u, k)),
         NEW w, w = Store(u, s, Live(k, v), u.count)
  PROVE  /\ Sound(w) /\ w.capacity = c /\ w.count = t.count
         /\ s \in 0 .. c - 1 /\ s \notin LiveSlots(u)
         /\ LiveSlots(w) = LiveSlots(u) \cup {s}
         /\ \A q \in 0 .. c - 1 : w.slots[q] # TOMBSTONE
         /\ \A k2 \in Keys, v2 \in Values :
              Binds(w, k2, v2) <=> \/ k2 = k /\ v2 = v
                                   \/ k2 # k /\ Binds(u, k2, v2)
<1>1. /\ i \in Nat /\ i < c /\ i \in 0 .. t.capacity - 1
      /\ t.capacity \in Nat /\ t.count \in Int
  BY DEF LiveSlots, Sound, IsTable
<1>2. t.slots[i].key = k
  BY DEF Live
<1>3. /\ Sound(u) /\ IsTable(u) /\ u.capacity = c /\ u.count = t.count
      /\ \A q \in 0 .. c - 1 : u.slots[q] # TOMBSTONE
      /\ IsFiniteSet(LiveSlots(u)) /\ Cardinality(LiveSlots(u)) <= i
  <2>1. Cardinality(Passed(t, i)) <= i
    BY <1>1, PassedCounted DEF Sound
  <2> QED
    BY <2>1 DEF Moving, Sound
<1>4. Cardinality(LiveSlots(u)) < u.capacity
  <2>1. Cardinality(LiveSlots(u)) \in Nat
    BY <1>3, FS_CardinalityType
  <2> QED
    BY <1>1, <1>3, <2>1
<1>5. /\ FirstEmpty(u, k) \in 0 .. c - 1
      /\ IsEmpty(u, k, FirstEmpty(u, k))
      /\ \A j \in 0 .. FirstEmpty(u, k) - 1 : ~IsEmpty(u, k, j)
  BY <1>2, <1>3, <1>4, FirstEmptySlot
<1>6. \A j \in Nat : Probe(u, k, j) \in 0 .. c - 1
  BY <1>1, <1>2, <1>3, ProbeInside
<1>7. s \in 0 .. c - 1 /\ u.slots[s] = EMPTY
  BY <1>5, <1>6 DEF IsEmpty
<1>8. s \notin LiveSlots(u)
  BY <1>7 DEF LiveSlots, EMPTY
<1>9. ASSUME NEW r \in LiveSlots(u) PROVE u.slots[r].key # k
  <2>1. SUFFICES ASSUME u.slots[r].key = k PROVE FALSE
    OBVIOUS
  <2>2. u.slots[r].value \in Values
    BY <1>3, SlotCases DEF LiveSlots
  <2>3. Binds(u, k, u.slots[r].value)
    BY <2>1 DEF Binds
  <2>4. PICK q \in LiveSlots(t) : q < i /\ t.slots[q].key = k
    BY <1>2, <2>2, <2>3 DEF Moving
  <2>5. q = i
    BY <1>2, <2>4, KeyOnce
  <2> QED
    BY <1>1, <2>4, <2>5
<1>10. \A r \in LiveSlots(u) : u.slots[r].key = k <=> r = s
  BY <1>8, <1>9
<1>11. ASSUME NEW j \in 0 .. FirstEmpty(u, k) - 1
       PROVE  ~Stops(u, k, j) /\ Probe(u, k, j) # s
  <2>1. ~IsEmpty(u, k, j)
    BY <1>5
  <2>2. Probe(u, k, j) \in 0 .. c - 1
    BY <1>5, <1>6
  <2>3. ~Holds(u, k, j)
    BY <1>3, <1>9, <2>2 DEF Holds, LiveSlots
  <2> QED
    BY <1>7, <2>1, <2>3 DEF Stops, IsEmpty
<1>12. FirstEmpty(u, k) \in 0 .. u.capacity - 1 /\ s \in 0 .. u.capacity - 1
       /\ u.count \in Int
  BY <1>1, <1>3, <1>5, <1>7
<1>13. /\ Sound(w) /\ w.capacity = u.capacity
       /\ \A k2 \in Keys, v2 \in Values :
            Binds(w, k2, v2) <=> \/ k2 = k /\ v2 = v
                                 \/ k2 # k /\ Binds(u, k2, v2)
  <2>1. \A j \in 0 .. FirstEmpty(u, k) - 1 :
          ~Stops(u, k, j) /\ Probe(u, k, j) # s
    BY <1>11
  <2>2. Sound(u)
    BY <1>3
  <2>3. Fits(u, k, FirstEmpty(u, k), s)
    BY <1>7, <1>10, <2>1 DEF Fits
  <2>4. Bound(w, u, k, v)
    BY <1>12, <2>2, <2>3, WriteLive
  <2> QED
    BY <2>4 DEF Bound
<1>14. /\ w.slots[s] = Live(k, v) /\ w.count = u.count
       /\ \A q \in 0 .. c - 1 : q # s => w.slots[q] = u.slots[q]
  <2>1. u.slots \in [0 .. c - 1 -> Slots]
    BY <1>3 DEF IsTable
  <2>2. w.slots = [u.slots EXCEPT ![s] = Live(k, v)] /\ w.count = u.count
    BY DEF Store
  <2> QED
    BY <1>7, <2>1, <2>2
<1>15. Live(k, v) # TOMBSTONE /\ Live(k, v).state = "live"
  BY DEF Live, TOMBSTONE
<1>16. LiveSlots(w) = LiveSlots(u) \cup {s}
  <2>1. /\ LiveSlots(w) \subseteq 0 .. c - 1
        /\ LiveSlots(u) \subseteq 0 .. c - 1
    BY <1>3, <1>13 DEF LiveSlots
  <2>2. \A q \in 0 .. c - 1 : q # s => (q \in LiveSlots(w) <=> q \in LiveSlots(u))
    BY <1>3, <1>13, <1>14 DEF LiveSlots
  <2>3. s \in LiveSlots(w)
    BY <1>3, <1>7, <1>13, <1>14, <1>15 DEF LiveSlots
  <2> QED
    BY <1>7, <2>1, <2>2, <2>3
<1>17. \A q \in 0 .. c - 1 : w.slots[q] # TOMBSTONE
  BY <1>3, <1>14, <1>15
<1> QED
  BY <1>3, <1>7, <1>8, <1>13, <1>14, <1>16, <1>17

(* One step of a growth: the next slot is moved if it is live.             *)
LEMMA MoveStep ==
  ASSUME NEW t, Sound(t), NEW c \in Nat, t.capacity < c,
         NEW i \in 0 .. t.capacity - 1, NEW u, Moving(u, t, c, i)
  PROVE  Moving(MoveInto(u, t.slots[i]), t, c, i + 1)
<1>1. t.capacity \in Nat /\ i \in Nat /\ IsTable(t)
  BY DEF Sound, IsTable
<1>2. LiveSlots(t) \subseteq Nat
  BY <1>1 DEF LiveSlots
<1>3. /\ IsFiniteSet(LiveSlots(u))
      /\ Cardinality(LiveSlots(u)) = Cardinality(Passed(t, i))
  BY DEF Moving
<1>4. CASE t.slots[i].state # "live"
  <2>1. MoveInto(u, t.slots[i]) = u
    BY <1>4 DEF MoveInto
  <2>2. i \notin LiveSlots(t)
    BY <1>4 DEF LiveSlots
  <2>3. \A s \in LiveSlots(t) : s < i <=> s < i + 1
    BY <1>1, <1>2, <2>2
  <2>4. Cardinality(LiveSlots(u)) = Cardinality(Passed(t, i + 1))
    BY <1>1, <1>3, <2>2, PassedCounted
  <2> QED
    BY <2>1, <2>3, <2>4 DEF Moving
<1>5. CASE t.slots[i].state = "live"
  <2>1. i \in LiveSlots(t)
    BY <1>5 DEF LiveSlots
  <2>2. PICK k \in Keys, v \in Values : t.slots[i] = Live(k, v)
    BY <1>1, <1>5, SlotCases
  <2>3. PICK s : s = Probe(u, k, FirstEmpty(u, k))
    OBVIOUS
  <2>4. PICK w : w = Store(u, s, Live(k, v), u.count)
    OBVIOUS
  <2>5. MoveInto(u, t.slots[i]) = w
    BY <1>5, <2>2, <2>3, <2>4 DEF MoveInto, Live
  <2>6. /\ Sound(w) /\ w.capacity = c /\ w.count = t.count
        /\ s \in 0 .. c - 1 /\ s \notin LiveSlots(u)
        /\ LiveSlots(w) = LiveSlots(u) \cup {s}
        /\ \A q \in 0 .. c - 1 : w.slots[q] # TOMBSTONE
        /\ \A k2 \in Keys, v2 \in Values :
             Binds(w, k2, v2) <=> \/ k2 = k /\ v2 = v
                                  \/ k2 # k /\ Binds(u, k2, v2)
    BY <2>1, <2>2, <2>3, <2>4, MoveLive
  <2>7. /\ IsFiniteSet(LiveSlots(w))
        /\ Cardinality(LiveSlots(w)) = Cardinality(Passed(t, i + 1))
    <3>2. Cardinality(Passed(t, i + 1)) = Cardinality(Passed(t, i)) + 1
      BY <1>1, <2>1, PassedCounted
    <3>1. /\ IsFiniteSet(LiveSlots(u) \cup {s})
          /\ Cardinality(LiveSlots(u) \cup {s}) = Cardinality(LiveSlots(u)) + 1
      BY <1>3, <2>6, FS_AddElement
    <3> QED
      BY <1>3, <2>6, <3>1, <3>2
  <2>8. t.slots[i].key = k /\ t.slots[i].value = v
    BY <2>2 DEF Live
  <2>9. \A s2 \in LiveSlots(t) : s2 < i + 1 <=> s2 < i \/ s2 = i
    BY <1>1, <1>2
  <2>10. \A s2 \in LiveSlots(t) : t.slots[s2].key = k => s2 = i
    BY <2>1, <2>8, KeyOnce
  <2>11. ASSUME NEW k2 \in Keys, NEW v2 \in Values
         PROVE  Binds(w, k2, v2) <=>
                  \E s2 \in LiveSlots(t) :
                    /\ s2 < i + 1
                    /\ t.slots[s2].key = k2 /\ t.slots[s2].value = v2
    <3>1. Binds(u, k2, v2) <=>
            \E s2 \in LiveSlots(t) :
              /\ s2 < i
              /\ t.slots[s2].key = k2 /\ t.slots[s2].value = v2
      BY DEF Moving
    <3>2. CASE k2 = k
      BY <2>1, <2>6, <2>8, <2>9, <2>10, <3>2
    <3>3. CASE k2 # k
      <4>1. Binds(w, k2, v2) <=> Binds(u, k2, v2)
        BY <2>6, <3>3
      <4> QED
        BY <2>8, <2>9, <3>1, <3>3, <4>1
    <3> QED
      BY <3>2, <3>3
  <2> QED
    BY <2>5, <2>6, <2>7, <2>11 DEF Moving
<1> QED
  BY <1>4, <1>5

(* map_grow() keeps every binding and their number, breaks no chain and    *)
(* leaves no tombstone.                                                    *)
THEOREM RehashSound ==
  ASSUME NEW t, Sound(t), NEW c \in Nat, t.capacity < c
  PROVE  /\ Sound(Rehash(t, c)) /\ Rehash(t, c).capacity = c
         /\ \A s \in 0 .. c - 1 : Rehash(t, c).slots[s] # TOMBSTONE
         /\ \A k \in Keys, v \in Values :
              Binds(Rehash(t, c), k, v) <=> Binds(t, k, v)
         /\ Rehash(t, c).count = t.count
         /\ IsFiniteSet(LiveSlots(Rehash(t, c)))
         /\ Cardinality(LiveSlots(Rehash(t, c))) = Cardinality(LiveSlots(t))
<1>1. t.capacity \in Nat
  BY DEF Sound, IsTable
<1>2. PICK m : /\ IsMove(m, t, c, t.capacity)
               /\ Rehash(t, c) = m[t.capacity]
  BY <1>1, MovesExist, RehashMoves
<1>3. /\ m[0] = [NewTable(c) EXCEPT !.count = t.count]
      /\ \A i \in 0 .. t.capacity - 1 :
           m[i + 1] = MoveInto(m[i], t.slots[i])
  <2>1. \A i \in 0 .. t.capacity :
          m[i] = IF i = 0 THEN [NewTable(c) EXCEPT !.count = t.count]
                 ELSE MoveInto(m[i - 1], t.slots[i - 1])
    BY <1>2 DEF IsMove
  <2>2. m[0] = [NewTable(c) EXCEPT !.count = t.count]
    BY <1>1, <2>1
  <2>3. ASSUME NEW i \in 0 .. t.capacity - 1
        PROVE  m[i + 1] = MoveInto(m[i], t.slots[i])
    <3>1. i + 1 \in 0 .. t.capacity /\ i + 1 # 0 /\ (i + 1) - 1 = i
      BY <1>1
    <3>2. m[i + 1] = MoveInto(m[(i + 1) - 1], t.slots[(i + 1) - 1])
      BY <2>1, <3>1
    <3> QED
      BY <3>1, <3>2
  <2> QED
    BY <2>2, <2>3
<1> DEFINE Bad == {i \in 0 .. t.capacity : ~Moving(m[i], t, c, i)}
<1>4. Bad = {}
  <2>1. SUFFICES ASSUME Bad # {} PROVE FALSE
    OBVIOUS
  <2>2. Bad \subseteq Nat
    OBVIOUS
  <2> HIDE DEF Bad
  <2>3. \E i \in Bad : \A j \in Bad : i <= j
    BY <2>1, <2>2, LeastNumber
  <2> USE DEF Bad
  <2>4. PICK i \in Bad : \A j \in Bad : i <= j
    BY <2>3
  <2>5. CASE i = 0
    <3>1. Moving(m[0], t, c, 0)
      BY <1>3, MoveStarts
    <3> QED
      BY <2>4, <2>5, <3>1
  <2>6. CASE i # 0
    <3>1. PICK j \in 0 .. t.capacity - 1 : i = j + 1
      <4>1. i - 1 \in 0 .. t.capacity - 1 /\ i = (i - 1) + 1
        BY <1>1, <2>4, <2>6
      <4> QED
        BY <4>1
    <3>2. j \notin Bad /\ j \in 0 .. t.capacity
      BY <1>1, <2>4, <3>1
    <3>3. Moving(m[j], t, c, j)
      BY <3>2
    <3>4. Moving(MoveInto(m[j], t.slots[j]), t, c, j + 1)
      BY <3>3, MoveStep
    <3> QED
      BY <1>3, <2>4, <3>1, <3>4
  <2> QED
    BY <2>5, <2>6
<1>5. Moving(Rehash(t, c), t, c, t.capacity)
  BY <1>1, <1>2, <1>4
<1>6. \A s \in LiveSlots(t) : s < t.capacity
  BY <1>1 DEF LiveSlots
<1>7. Passed(t, t.capacity) = LiveSlots(t)
  BY <1>6 DEF Passed
<1> QED
  BY <1>5, <1>6, <1>7 DEF Moving, Binds

(* map_put(), growth included: where its probe ends, it binds its key to   *)
(* its value, leaves every other binding alone and breaks no chain.        *)
THEOREM PutSound ==
  ASSUME NEW t, Sound(t), NEW k \in Keys, NEW v \in Values, PutEnds(t, k)
  PROVE  /\ Sound(Put(t, k, v))
         /\ \A k2 \in Keys, v2 \in Values :
              Binds(Put(t, k, v), k2, v2) <=>
                \/ k2 = k /\ v2 = v
                \/ k2 # k /\ Binds(t, k2, v2)
<1>1. t.capacity \in Nat /\ FirstCapacity \in Nat /\ FirstCapacity > 1
  BY CapacityAssumption DEF Sound, IsTable
<1>2. /\ Sound(Roomy(t))
      /\ \A k2 \in Keys, v2 \in Values :
           Binds(Roomy(t), k2, v2) <=> Binds(t, k2, v2)
  <2>1. CASE t.capacity = 0
    <3>1. Roomy(t) = Rehash(t, FirstCapacity) /\ t.capacity < FirstCapacity
      BY <1>1, <2>1 DEF Roomy
    <3> QED
      BY <1>1, <3>1, RehashSound
  <2>2. CASE t.capacity # 0 /\ (t.count + 1) * 4 > t.capacity * 3
    <3>1. /\ Roomy(t) = Rehash(t, t.capacity * 2)
          /\ t.capacity < t.capacity * 2 /\ t.capacity * 2 \in Nat
      BY <1>1, <2>2 DEF Roomy
    <3> QED
      BY <3>1, RehashSound
  <2>3. CASE t.capacity # 0 /\ ~((t.count + 1) * 4 > t.capacity * 3)
    BY <2>3 DEF Roomy
  <2> QED
    BY <2>1, <2>2, <2>3
<1>3. /\ Sound(PutHere(Roomy(t), k, v))
      /\ \A k2 \in Keys, v2 \in Values :
           Binds(PutHere(Roomy(t), k, v), k2, v2) <=>
             \/ k2 = k /\ v2 = v
             \/ k2 # k /\ Binds(Roomy(t), k2, v2)
  BY <1>2, PutHereSound DEF PutEnds
<1> QED
  BY <1>2, <1>3 DEF Put

-----------------------------------------------------------------------------
(* What the load of a table says of its slots.                             *)
Counted(t) == Sound(t) /\ LoadBounded(t)

(* No slot is empty.                                                       *)
Full(t) == /\ t.capacity > 0
           /\ \A s \in 0 .. t.capacity - 1 : t.slots[s] # EMPTY

(* The live slots are some of the slots.                                   *)
LEMMA LiveFinite ==
  ASSUME NEW t, IsTable(t)
  PROVE  /\ t.capacity \in Nat /\ LiveSlots(t) \in SUBSET (0 .. t.capacity - 1)
         /\ IsFiniteSet(LiveSlots(t)) /\ Cardinality(LiveSlots(t)) \in Nat
         /\ IsFiniteSet(0 .. t.capacity - 1)
         /\ Cardinality(0 .. t.capacity - 1) = t.capacity
<1>1. t.capacity \in Nat /\ LiveSlots(t) \in SUBSET (0 .. t.capacity - 1)
  BY DEF IsTable, LiveSlots
<1>2. /\ IsFiniteSet(0 .. t.capacity - 1)
      /\ Cardinality(0 .. t.capacity - 1) = t.capacity
  BY <1>1, FS_Interval, SMTT(30)
<1>3. IsFiniteSet(LiveSlots(t))
  BY <1>1, <1>2, FS_Subset
<1> QED
  BY <1>1, <1>2, <1>3, FS_CardinalityType

(* A probe ends in a table with an empty slot.                             *)
LEMMA EmptyEnds ==
  ASSUME NEW t, IsTable(t), NEW k \in Keys, NEW s \in 0 .. t.capacity - 1,
         t.slots[s] = EMPTY
  PROVE  ProbeEnds(t, k)
<1>1. t.capacity \in Nat /\ Home[k] \in Nat
  BY HomeAssumption DEF IsTable
<1>2. PICK i \in 0 .. t.capacity - 1 : s = (Home[k] + i) % t.capacity
  BY <1>1, LapPassesAll
<1> QED
  BY <1>2 DEF ProbeEnds, Stops, IsEmpty, Probe

(* map_grow() makes a table in which every probe ends.                     *)
LEMMA GrownEnds ==
  ASSUME NEW t, Counted(t), NEW c \in Nat, t.capacity < c
  PROVE  /\ Sound(Rehash(t, c)) /\ Rehash(t, c).capacity = c
         /\ Rehash(t, c).count = t.count
         /\ t.count = Cardinality(LiveSlots(Rehash(t, c)))
         /\ \A k \in Keys : ProbeEnds(Rehash(t, c), k)
<1>1. PICK u : u = Rehash(t, c)
  OBVIOUS
<1>2. /\ Sound(u) /\ u.capacity = c /\ u.count = t.count
      /\ \A s \in 0 .. c - 1 : u.slots[s] # TOMBSTONE
      /\ IsFiniteSet(LiveSlots(u))
      /\ Cardinality(LiveSlots(u)) = Cardinality(LiveSlots(t))
  BY <1>1, RehashSound DEF Counted
<1>3. t.count = Cardinality(LiveSlots(t)) /\ t.count * 4 <= t.capacity * 3
  BY DEF Counted, LoadBounded
<1>4. t.capacity \in Nat /\ t.count \in Nat
  BY <1>3, LiveFinite DEF Counted, Sound
<1>5. Cardinality(LiveSlots(u)) < c
  BY <1>2, <1>3, <1>4
<1>6. PICK s \in 0 .. c - 1 : s \notin LiveSlots(u)
  <2>1. SUFFICES ASSUME 0 .. c - 1 \subseteq LiveSlots(u) PROVE FALSE
    OBVIOUS
  <2>2. LiveSlots(u) = 0 .. c - 1
    BY <1>2, <2>1, LiveFinite DEF Sound
  <2>3. Cardinality(0 .. c - 1) = c
    BY FS_Interval
  <2> QED
    BY <1>5, <2>2, <2>3
<1>7. u.slots[s] = EMPTY
  BY <1>2, <1>6, SlotCases DEF LiveSlots, Sound
<1>8. \A k \in Keys : ProbeEnds(u, k)
  BY <1>2, <1>7, EmptyEnds DEF Sound
<1> QED
  BY <1>1, <1>2, <1>3, <1>8

(* The table map_put() probes has room for one more; it is the old table,  *)
(* or every probe in it ends.                                              *)
LEMMA RoomyCounted ==
  ASSUME NEW t, Counted(t)
  PROVE  /\ Counted(Roomy(t))
         /\ (Roomy(t).count + 1) * 4 <= Roomy(t).capacity * 3
         /\ \/ Roomy(t) = t /\ t.capacity > 0
            \/ \A k \in Keys : ProbeEnds(Roomy(t), k)
<1>1. t.count = Cardinality(LiveSlots(t)) /\ t.count * 4 <= t.capacity * 3
  BY DEF Counted, LoadBounded
<1>2. t.capacity \in Nat /\ t.count \in Nat
  BY <1>1, LiveFinite DEF Counted, Sound
<1>3. CASE t.capacity = 0
  <2>1. /\ Roomy(t) = Rehash(t, FirstCapacity)
        /\ FirstCapacity \in Nat /\ FirstCapacity > 1
    BY <1>3, CapacityAssumption DEF Roomy
  <2>2. t.count = 0 /\ t.capacity < FirstCapacity
    BY <1>1, <1>2, <1>3, <2>1
  <2>3. /\ Sound(Roomy(t)) /\ Roomy(t).capacity = FirstCapacity
        /\ Roomy(t).count = 0 /\ Cardinality(LiveSlots(Roomy(t))) = 0
        /\ \A k \in Keys : ProbeEnds(Roomy(t), k)
    BY <2>1, <2>2, GrownEnds
  <2> QED
    BY <2>1, <2>3 DEF Counted, LoadBounded
<1>4. CASE t.capacity # 0 /\ (t.count + 1) * 4 > t.capacity * 3
  <2>1. /\ Roomy(t) = Rehash(t, t.capacity * 2)
        /\ t.capacity < t.capacity * 2 /\ t.capacity * 2 \in Nat
    BY <1>2, <1>4 DEF Roomy
  <2>2. /\ Sound(Roomy(t)) /\ Roomy(t).capacity = t.capacity * 2
        /\ Roomy(t).count = t.count
        /\ t.count = Cardinality(LiveSlots(Roomy(t)))
        /\ \A k \in Keys : ProbeEnds(Roomy(t), k)
    BY <2>1, GrownEnds
  <2>3. (t.count + 1) * 4 <= (t.capacity * 2) * 3
    BY <1>1, <1>2, <1>4
  <2>4. t.count * 4 <= (t.capacity * 2) * 3
    BY <1>2, <2>3
  <2> QED
    BY <2>2, <2>3, <2>4 DEF Counted, LoadBounded
<1>5. CASE t.capacity # 0 /\ ~((t.count + 1) * 4 > t.capacity * 3)
  BY <1>2, <1>5 DEF Roomy
<1> QED
  BY <1>3, <1>4, <1>5

(* A probe that does not end has met no empty slot: the table is full.     *)
LEMMA HangsFull ==
  ASSUME NEW t, Counted(t), NEW k \in Keys, ~PutEnds(t, k) \/ ~GetEnds(t, k)
  PROVE  Full(t)
<1>1. t.capacity \in Nat /\ IsTable(t)
  BY DEF Counted, Sound, IsTable
<1>2. t.capacity > 0 /\ ~ProbeEnds(t, k)
  BY <1>1, RoomyCounted DEF PutEnds, GetEnds
<1> QED
  BY <1>1, <1>2, EmptyEnds DEF Full

(* One more live slot, and one more counted, where there is room.          *)
LEMMA StoreCounted ==
  ASSUME NEW t, Counted(t), NEW s \in 0 .. t.capacity - 1, NEW x \in Slots,
         x.state = "live", NEW n, NEW u, u = Store(t, s, x, n), Sound(u),
         IF s \in LiveSlots(t) THEN n = t.count
         ELSE n = t.count + 1 /\ (t.count + 1) * 4 <= t.capacity * 3
  PROVE  Counted(u)
<1>1. /\ u.count = n /\ u.capacity = t.capacity
      /\ u.slots = [t.slots EXCEPT ![s] = x]
  BY DEF Store
<1>2. t.slots \in [0 .. t.capacity - 1 -> Slots]
  BY DEF Counted, Sound, IsTable
<1>3. LiveSlots(u) = LiveSlots(t) \cup {s}
  BY <1>1, <1>2 DEF LiveSlots
<1>4. IsFiniteSet(LiveSlots(t))
  BY LiveFinite DEF Counted, Sound
<1>5. Cardinality(LiveSlots(u)) = IF s \in LiveSlots(t) THEN Cardinality(LiveSlots(t))
                                  ELSE Cardinality(LiveSlots(t)) + 1
  BY <1>3, <1>4, FS_AddElement
<1> QED
  BY <1>1, <1>5 DEF Counted, LoadBounded

(* map_put() counts what it adds, and keeps the load below three quarters. *)
THEOREM PutCounted ==
  ASSUME NEW t, Counted(t), NEW k \in Keys, NEW v \in Values, PutEnds(t, k)
  PROVE  Counted(Put(t, k, v))
<1>1. PICK u : u = Roomy(t)
  OBVIOUS
<1>2. /\ Counted(u) /\ Sound(u) /\ ProbeEnds(u, k)
      /\ (u.count + 1) * 4 <= u.capacity * 3
  BY <1>1, RoomyCounted DEF PutEnds, Counted
<1>3. Sound(PutHere(u, k, v)) /\ Put(t, k, v) = PutHere(u, k, v)
  BY <1>1, <1>2, PutHereSound DEF Put
<1>4. Live(k, v) \in Slots /\ Live(k, v).state = "live"
  BY DEF Slots, Live
<1>5. CASE Found(u, k)
  <2>1. PICK s : s = Probe(u, k, Stop(u, k))
    OBVIOUS
  <2>2. s \in LiveSlots(u)
    BY <1>2, <1>5, <2>1, FoundSlot DEF GetEnds
  <2>3. s \in 0 .. u.capacity - 1
    BY <2>2 DEF LiveSlots
  <2>4. PutHere(u, k, v) = Store(u, s, Live(k, v), u.count)
    BY <1>5, <2>1 DEF PutHere
  <2> QED
    BY <1>2, <1>3, <1>4, <2>2, <2>3, <2>4, StoreCounted
<1>6. CASE ~Found(u, k)
  <2>1. PICK s : s = Probe(u, k, FreeAt(u, k))
    OBVIOUS
  <2>2. s \in 0 .. u.capacity - 1 /\ u.slots[s] \in {EMPTY, TOMBSTONE}
    BY <1>2, <1>6, <2>1, FreeSlot
  <2>3. s \notin LiveSlots(u)
    BY <2>2 DEF LiveSlots, EMPTY, TOMBSTONE
  <2>4. PutHere(u, k, v) = Store(u, s, Live(k, v), u.count + 1)
    BY <1>6, <2>1 DEF PutHere
  <2> QED
    BY <1>2, <1>3, <1>4, <2>2, <2>3, <2>4, StoreCounted
<1> QED
  BY <1>5, <1>6

(* map_remove() counts what it takes away.                                 *)
THEOREM DeleteCounted ==
  ASSUME NEW t, Counted(t), NEW k \in Keys, GetEnds(t, k)
  PROVE  Counted(Delete(t, k))
<1>1. Sound(t) /\ Sound(Delete(t, k))
  BY DeleteSound DEF Counted
<1>2. CASE ~Found(t, k)
  BY <1>2 DEF Delete
<1>3. CASE Found(t, k)
  <2>1. PICK s : s = Probe(t, k, Stop(t, k))
    OBVIOUS
  <2>2. PICK u : u = Delete(t, k)
    OBVIOUS
  <2>3. s \in LiveSlots(t)
    BY <1>1, <1>3, <2>1, FoundSlot
  <2>4. /\ u.capacity = t.capacity /\ u.count = t.count - 1
        /\ u.slots = [t.slots EXCEPT ![s] = TOMBSTONE]
    BY <1>3, <2>1, <2>2 DEF Delete, Store
  <2>5. t.slots \in [0 .. t.capacity - 1 -> Slots]
    BY <1>1 DEF Sound, IsTable
  <2>6. LiveSlots(u) = LiveSlots(t) \ {s}
    <3>1. s \in 0 .. t.capacity - 1 /\ TOMBSTONE.state # "live"
      BY <2>3 DEF LiveSlots, TOMBSTONE
    <3>2. /\ u.slots[s] = TOMBSTONE
          /\ \A r \in 0 .. t.capacity - 1 : r # s => u.slots[r] = t.slots[r]
      BY <2>4, <2>5, <3>1
    <3> QED
      BY <2>4, <3>1, <3>2 DEF LiveSlots
  <2>7. /\ IsFiniteSet(LiveSlots(t)) /\ Cardinality(LiveSlots(t)) \in Nat
        /\ t.capacity \in Nat
    BY <1>1, LiveFinite DEF Sound
  <2>8. Cardinality(LiveSlots(u)) = Cardinality(LiveSlots(t)) - 1
    BY <2>3, <2>6, <2>7, FS_RemoveElement
  <2>9. t.count = Cardinality(LiveSlots(t)) /\ t.count * 4 <= t.capacity * 3
    BY DEF Counted, LoadBounded
  <2>10. u.count = Cardinality(LiveSlots(u)) /\ u.count * 4 <= u.capacity * 3
    BY <2>4, <2>7, <2>8, <2>9
  <2> QED
    BY <1>1, <2>2, <2>10 DEF Counted, LoadBounded
<1> QED
  BY <1>2, <1>3

(* In a full table a quarter of the slots are tombstones.                  *)
THEOREM FullOfTombstones ==
  ASSUME NEW t, Counted(t), Full(t)
  PROVE  Cardinality({s \in 0 .. t.capacity - 1 : t.slots[s] = TOMBSTONE}) * 4
           >= t.capacity
<1> DEFINE all == 0 .. t.capacity - 1
           tombs == {s \in all : t.slots[s] = TOMBSTONE}
<1>1. /\ t.capacity \in Nat /\ LiveSlots(t) \in SUBSET all
      /\ IsFiniteSet(all) /\ Cardinality(all) = t.capacity
      /\ IsFiniteSet(LiveSlots(t)) /\ Cardinality(LiveSlots(t)) \in Nat
  BY LiveFinite DEF Counted, Sound
<1>2. t.count = Cardinality(LiveSlots(t)) /\ t.count * 4 <= t.capacity * 3
  BY DEF Counted, LoadBounded
<1>3. tombs = all \ LiveSlots(t)
  <2>1. ASSUME NEW s \in all
        PROVE  t.slots[s] = TOMBSTONE <=> s \notin LiveSlots(t)
    <3>1. /\ t.slots[s] # EMPTY
          /\ t.slots[s].state \in {"empty", "tombstone", "live"}
          /\ t.slots[s].state = "empty" <=> t.slots[s] = EMPTY
          /\ t.slots[s].state = "tombstone" <=> t.slots[s] = TOMBSTONE
      BY SlotCases DEF Counted, Sound, Full
    <3> QED
      BY <3>1 DEF LiveSlots
  <2> QED
    BY <2>1
<1>4. all \cap LiveSlots(t) = LiveSlots(t)
  BY <1>1
<1>5. Cardinality(all \ LiveSlots(t)) = Cardinality(all) - Cardinality(all \cap LiveSlots(t))
  BY <1>1, FS_Difference
<1>6. Cardinality(tombs) = t.capacity - Cardinality(LiveSlots(t))
  BY <1>1, <1>3, <1>4, <1>5
<1> HIDE DEF tombs
<1>7. Cardinality(tombs) * 4 >= t.capacity
  BY <1>1, <1>2, <1>6
<1> QED
  BY <1>7 DEF tombs


-----------------------------------------------------------------------------
(* The fields of struct phonemizer and their types.                        *)

Tracked == SetFields \cup MapFields \cup
  {"dict", "hung", "stress_pos", "word_alt_flags", "compound_prefixes"}

(* A map from words to phonemes.                                           *)
Phonemes(m) == DOMAIN m \subseteq Keys /\ \A w \in DOMAIN m : m[w] \in Values
Stresses(m) == DOMAIN m \subseteq Keys /\ \A w \in DOMAIN m : m[w] \in 1 .. 6

Typed(q) ==
  /\ Tracked \subseteq DOMAIN q
  /\ Counted(q.dict)
  /\ \A f \in SetFields : q[f] \subseteq Keys
  /\ \A f \in MapFields : Phonemes(q[f])
  /\ Stresses(q.stress_pos)
  /\ q.word_alt_flags \in [Keys -> SUBSET (1 .. 6)]
  /\ q.compound_prefixes \in Seq(Keys \X Values)

(* r is q but for some fields.                                             *)
Same(r, q, changed) ==
  /\ DOMAIN r = DOMAIN q
  /\ \A f \in DOMAIN q : f \notin changed => r[f] = q[f]

(* An entry of a line: a flag or phonemes about a word.                    *)
Proper(e) == /\ e.w \in Keys /\ e.ph \in Values \cup Flags
             /\ e.stress \in 0 .. 6

(* No two fields share a name.                                             *)
LEMMA Names ==
  /\ SetFields \cap MapFields = {}
  /\ {"dict", "hung", "stress_pos", "word_alt_flags", "compound_prefixes"}
       \cap (SetFields \cup MapFields) = {}
BY DEF SetFields, MapFields

(* smap_set() and smap_emplace() keep a map a map.                         *)
LEMMA MapKept ==
  ASSUME NEW m, Phonemes(m), NEW w \in Keys, NEW ph \in Values
  PROVE  Phonemes(Set(m, w, ph)) /\ Phonemes(Emplace(m, w, ph))
<1>1. Phonemes(Set(m, w, ph))
  BY DEF Phonemes, Set
<1> QED
  BY <1>1 DEF Emplace

(* Words are added to sets, stresses and variants of a word remembered.    *)
LEMMA SetsTyped ==
  ASSUME NEW q, Typed(q), NEW w \in Keys, NEW r,
         Same(r, q, SetFields \cup {"stress_pos", "word_alt_flags"}),
         \A f \in SetFields : r[f] \subseteq q[f] \cup {w},
         Stresses(r.stress_pos),
         r.word_alt_flags \in [Keys -> SUBSET (1 .. 6)]
  PROVE  Typed(r)
<1>1. Tracked \subseteq DOMAIN r
  BY DEF Typed, Same
<1>2. r.dict = q.dict /\ r.compound_prefixes = q.compound_prefixes
  BY Names DEF Typed, Same, Tracked
<1>3. \A f \in MapFields : r[f] = q[f]
  BY Names DEF Typed, Same, Tracked, MapFields
<1>4. \A f \in SetFields : r[f] \subseteq Keys
  BY DEF Typed
<1> QED
  BY <1>1, <1>2, <1>3, <1>4 DEF Typed

(* What the flags of an entry do at once.                                  *)
LEMMA FlagSetsTyped ==
  ASSUME NEW q, Typed(q), NEW e, Proper(e)
  PROVE  /\ Typed(FlagSets(q, e))
         /\ Same(FlagSets(q, e), q, SetFields \cup {"stress_pos", "word_alt_flags"})
<1> DEFINE r == FlagSets(q, e)
           changed == {"unstressed_words", "u_plus_secondary_words",
                       "unstressend_words", "abbrev_words", "word_alt_flags"}
<1>1. DOMAIN r = DOMAIN q
  BY DEF FlagSets
<1>2. \A f \in DOMAIN q : f \notin changed => r[f] = q[f]
  BY DEF FlagSets
<1>3. \A f \in {"unstressed_words", "u_plus_secondary_words",
                "unstressend_words", "abbrev_words"} :
        f \in DOMAIN q => r[f] \in {q[f], q[f] \cup {e.w}}
  BY DEF FlagSets, AddIf
<1>4. \A f \in SetFields : f \in DOMAIN q
  BY DEF Typed, Tracked
<1>5. \A f \in SetFields : r[f] \subseteq q[f] \cup {e.w}
  BY <1>2, <1>3, <1>4 DEF SetFields
<1>6. r.word_alt_flags =
        [q.word_alt_flags EXCEPT ![e.w] = @ \cup {n \in 1 .. 6 : AsFlag(e, AltFlags[n])}]
  BY DEF FlagSets, Typed, Tracked
<1>7. r.word_alt_flags \in [Keys -> SUBSET (1 .. 6)]
  BY <1>6 DEF Typed
<1>8. r.stress_pos = q.stress_pos
  BY <1>2 DEF Typed, Tracked
<1>9. Same(r, q, SetFields \cup {"stress_pos", "word_alt_flags"})
  BY <1>1, <1>2 DEF Same, SetFields
<1> HIDE DEF r
<1>10. Typed(r)
  BY <1>5, <1>7, <1>8, <1>9, SetsTyped DEF Typed, Proper
<1> QED
  BY <1>9, <1>10 DEF r

(* What the part of speech of an entry does at once.                       *)
LEMMA PosSetsTyped ==
  ASSUME NEW q, Typed(q), NEW e, Proper(e)
  PROVE  /\ Typed(PosSets(q, e))
         /\ Same(PosSets(q, e), q, SetFields \cup {"stress_pos", "word_alt_flags"})
<1> DEFINE r == PosSets(q, e)
           sets == {"pastf_words", "nounf_words", "verbf_words", "noun_form_stress"}
<1>1. DOMAIN r = DOMAIN q
  BY DEF PosSets
<1>2. \A f \in DOMAIN q : f \notin sets \cup {"stress_pos"} => r[f] = q[f]
  BY DEF PosSets
<1>3. \A f \in sets : f \in DOMAIN q => r[f] \in {q[f], q[f] \cup {e.w}}
  BY DEF PosSets, AddIf
<1>4. \A f \in SetFields : f \in DOMAIN q
  BY DEF Typed, Tracked
<1>5. \A f \in SetFields : r[f] \subseteq q[f] \cup {e.w}
  BY <1>2, <1>3, <1>4 DEF SetFields
<1>6. \/ r.stress_pos = q.stress_pos
      \/ e.stress > 0 /\ r.stress_pos = Emplace(q.stress_pos, e.w, e.stress)
  BY DEF PosSets, Typed, Tracked
<1>7. Stresses(r.stress_pos)
  <2>1. e.stress > 0 => e.stress \in 1 .. 6
    BY DEF Proper
  <2> QED
    BY <1>6, <2>1 DEF Typed, Stresses, Emplace, Set, Proper
<1>8. r.word_alt_flags = q.word_alt_flags
  BY <1>2 DEF Typed, Tracked
<1>9. Same(r, q, SetFields \cup {"stress_pos", "word_alt_flags"})
  BY <1>1, <1>2 DEF Same, SetFields
<1> HIDE DEF r
<1>10. Typed(r)
  BY <1>5, <1>7, <1>8, <1>9, SetsTyped DEF Typed, Proper
<1> QED
  BY <1>9, <1>10 DEF r

-----------------------------------------------------------------------------
(* What an entry does, by what the lines say of it.                        *)

Puts(t, e) == \/ "overwrites" \in Does(e)
              \/ "yields" \in Does(e) /\ Get(t, e.w) = NULL
Hangs(t, e) == \/ {"retracts", "yields"} \cap Does(e) # {} /\ ~GetEnds(t, e.w)
               \/ Puts(t, e) /\ ~PutEnds(t, e.w)
NewDict(t, e) == IF "retracts" \in Does(e) THEN Delete(t, e.w)
                 ELSE IF Puts(t, e) THEN Put(t, e.w, e.ph) ELSE t

First(m, e, what) == IF what \in Does(e) THEN Emplace(m, e.w, e.ph) ELSE m

Outcome(r, q, e) ==
  /\ Typed(r)
  /\ Hangs(q.dict, e) => r.hung = TRUE
  /\ ~Hangs(q.dict, e) =>
       /\ r.hung = FALSE
       /\ r.dict = NewDict(q.dict, e)
       /\ r.onlys_bare_dict = IF "yields" \in Does(e) /\ ~Puts(q.dict, e)
                              THEN Set(q.onlys_bare_dict, e.w, e.ph)
                              ELSE q.onlys_bare_dict
       /\ r.noun_dict = First(q.noun_dict, e, "noun")
       /\ r.verb_dict = First(q.verb_dict, e, "verb")
       /\ r.past_dict = First(q.past_dict, e, "past")
       /\ r.compound_prefixes = IF "prefix" \in Does(e)
                                THEN Append(q.compound_prefixes, <<e.w, e.ph>>)
                                ELSE q.compound_prefixes

(* A flag in the phonemes column goes before everything else.              *)
LEMMA FlagRoute ==
  ASSUME NEW e, IsFlag(e.ph)
  PROVE  Route(e) = "flag"
<1> DEFINE fits == {i \in 1 .. 9 : Routes(e)[i].fits}
<1>1. Routes(e)[1] = [to |-> "flag", fits |-> TRUE]
  BY DEF Routes
<1>2. 1 \in fits
  BY <1>1
<1>3. \A i \in fits : 1 <= i
  OBVIOUS
<1>4. Min(fits) = 1
  BY <1>2, <1>3 DEF Min
<1> QED
  BY <1>1, <1>4 DEF Route

(* The deeds of an entry are those of its route.                           *)
LEMMA DeedsOfRoute ==
  ASSUME NEW e
  PROVE  /\ "retracts" \in Does(e) <=> Retracts(e)
         /\ "overwrites" \in Does(e) <=> \/ Route(e) = "plain"
                                         \/ Route(e) = "onlys" /\ e.cond # 0
         /\ "yields" \in Does(e) <=> Route(e) = "onlys" /\ e.cond = 0
         /\ "prefix" \in Does(e) <=> Route(e) = "plain" /\ Compound(e)
         /\ "noun" \in Does(e) <=> Route(e) = "noun"
         /\ "verb" \in Does(e) <=> Route(e) = "verb"
         /\ "past" \in Does(e) <=> Route(e) = "past"
         /\ Does(e) \subseteq Deeds
         /\ Retracts(e) => Route(e) = "flag"
<1>1. Retracts(e) => IsFlag(e.ph)
  BY DEF Retracts, IsFlag, Flags
<1> QED
  BY <1>1, FlagRoute DEF Does, Deeds

(* Where phonemes are stored there are phonemes, not a flag.               *)
LEMMA NoFlagStored ==
  ASSUME NEW e, Proper(e), Route(e) # "flag"
  PROVE  e.ph \in Values /\ "retracts" \notin Does(e)
<1>1. e.ph \in Values
  BY FlagRoute DEF Proper, IsFlag
<1> QED
  BY <1>1, DeedsOfRoute

(* Only the table and the mark of a hang change.                           *)
LEMMA TableTyped ==
  ASSUME NEW q, Typed(q), NEW r, Same(r, q, {"dict", "hung"}), Counted(r.dict)
  PROVE  Typed(r)
<1>1. \A f \in Tracked : f \in DOMAIN q /\ f \in DOMAIN r
  BY DEF Typed, Same
<1>2. \A f \in Tracked : f \notin {"dict", "hung"} => r[f] = q[f]
  BY <1>1 DEF Same
<1>3. \A f \in SetFields \cup MapFields : r[f] = q[f]
  BY <1>2, Names DEF Tracked
<1>4. /\ r.stress_pos = q.stress_pos /\ r.word_alt_flags = q.word_alt_flags
      /\ r.compound_prefixes = q.compound_prefixes
  BY <1>2 DEF Tracked
<1> QED
  BY <1>1, <1>3, <1>4 DEF Typed

(* A set of words grows by the word of the entry.                          *)
LEMMA WordTyped ==
  ASSUME NEW q, Typed(q), NEW w \in Keys, NEW changed, changed \subseteq SetFields,
         NEW r, Same(r, q, changed), \A f \in changed : r[f] \subseteq q[f] \cup {w}
  PROVE  Typed(r)
<1>1. Same(r, q, SetFields \cup {"stress_pos", "word_alt_flags"})
  BY DEF Same
<1>2. \A f \in SetFields : r[f] \subseteq q[f] \cup {w}
  BY DEF Same, Typed, Tracked
<1>3. r.stress_pos = q.stress_pos /\ r.word_alt_flags = q.word_alt_flags
  BY Names DEF Same, Typed, Tracked
<1> QED
  BY <1>1, <1>2, <1>3, SetsTyped DEF Typed

(* smap_set() on the dictionary.                                           *)
LEMMA SetDictDone ==
  ASSUME NEW q, Typed(q), q.hung = FALSE, NEW w \in Keys, NEW ph \in Values,
         NEW r, r = SetDict(q, w, ph)
  PROVE  /\ Typed(r) /\ Same(r, q, {"dict", "hung"})
         /\ PutEnds(q.dict, w) => r.dict = Put(q.dict, w, ph) /\ r.hung = FALSE
         /\ ~PutEnds(q.dict, w) => r.hung = TRUE
<1>1. "dict" \in DOMAIN q /\ "hung" \in DOMAIN q /\ Counted(q.dict)
  BY DEF Typed, Tracked
<1>2. Same(r, q, {"dict", "hung"})
  BY DEF SetDict, Same
<1>3. CASE PutEnds(q.dict, w)
  <2>1. r.dict = Put(q.dict, w, ph) /\ r.hung = FALSE
    BY <1>1, <1>3 DEF SetDict
  <2>2. Counted(r.dict)
    BY <1>1, <1>3, <2>1, PutCounted
  <2> QED
    BY <1>2, <1>3, <2>1, <2>2, TableTyped
<1>4. CASE ~PutEnds(q.dict, w)
  <2>1. r.dict = q.dict /\ r.hung = TRUE
    BY <1>1, <1>4 DEF SetDict
  <2> QED
    BY <1>1, <1>2, <1>4, <2>1, TableTyped
<1> QED
  BY <1>3, <1>4

(* smap_erase() on the dictionary.                                         *)
LEMMA EraseDictDone ==
  ASSUME NEW q, Typed(q), q.hung = FALSE, NEW w \in Keys,
         NEW r, r = EraseDict(q, w)
  PROVE  /\ Typed(r) /\ Same(r, q, {"dict", "hung"})
         /\ GetEnds(q.dict, w) => r.dict = Delete(q.dict, w) /\ r.hung = FALSE
         /\ ~GetEnds(q.dict, w) => r.hung = TRUE
<1>1. "dict" \in DOMAIN q /\ "hung" \in DOMAIN q /\ Counted(q.dict)
  BY DEF Typed, Tracked
<1>2. Same(r, q, {"dict", "hung"})
  BY DEF EraseDict, Same
<1>3. CASE GetEnds(q.dict, w)
  <2>1. r.dict = Delete(q.dict, w) /\ r.hung = FALSE
    BY <1>1, <1>3 DEF EraseDict
  <2>2. Counted(r.dict)
    BY <1>1, <1>3, <2>1, DeleteCounted
  <2> QED
    BY <1>2, <1>3, <2>1, <2>2, TableTyped
<1>4. CASE ~GetEnds(q.dict, w)
  <2>1. r.dict = q.dict /\ r.hung = TRUE
    BY <1>1, <1>4 DEF EraseDict
  <2> QED
    BY <1>1, <1>2, <1>4, <2>1, TableTyped
<1> QED
  BY <1>3, <1>4

(* A map is replaced by one of the same type.                              *)
LEMMA MapTyped ==
  ASSUME NEW q, Typed(q), NEW f \in MapFields, NEW m, Phonemes(m),
         NEW r, Same(r, q, {f}), r[f] = m
  PROVE  Typed(r)
<1>1. \A g \in Tracked : g \in DOMAIN q /\ g \in DOMAIN r
  BY DEF Typed, Same
<1>2. \A g \in Tracked : g # f => r[g] = q[g]
  BY <1>1 DEF Same
<1>3. \A g \in SetFields \cup {"dict", "hung", "stress_pos", "word_alt_flags",
                               "compound_prefixes"} : g \in Tracked /\ g # f
  BY Names DEF Tracked
<1>4. \A g \in SetFields : r[g] = q[g]
  BY <1>2, <1>3
<1>5. /\ r.dict = q.dict /\ r.stress_pos = q.stress_pos
      /\ r.word_alt_flags = q.word_alt_flags
      /\ r.compound_prefixes = q.compound_prefixes
  BY <1>2, <1>3
<1>6. \A g \in MapFields : Phonemes(r[g])
  <2> SUFFICES ASSUME NEW g \in MapFields PROVE Phonemes(r[g])
    OBVIOUS
  <2>1. g \in Tracked
    BY DEF Tracked
  <2> QED
    BY <1>2, <2>1 DEF Typed
<1> QED
  BY <1>1, <1>4, <1>5, <1>6 DEF Typed

(* The fields an outcome is about.                                         *)
Kept(r, q, but) ==
  \A f \in {"dict", "hung", "onlys_bare_dict", "noun_dict", "verb_dict",
            "past_dict", "compound_prefixes"} : f \notin but => r[f] = q[f]

(* What is the same but for some fields is so for these.                   *)
LEMMA SameKept ==
  ASSUME NEW q, Typed(q), NEW r, NEW changed, Same(r, q, changed)
  PROVE  Kept(r, q, changed)
<1>1. {"dict", "hung", "onlys_bare_dict", "noun_dict", "verb_dict",
       "past_dict", "compound_prefixes"} \subseteq DOMAIN q
  BY DEF Typed, Tracked, MapFields
<1> QED
  BY <1>1 DEF Same, Kept

(* An entry of flags alone retracts its word or stores nothing.            *)
LEMMA FlagOnlyOutcome ==
  ASSUME NEW q, Typed(q), q.hung = FALSE, NEW e, Proper(e), Route(e) = "flag"
  PROVE  Outcome(FlagOnlyEntry(q, e), q, e)
<1>1. PICK r : r = IF Retracts(e) THEN EraseDict(q, e.w) ELSE q
  OBVIOUS
<1>2. PICK s : s = FlagOnlyEntry(q, e)
  OBVIOUS
<1>3. Typed(r) /\ Same(r, q, {"dict", "hung"})
  <2>1. e.w \in Keys /\ Same(q, q, {"dict", "hung"})
    BY DEF Proper, Same
  <2>2. Retracts(e) => r = EraseDict(q, e.w)
    BY <1>1
  <2>3. ~Retracts(e) => r = q
    BY <1>1
  <2> QED
    BY <2>1, <2>2, <2>3, EraseDictDone
<1>4. s = [r EXCEPT !.verb_flag_words = AddIf(Verb(e), @, e.w)]
  BY <1>1, <1>2 DEF FlagOnlyEntry
<1>5. Same(s, r, {"verb_flag_words"})
  BY <1>4 DEF Same
<1>6. s.verb_flag_words \subseteq r.verb_flag_words \cup {e.w}
  <2>1. "verb_flag_words" \in DOMAIN r
    BY <1>3 DEF Typed, Tracked, SetFields
  <2> QED
    BY <1>4, <2>1 DEF AddIf
<1>7. Typed(s)
  <2>1. {"verb_flag_words"} \subseteq SetFields
    BY DEF SetFields
  <2> QED
    BY <1>3, <1>5, <1>6, <2>1, WordTyped DEF Proper
<1>8. Kept(s, r, {"verb_flag_words"}) /\ Kept(r, q, {"dict", "hung"})
  BY <1>3, <1>5, SameKept
<1>9. /\ s.onlys_bare_dict = q.onlys_bare_dict
      /\ s.noun_dict = q.noun_dict /\ s.verb_dict = q.verb_dict
      /\ s.past_dict = q.past_dict /\ s.compound_prefixes = q.compound_prefixes
      /\ s.dict = r.dict /\ s.hung = r.hung
  BY <1>8 DEF Kept
<1>10. Does(e) \subseteq {"retracts"} /\ ("retracts" \in Does(e) <=> Retracts(e))
  BY DeedsOfRoute DEF Deeds
<1>11. CASE Retracts(e)
  <2>1. /\ GetEnds(q.dict, e.w) => r.dict = Delete(q.dict, e.w) /\ r.hung = FALSE
        /\ ~GetEnds(q.dict, e.w) => r.hung = TRUE
    BY <1>1, <1>11, EraseDictDone DEF Proper
  <2> QED
    BY <1>2, <1>7, <1>9, <1>10, <1>11, <2>1
      DEF Outcome, Hangs, Puts, NewDict, First
<1>12. CASE ~Retracts(e)
  <2>1. r = q
    BY <1>1, <1>12
  <2> QED
    BY <1>2, <1>7, <1>9, <1>10, <1>12, <2>1
      DEF Outcome, Hangs, Puts, NewDict, First
<1> QED
  BY <1>11, <1>12

(* A plain entry is put.                                                   *)
LEMMA PlainOutcome ==
  ASSUME NEW q, Typed(q), q.hung = FALSE, NEW e, Proper(e), Route(e) = "plain"
  PROVE  Outcome(PlainEntry(q, e), q, e)
<1>1. PICK r : r = SetDict(q, e.w, e.ph)
  OBVIOUS
<1>2. PICK s : s = PlainEntry(q, e)
  OBVIOUS
<1>3. e.w \in Keys /\ e.ph \in Values /\ "retracts" \notin Does(e)
  BY NoFlagStored DEF Proper
<1>4. /\ Typed(r) /\ Same(r, q, {"dict", "hung"})
      /\ PutEnds(q.dict, e.w) => r.dict = Put(q.dict, e.w, e.ph) /\ r.hung = FALSE
      /\ ~PutEnds(q.dict, e.w) => r.hung = TRUE
  <2>1. PICK w \in Keys, ph \in Values : w = e.w /\ ph = e.ph
    BY <1>3
  <2>2. r = SetDict(q, w, ph)
    BY <1>1, <2>1
  <2>3. /\ Typed(r) /\ Same(r, q, {"dict", "hung"})
        /\ PutEnds(q.dict, w) => r.dict = Put(q.dict, w, ph) /\ r.hung = FALSE
        /\ ~PutEnds(q.dict, w) => r.hung = TRUE
    BY <2>2, SetDictDone
  <2> QED
    BY <2>1, <2>3
<1> DEFINE sets == {"only_words", "strend_words", "comma_strend2_words", "u2_strend2_words"}
           prefixes == IF Compound(e) THEN Append(r.compound_prefixes, <<e.w, e.ph>>)
                       ELSE r.compound_prefixes
<1>5. Same(s, r, sets \cup {"compound_prefixes"})
  BY <1>1, <1>2 DEF PlainEntry, Same
<1>6. \A f \in sets : f \in DOMAIN r => s[f] \subseteq r[f] \cup {e.w}
  BY <1>1, <1>2 DEF PlainEntry, AddIf
<1>7. s.compound_prefixes = prefixes
  <2>1. "compound_prefixes" \in DOMAIN r
    BY <1>4 DEF Typed, Tracked
  <2> QED
    BY <1>1, <1>2, <2>1 DEF PlainEntry
<1>8. PICK t : t = [s EXCEPT !.compound_prefixes = r.compound_prefixes]
  OBVIOUS
<1>9. Same(t, r, sets) /\ Same(s, t, {"compound_prefixes"})
  <2>1. "compound_prefixes" \in DOMAIN r /\ "compound_prefixes" \notin sets
    BY <1>4 DEF Typed, Tracked
  <2> QED
    BY <1>5, <1>8, <2>1 DEF Same
<1>10. sets \subseteq SetFields /\ sets \subseteq DOMAIN r
  BY <1>4 DEF SetFields, Typed, Tracked
<1>11. \A f \in sets : t[f] \subseteq r[f] \cup {e.w}
  <2>1. \A f \in sets : f \in DOMAIN s /\ f # "compound_prefixes"
    BY <1>5, <1>10 DEF Same
  <2> QED
    BY <1>6, <1>8, <1>10, <2>1
<1>12. Typed(t)
  <2> HIDE DEF sets
  <2> QED
    BY <1>3, <1>4, <1>9, <1>10, <1>11, WordTyped
<1>13. prefixes \in Seq(Keys \X Values)
  BY <1>3, <1>4 DEF Typed
<1>14. Typed(s)
  <2>1. \A f \in Tracked : f \in DOMAIN t /\ f \in DOMAIN s
    BY <1>9, <1>12 DEF Typed, Same
  <2>2. \A f \in Tracked : f # "compound_prefixes" => s[f] = t[f]
    BY <1>9, <2>1 DEF Same
  <2>3. \A f \in SetFields \cup MapFields : s[f] = t[f]
    BY <2>2, Names DEF Tracked
  <2>4. /\ s.dict = t.dict /\ s.stress_pos = t.stress_pos
        /\ s.word_alt_flags = t.word_alt_flags
    BY <2>2 DEF Tracked
  <2> QED
    BY <1>7, <1>12, <1>13, <2>1, <2>3, <2>4 DEF Typed
<1>15. Kept(s, r, sets \cup {"compound_prefixes"}) /\ Kept(r, q, {"dict", "hung"})
  BY <1>4, <1>5, SameKept
<1>16. /\ s.onlys_bare_dict = q.onlys_bare_dict
       /\ s.noun_dict = q.noun_dict /\ s.verb_dict = q.verb_dict
       /\ s.past_dict = q.past_dict /\ r.compound_prefixes = q.compound_prefixes
       /\ s.dict = r.dict /\ s.hung = r.hung
  BY <1>15 DEF Kept
<1>17. /\ Does(e) \subseteq {"overwrites", "prefix"} /\ "overwrites" \in Does(e)
       /\ "prefix" \in Does(e) <=> Compound(e)
  BY <1>3, DeedsOfRoute DEF Deeds
<1> QED
  BY <1>2, <1>4, <1>7, <1>14, <1>16, <1>17
    DEF Outcome, Hangs, Puts, NewDict, First

(* An $onlys entry that is put.                                            *)
LEMMA OnlysPut ==
  ASSUME NEW q, Typed(q), q.hung = FALSE, NEW e, Proper(e), Route(e) = "onlys",
         NEW s, s = [SetDict(q, e.w, e.ph) EXCEPT !.onlys_words = @ \cup {e.w}],
         Puts(q.dict, e), "yields" \in Does(e) => GetEnds(q.dict, e.w)
  PROVE  Outcome(s, q, e)
<1>1. PICK w \in Keys, ph \in Values : w = e.w /\ ph = e.ph
  BY NoFlagStored DEF Proper
<1>2. PICK r : r = SetDict(q, w, ph)
  OBVIOUS
<1>3. /\ Typed(r) /\ Same(r, q, {"dict", "hung"})
      /\ PutEnds(q.dict, w) => r.dict = Put(q.dict, w, ph) /\ r.hung = FALSE
      /\ ~PutEnds(q.dict, w) => r.hung = TRUE
  BY <1>2, SetDictDone
<1>4. s = [r EXCEPT !.onlys_words = @ \cup {w}]
  BY <1>1, <1>2
<1>5. Same(s, r, {"onlys_words"})
  BY <1>4 DEF Same
<1>6. s.onlys_words \subseteq r.onlys_words \cup {w}
  <2>1. "onlys_words" \in DOMAIN r
    BY <1>3 DEF Typed, Tracked, SetFields
  <2> QED
    BY <1>4, <2>1
<1>7. Typed(s)
  <2>1. PICK sets : sets = {"onlys_words"}
    OBVIOUS
  <2>2. sets \subseteq SetFields
    BY <2>1 DEF SetFields
  <2>3. Same(s, r, sets) /\ \A f \in sets : s[f] \subseteq r[f] \cup {w}
    BY <1>5, <1>6, <2>1
  <2>4. Typed(r) /\ w \in Keys
    BY <1>1, <1>3
  <2> QED
    BY <2>2, <2>3, <2>4, WordTyped
<1>8. Kept(s, r, {"onlys_words"}) /\ Kept(r, q, {"dict", "hung"})
  BY <1>3, <1>5, SameKept
<1>9. /\ s.onlys_bare_dict = q.onlys_bare_dict
      /\ s.noun_dict = q.noun_dict /\ s.verb_dict = q.verb_dict
      /\ s.past_dict = q.past_dict /\ s.compound_prefixes = q.compound_prefixes
      /\ s.dict = r.dict /\ s.hung = r.hung
  BY <1>8 DEF Kept
<1>10. Does(e) \subseteq {"overwrites", "yields"}
  BY DeedsOfRoute, NoFlagStored DEF Deeds
<1> QED
  BY <1>1, <1>3, <1>7, <1>9, <1>10 DEF Outcome, Hangs, NewDict, First

(* An $onlys entry without a dialect yields to what is there.              *)
LEMMA OnlysOutcome ==
  ASSUME NEW q, Typed(q), q.hung = FALSE, NEW e, Proper(e), Route(e) = "onlys"
  PROVE  Outcome(OnlysEntry(q, e), q, e)
<1>1. PICK s : s = OnlysEntry(q, e)
  OBVIOUS
<1>2. PICK put : put = [SetDict(q, e.w, e.ph) EXCEPT !.onlys_words = @ \cup {e.w}]
  OBVIOUS
<1>3. /\ Does(e) \subseteq {"overwrites", "yields"}
      /\ "overwrites" \in Does(e) <=> e.cond # 0
      /\ "yields" \in Does(e) <=> e.cond = 0
  BY DeedsOfRoute, NoFlagStored DEF Deeds
<1>4. CASE e.cond # 0
  <2>1. s = put /\ Puts(q.dict, e) /\ "yields" \notin Does(e)
    BY <1>1, <1>2, <1>3, <1>4 DEF OnlysEntry, Puts
  <2> QED
    BY <1>1, <1>2, <2>1, OnlysPut
<1>5. CASE e.cond = 0 /\ ~GetEnds(q.dict, e.w)
  <2>1. s = [q EXCEPT !.hung = TRUE]
    BY <1>1, <1>5 DEF OnlysEntry
  <2>2. "hung" \in DOMAIN q /\ "dict" \in DOMAIN q
    BY DEF Typed, Tracked
  <2>3. Same(s, q, {"dict", "hung"}) /\ s.dict = q.dict /\ s.hung = TRUE
    BY <2>1, <2>2 DEF Same
  <2>4. Typed(s)
    BY <2>3, TableTyped DEF Typed
  <2>5. Hangs(q.dict, e)
    BY <1>3, <1>5 DEF Hangs
  <2> QED
    BY <1>1, <2>3, <2>4, <2>5 DEF Outcome
<1>6. CASE e.cond = 0 /\ GetEnds(q.dict, e.w) /\ Get(q.dict, e.w) = NULL
  <2>1. s = put /\ Puts(q.dict, e)
    BY <1>1, <1>2, <1>3, <1>6 DEF OnlysEntry, Puts
  <2> QED
    BY <1>1, <1>2, <1>6, <2>1, OnlysPut
<1>7. CASE e.cond = 0 /\ GetEnds(q.dict, e.w) /\ Get(q.dict, e.w) # NULL
  <2>1. s = [q EXCEPT !.onlys_bare_dict = Set(@, e.w, e.ph)]
    BY <1>1, <1>7 DEF OnlysEntry
  <2>2. "onlys_bare_dict" \in DOMAIN q /\ "onlys_bare_dict" \in MapFields
    BY DEF Typed, Tracked, MapFields
  <2>3. /\ Same(s, q, {"onlys_bare_dict"})
        /\ s.onlys_bare_dict = Set(q.onlys_bare_dict, e.w, e.ph)
    BY <2>1, <2>2 DEF Same
  <2>4. Phonemes(q.onlys_bare_dict) /\ e.w \in Keys /\ e.ph \in Values
    BY <2>2, NoFlagStored DEF Typed, Proper
  <2>5. Phonemes(s.onlys_bare_dict)
    BY <2>3, <2>4, MapKept
  <2>6. Typed(s)
    BY <2>2, <2>3, <2>5, MapTyped
  <2>7. Kept(s, q, {"onlys_bare_dict"})
    BY <2>3, SameKept
  <2>8. /\ s.dict = q.dict /\ s.hung = FALSE
        /\ s.noun_dict = q.noun_dict /\ s.verb_dict = q.verb_dict
        /\ s.past_dict = q.past_dict /\ s.compound_prefixes = q.compound_prefixes
    BY <2>7 DEF Kept
  <2>9. ~Puts(q.dict, e) /\ ~Hangs(q.dict, e)
    BY <1>3, <1>7 DEF Puts, Hangs
  <2> QED
    BY <1>1, <1>3, <1>7, <2>3, <2>6, <2>8, <2>9 DEF Outcome, NewDict, First
<1> QED
  BY <1>4, <1>5, <1>6, <1>7

(* The other routes lead to a map of their own.                            *)
LEMMA MapOutcome ==
  ASSUME NEW q, Typed(q), q.hung = FALSE, NEW e, Proper(e),
         Route(e) \notin {"flag", "onlys", "plain"},
         NEW f \in MapFields \ {"onlys_bare_dict"},
         NEW s, Same(s, q, {f}),
         s[f] \in {q[f], Set(q[f], e.w, e.ph), Emplace(q[f], e.w, e.ph)},
         s.noun_dict = First(q.noun_dict, e, "noun"),
         s.verb_dict = First(q.verb_dict, e, "verb"),
         s.past_dict = First(q.past_dict, e, "past")
  PROVE  Outcome(s, q, e)
<1>1. Phonemes(q[f]) /\ e.w \in Keys /\ e.ph \in Values
  BY NoFlagStored DEF Typed, Proper
<1>2. Phonemes(s[f])
  BY <1>1, MapKept
<1>3. Typed(s)
  BY <1>2, MapTyped
<1>4. Kept(s, q, {f}) /\ f \notin {"dict", "hung", "onlys_bare_dict", "compound_prefixes"}
  BY SameKept, Names
<1>5. /\ s.dict = q.dict /\ s.hung = FALSE
      /\ s.onlys_bare_dict = q.onlys_bare_dict
      /\ s.compound_prefixes = q.compound_prefixes
  BY <1>4 DEF Kept
<1>6. Does(e) \cap {"retracts", "overwrites", "yields", "prefix"} = {}
  BY DeedsOfRoute, NoFlagStored
<1>7. ~Puts(q.dict, e) /\ ~Hangs(q.dict, e)
  BY <1>6 DEF Puts, Hangs
<1> QED
  BY <1>3, <1>5, <1>6, <1>7 DEF Outcome, NewDict

(* An entry takes one of the nine routes.                                  *)
LEMMA RouteKnown ==
  ASSUME NEW e
  PROVE  Route(e) \in {"flag", "noun", "verb", "atend", "capital", "atstart",
                       "past", "onlys", "plain"}
<1> DEFINE fits == {i \in 1 .. 9 : Routes(e)[i].fits}
<1>1. Routes(e)[9] = [to |-> "plain", fits |-> TRUE]
  BY DEF Routes
<1>2. fits \subseteq Nat /\ 9 \in fits
  BY <1>1
<1>3. PICK i \in 1 .. 9 : i = Min(fits)
  <2> HIDE DEF fits
  <2>1. Min(fits) \in fits
    BY <1>2, MinFound
  <2> QED
    BY <2>1 DEF fits
<1>4. Route(e) = Routes(e)[i].to
  BY <1>3 DEF Route
<1> QED
  BY <1>4 DEF Routes

(* The route of an entry brings about what its line says.                  *)
LEMMA RoutedOutcome ==
  ASSUME NEW q, Typed(q), NEW r, Typed(r), NEW e, Proper(e),
         r = PosSets(FlagSets(q, e), e), r.hung = FALSE
  PROVE  Outcome(StoreEntry(q, e), r, e)
<1>1. PICK s : s = StoreEntry(q, e)
  OBVIOUS
<1>2. CASE Route(e) = "flag"
  BY <1>2, FlagOnlyOutcome DEF StoreEntry
<1>3. CASE Route(e) = "onlys"
  BY <1>3, OnlysOutcome DEF StoreEntry
<1>4. CASE Route(e) = "plain"
  BY <1>4, PlainOutcome DEF StoreEntry
<1>5. ASSUME Route(e) \notin {"flag", "onlys", "plain"}
      PROVE  Outcome(s, r, e)
  <2>1. /\ {"noun_dict", "verb_dict", "past_dict", "atend_dict", "capital_dict",
            "atstart_dict"} \subseteq MapFields \ {"onlys_bare_dict"}
        /\ {"noun_dict", "verb_dict", "past_dict", "atend_dict", "capital_dict",
            "atstart_dict"} \subseteq DOMAIN r
    BY DEF MapFields, Typed, Tracked
  <2>2. /\ "noun" \in Does(e) <=> Route(e) = "noun"
        /\ "verb" \in Does(e) <=> Route(e) = "verb"
        /\ "past" \in Does(e) <=> Route(e) = "past"
    BY DeedsOfRoute
  <2>3. CASE Route(e) = "noun"
    <3>1. s = [r EXCEPT !.noun_dict = Emplace(@, e.w, e.ph)]
      BY <1>1, <2>3 DEF StoreEntry
    <3>2. /\ Same(s, r, {"noun_dict"})
          /\ s.noun_dict = Emplace(r.noun_dict, e.w, e.ph)
          /\ s.verb_dict = r.verb_dict /\ s.past_dict = r.past_dict
      BY <2>1, <3>1 DEF Same
    <3> QED
      BY <1>5, <2>1, <2>2, <2>3, <3>2, MapOutcome DEF First
  <2>4. CASE Route(e) = "verb"
    <3>1. s = [r EXCEPT !.verb_dict = Emplace(@, e.w, e.ph)]
      BY <1>1, <2>4 DEF StoreEntry
    <3>2. /\ Same(s, r, {"verb_dict"})
          /\ s.verb_dict = Emplace(r.verb_dict, e.w, e.ph)
          /\ s.noun_dict = r.noun_dict /\ s.past_dict = r.past_dict
      BY <2>1, <3>1 DEF Same
    <3> QED
      BY <1>5, <2>1, <2>2, <2>4, <3>2, MapOutcome DEF First
  <2>5. CASE Route(e) = "past"
    <3>1. s = [r EXCEPT !.past_dict = Emplace(@, e.w, e.ph)]
      BY <1>1, <2>5 DEF StoreEntry
    <3>2. /\ Same(s, r, {"past_dict"})
          /\ s.past_dict = Emplace(r.past_dict, e.w, e.ph)
          /\ s.noun_dict = r.noun_dict /\ s.verb_dict = r.verb_dict
      BY <2>1, <3>1 DEF Same
    <3> QED
      BY <1>5, <2>1, <2>2, <2>5, <3>2, MapOutcome DEF First
  <2>6. CASE Route(e) = "atend"
    <3>1. s = r \/ s = [r EXCEPT !.atend_dict = Set(@, e.w, e.ph)]
      BY <1>1, <2>6 DEF StoreEntry
    <3>2. /\ Same(s, r, {"atend_dict"})
          /\ s.atend_dict \in {r.atend_dict, Set(r.atend_dict, e.w, e.ph)}
          /\ s.noun_dict = r.noun_dict /\ s.verb_dict = r.verb_dict
          /\ s.past_dict = r.past_dict
      BY <2>1, <3>1 DEF Same
    <3> QED
      BY <1>5, <2>1, <2>2, <2>6, <3>2, MapOutcome DEF First
  <2>7. CASE Route(e) = "capital"
    <3>1. s = [r EXCEPT !.capital_dict = Set(@, e.w, e.ph)]
      BY <1>1, <2>7 DEF StoreEntry
    <3>2. /\ Same(s, r, {"capital_dict"})
          /\ s.capital_dict = Set(r.capital_dict, e.w, e.ph)
          /\ s.noun_dict = r.noun_dict /\ s.verb_dict = r.verb_dict
          /\ s.past_dict = r.past_dict
      BY <2>1, <3>1 DEF Same
    <3> QED
      BY <1>5, <2>1, <2>2, <2>7, <3>2, MapOutcome DEF First
  <2>8. CASE Route(e) = "atstart"
    <3>1. s = [r EXCEPT !.atstart_dict = Set(@, e.w, e.ph)]
      BY <1>1, <2>8 DEF StoreEntry
    <3>2. /\ Same(s, r, {"atstart_dict"})
          /\ s.atstart_dict = Set(r.atstart_dict, e.w, e.ph)
          /\ s.noun_dict = r.noun_dict /\ s.verb_dict = r.verb_dict
          /\ s.past_dict = r.past_dict
      BY <2>1, <3>1 DEF Same
    <3> QED
      BY <1>5, <2>1, <2>2, <2>8, <3>2, MapOutcome DEF First
  <2> QED
    BY <1>5, <2>3, <2>4, <2>5, <2>6, <2>7, <2>8, RouteKnown
<1> QED
  BY <1>1, <1>2, <1>3, <1>4, <1>5

(* An entry stored has done what its line says, no more and no less.       *)
LEMMA EntryOutcome ==
  ASSUME NEW q, Typed(q), q.hung = FALSE, NEW e, Proper(e)
  PROVE  Outcome(StoreEntry(q, e), q, e)
<1>1. PICK m : m = FlagSets(q, e)
  OBVIOUS
<1>2. PICK r : r = PosSets(m, e)
  OBVIOUS
<1> DEFINE aside == SetFields \cup {"stress_pos", "word_alt_flags"}
<1>3. Typed(m) /\ Same(m, q, aside)
  BY <1>1, FlagSetsTyped
<1>4. Typed(r) /\ Same(r, m, aside)
  BY <1>2, <1>3, PosSetsTyped
<1>5. Kept(m, q, aside) /\ Kept(r, m, aside)
  <2> HIDE DEF aside
  <2> QED
    BY <1>3, <1>4, SameKept
<1>6. aside \cap {"dict", "hung", "onlys_bare_dict", "noun_dict", "verb_dict",
                  "past_dict", "compound_prefixes"} = {}
  BY DEF SetFields
<1>7. /\ r.dict = q.dict /\ r.hung = FALSE
      /\ r.onlys_bare_dict = q.onlys_bare_dict
      /\ r.noun_dict = q.noun_dict /\ r.verb_dict = q.verb_dict
      /\ r.past_dict = q.past_dict /\ r.compound_prefixes = q.compound_prefixes
  <2> HIDE DEF aside
  <2> QED
    BY <1>5, <1>6 DEF Kept
<1>8. Outcome(StoreEntry(q, e), r, e)
  BY <1>1, <1>2, <1>4, <1>7, RoutedOutcome
<1> QED
  BY <1>7, <1>8 DEF Outcome

-----------------------------------------------------------------------------
(* What the lines say, line by line.                                       *)

(* The first stress flag of an entry is one of the six.                    *)
LEMMA StressTyped ==
  ASSUME NEW fields \in Seq(STRING)
  PROVE  StressN(fields) \in 0 .. 6
<1> DEFINE is == {i \in DOMAIN fields : fields[i] \in ToSet(StressFlags)}
<1>1. CASE is = {}
  BY <1>1 DEF StressN
<1>2. CASE is # {}
  <2>1. is \subseteq Nat
    OBVIOUS
  <2> HIDE DEF is
  <2>2. Min(is) \in is
    BY <1>2, <2>1, MinFound
  <2> USE DEF is
  <2>3. fields[Min(is)] \in ToSet(StressFlags)
    BY <2>2
  <2>4. DOMAIN StressFlags = 1 .. 6
    BY DEF StressFlags
  <2>5. \E n \in 1 .. 6 : StressFlags[n] = fields[Min(is)]
    BY <2>3, <2>4 DEF ToSet
  <2>6. StressN(fields) = CHOOSE n \in 1 .. 6 : StressFlags[n] = fields[Min(is)]
    BY <1>2 DEF StressN
  <2> QED
    BY <2>5, <2>6
<1> QED
  BY <1>1, <1>2

(* What a line says is said by one entry, about a word, of phonemes or a   *)
(* flag.                                                                   *)
Said(e) == {[w |-> e.w, ph |-> e.ph, does |-> Does(e)]}

(* The entry of a line of a word.                                          *)
LEMMA LineEntry ==
  ASSUME NEW line \in Lines, ~IsPhrase(line), NEW d, d = Dialect(line),
         d.applies, Len(d.fields) >= 2, NEW e, e = Entry(d.fields, d.cond)
  PROVE  Proper(e) /\ Says[line] = Said(e)
<1>1. line \in Seq(STRING)
  BY LinesAssumption
<1>2. d.fields \in Seq(STRING)
  <2>1. d.fields = line \/ (Len(line) > 1 /\ d.fields = Tail(line))
    <3>1. CASE line[1] \in DOMAIN Dialects /\ Len(line) > 1
      BY <3>1 DEF Dialect
    <3>2. CASE ~(line[1] \in DOMAIN Dialects /\ Len(line) > 1)
      BY <3>2 DEF Dialect
    <3> QED
      BY <3>1, <3>2
  <2> QED
    BY <1>1, <2>1
<1>3. Lower[d.fields[1]] \in Keys /\ d.fields[2] \in Values \cup Flags
  BY LinesAssumption
<1>4. Tail(d.fields) \in Seq(STRING)
  <2>1. PICK fields : fields = d.fields
    OBVIOUS
  <2>2. fields \in Seq(STRING) /\ fields # <<>>
    BY <1>2, <2>1
  <2>3. Tail(fields) \in Seq(STRING)
    BY <2>2
  <2> QED
    BY <2>1, <2>3
<1>5. e.stress \in 0 .. 6 /\ e.w \in Keys /\ e.ph \in Values \cup Flags
  BY <1>3, <1>4, StressTyped DEF Entry
<1>6. Entries(line) = {e}
  BY DEF Entries
<1> QED
  BY <1>5, <1>6 DEF Proper, Says, Said

(* A line that says nothing, or says what one entry does.                  *)
LineSaid(line) == \/ Says[line] = {}
                  \/ \E e : Proper(e) /\ Says[line] = Said(e)

(* There is no other line.                                                 *)
LEMMA LineSays ==
  ASSUME NEW line \in Lines
  PROVE  LineSaid(line)
<1>1. CASE ~IsPhrase(line) /\ Dialect(line).applies /\ Len(Dialect(line).fields) >= 2
  <2>1. PICK d : d = Dialect(line)
    OBVIOUS
  <2>2. PICK e : e = Entry(d.fields, d.cond)
    OBVIOUS
  <2>3. Proper(e) /\ Says[line] = Said(e)
    BY <1>1, <2>1, <2>2, LineEntry
  <2> QED
    BY <2>3 DEF LineSaid
<1>2. CASE ~(~IsPhrase(line) /\ Dialect(line).applies /\ Len(Dialect(line).fields) >= 2)
  <2>1. Entries(line) = {}
    BY <1>2 DEF Entries
  <2> QED
    BY <2>1 DEF Says, LineSaid
<1> QED
  BY <1>1, <1>2

(* A line is stored as it says.                                            *)
LEMMA LineOutcome ==
  ASSUME NEW q, Typed(q), q.hung = FALSE, NEW line \in Lines,
         NEW r, r = LoadLine(q, line)
  PROVE  \/ Says[line] = {} /\ Typed(r) /\ Kept(r, q, {})
         \/ \E e : Proper(e) /\ Says[line] = Said(e) /\ Outcome(r, q, e)
<1>1. CASE IsPhrase(line)
  <2>1. Says[line] = {}
    BY <1>1 DEF Says, Entries
  <2>2. r = PhraseEntry(q, line)
    BY <1>1 DEF LoadLine
  <2> DEFINE changed == {"phrase_split_dict", "phrase_dict", "keep_sec_phrase_keys"}
  <2>3. Same(r, q, changed)
    BY <2>2 DEF PhraseEntry, Same
  <2>4. changed \cap Tracked = {}
    BY DEF Tracked, SetFields, MapFields
  <2>5. Tracked \subseteq DOMAIN r /\ \A f \in Tracked : r[f] = q[f]
    BY <2>3, <2>4 DEF Typed, Same
  <2>6. Typed(r)
    <3>1. \A f \in SetFields \cup MapFields : r[f] = q[f]
      BY <2>5 DEF Tracked
    <3>2. /\ r.dict = q.dict /\ r.stress_pos = q.stress_pos
          /\ r.word_alt_flags = q.word_alt_flags
          /\ r.compound_prefixes = q.compound_prefixes
      BY <2>5 DEF Tracked
    <3> QED
      BY <2>5, <3>1, <3>2 DEF Typed
  <2>7. Kept(r, q, {})
    BY <2>5 DEF Kept, Tracked, MapFields
  <2> QED
    BY <2>1, <2>6, <2>7
<1>2. CASE ~IsPhrase(line) /\ Dialect(line).applies /\ Len(Dialect(line).fields) >= 2
  <2>1. PICK d : d = Dialect(line)
    OBVIOUS
  <2>2. PICK e : e = Entry(d.fields, d.cond)
    OBVIOUS
  <2>3. r = StoreEntry(q, e)
    BY <1>2, <2>1, <2>2 DEF LoadLine
  <2>4. Proper(e) /\ Says[line] = Said(e)
    BY <1>2, <2>1, <2>2, LineEntry
  <2>5. Outcome(r, q, e)
    BY <2>3, <2>4, EntryOutcome
  <2> QED
    BY <2>4, <2>5
<1>3. CASE /\ ~IsPhrase(line)
           /\ ~(Dialect(line).applies /\ Len(Dialect(line).fields) >= 2)
  <2>1. Entries(line) = {} /\ r = q
    BY <1>3 DEF Entries, LoadLine
  <2> QED
    BY <2>1 DEF Says, Kept
<1> QED
  BY <1>1, <1>2, <1>3

(* The first and the last of some lines.                                   *)
LEMMA LatestFound ==
  ASSUME NEW n \in Nat, NEW S \in SUBSET (1 .. n), S # {}
  PROVE  Latest(S) \in S /\ \A j \in S : Latest(S) >= j
<1>1. S \subseteq Nat /\ \A m \in S : m <= n
  OBVIOUS
<1>2. \E i \in S : \A j \in S : j <= i
  BY <1>1, GreatestNumber
<1>3. \E i \in S : \A j \in S : i >= j
  BY <1>1, <1>2
<1> QED
  BY <1>3 DEF Latest

(* ... the first.                                                          *)
LEMMA EarliestFound ==
  ASSUME NEW n \in Nat, NEW S \in SUBSET (1 .. n), S # {}
  PROVE  Earliest(S) \in S /\ \A j \in S : Earliest(S) <= j
<1>1. S \subseteq Nat
  OBVIOUS
<1>2. \E i \in S : \A j \in S : i <= j
  BY <1>1, LeastNumber
<1> QED
  BY <1>2 DEF Earliest

(* ... and of one line more.                                               *)
LEMMA NextLatest ==
  ASSUME NEW n \in Nat, NEW S \in SUBSET (1 .. n)
  PROVE  /\ Latest(S \cup {n + 1}) = n + 1
         /\ Earliest(S \cup {n + 1}) = IF S = {} THEN n + 1 ELSE Earliest(S)
<1>1. PICK T \in SUBSET (1 .. n + 1) : T = S \cup {n + 1}
  <2>1. S \cup {n + 1} \subseteq 1 .. n + 1
    OBVIOUS
  <2> QED
    BY <2>1
<1>6. \A j \in S : j \in Nat /\ j <= n
  OBVIOUS
<1>2. Latest(T) \in T /\ Latest(T) >= n + 1
  BY <1>1, LatestFound
<1>3. Earliest(T) \in T /\ \A j \in T : Earliest(T) <= j
  BY <1>1, EarliestFound
<1>4. CASE S = {}
  BY <1>1, <1>2, <1>3, <1>4
<1>5. CASE S # {}
  <2>1. Earliest(S) \in S /\ \A j \in S : Earliest(S) <= j
    BY <1>5, EarliestFound
  <2>2. Earliest(S) \in T /\ Earliest(S) \in Nat /\ Earliest(S) <= n
    BY <1>1, <1>6, <2>1
  <2>3. Earliest(T) \in S
    <3>1. Earliest(T) <= Earliest(S)
      BY <1>3, <2>2
    <3>2. Earliest(T) # n + 1
      BY <2>2, <3>1
    <3> QED
      BY <1>1, <1>3, <3>2
  <2>4. Earliest(S) <= Earliest(T) /\ Earliest(T) <= Earliest(S)
    BY <1>3, <2>1, <2>2, <2>3
  <2>5. Earliest(T) = Earliest(S)
    <3>1. Earliest(T) \in Nat /\ Earliest(S) \in Nat
      BY <1>6, <2>2, <2>3
    <3> QED
      BY <2>4, <3>1
  <2> QED
    <3>1. Latest(T) = n + 1
      <4>1. PICK l : l = Latest(T)
        OBVIOUS
      <4>2. l = n + 1 \/ l \in S
        BY <1>1, <1>2, <4>1
      <4>3. ASSUME l \in S PROVE FALSE
        <5>1. l \in Nat /\ l <= n
          BY <1>6, <4>3
        <5>2. l >= n + 1
          BY <1>2, <4>1
        <5> QED
          BY <5>1, <5>2
      <4> QED
        BY <4>1, <4>2, <4>3
    <3> QED
      BY <1>1, <1>5, <2>5, <3>1
<1> QED
  BY <1>4, <1>5

-----------------------------------------------------------------------------
(* What a file says of a word, when a line is added to it.                 *)

Hits(line, w, what) == \E e \in Says[line] : e.w = w /\ what \in e.does

Extends(more, lines, line) == /\ lines \in Seq(Lines) /\ line \in Lines
                              /\ more = Append(lines, line)

(* The lines of the file keep saying what they said.                       *)
LEMMA OfEarlier ==
  ASSUME NEW lines, NEW line, NEW more, Extends(more, lines, line),
         NEW m \in 0 .. Len(lines),
         NEW w, NEW what
  PROVE  /\ Of(more, w, m, what) = Of(lines, w, m, what)
         /\ Of(lines, w, m, what) \in SUBSET (1 .. m)
<1>1. \A i \in 1 .. m : more[i] = lines[i]
  BY DEF Extends
<1> QED
  BY <1>1 DEF Of

(* ... and spoke of.                                                       *)
LEMMA SpokenEarlier ==
  ASSUME NEW lines, NEW line, NEW more, Extends(more, lines, line),
         NEW i \in 1 .. Len(lines)
  PROVE  Spoken(more, i) = Spoken(lines, i)
<1>1. more[i] = lines[i]
  BY DEF Extends
<1> QED
  BY <1>1 DEF Spoken

(* The first and the last of some of those lines keep what they spoke of.  *)
LEMMA SpokenWithin ==
  ASSUME NEW lines, NEW line, NEW more, Extends(more, lines, line),
         NEW m \in 0 .. Len(lines), NEW S \in SUBSET (1 .. m), S # {}
  PROVE  /\ Spoken(more, Latest(S)) = Spoken(lines, Latest(S))
         /\ Spoken(more, Earliest(S)) = Spoken(lines, Earliest(S))
<1>1. m \in Nat /\ \A i \in 1 .. m : i \in 1 .. Len(lines)
  BY DEF Extends
<1>2. Latest(S) \in S /\ Earliest(S) \in S
  BY <1>1, LatestFound, EarliestFound
<1>3. Latest(S) \in 1 .. Len(lines) /\ Earliest(S) \in 1 .. Len(lines)
  BY <1>1, <1>2
<1> QED
  BY <1>3, SpokenEarlier

(* A line adds itself to the lines that do what it does.                   *)
LEMMA OfNext ==
  ASSUME NEW lines, NEW line, NEW more, Extends(more, lines, line),
         NEW n, n = Len(lines),
         NEW w, NEW what
  PROVE  /\ Of(lines, w, n, what) \in SUBSET (1 .. n) /\ n \in Nat
         /\ Hits(line, w, what) =>
              Of(more, w, n + 1, what) = Of(lines, w, n, what) \cup {n + 1}
         /\ ~Hits(line, w, what) =>
              Of(more, w, n + 1, what) = Of(lines, w, n, what)
<1>1. n \in Nat /\ more[n + 1] = line /\ \A i \in 1 .. n : more[i] = lines[i]
  BY DEF Extends
<1>2. Of(lines, w, n, what) \in SUBSET (1 .. n)
  BY DEF Of
<1>3. n + 1 \in Of(more, w, n + 1, what) <=> Hits(line, w, what)
  BY <1>1 DEF Of, Hits
<1>4. \A i \in 1 .. n : i \in Of(more, w, n + 1, what) <=> i \in Of(lines, w, n, what)
  BY <1>1 DEF Of
<1>5. Of(more, w, n + 1, what) \subseteq 1 .. n + 1
  BY DEF Of
<1>6. \A i \in 1 .. n + 1 : i \in 1 .. n \/ i = n + 1
  BY <1>1
<1>7. n + 1 \notin 1 .. n
  BY <1>1
<1> QED
  BY <1>1, <1>2, <1>3, <1>4, <1>5, <1>6, <1>7

(* Of the entries since the last retraction.                               *)
LEMMA SinceEarlier ==
  ASSUME NEW lines, NEW line, NEW more, Extends(more, lines, line),
         NEW m \in 0 .. Len(lines),
         NEW w, NEW what
  PROVE  /\ Since(more, w, m, what) = Since(lines, w, m, what)
         /\ Since(lines, w, m, what) \in SUBSET Of(lines, w, m, what)
         /\ Since(lines, w, m, what) \in SUBSET (1 .. m)
<1>1. /\ Of(more, w, m, what) = Of(lines, w, m, what)
      /\ Of(lines, w, m, what) \in SUBSET (1 .. m)
  BY OfEarlier
<1>2. Of(more, w, m, "retracts") = Of(lines, w, m, "retracts")
  BY OfEarlier
<1> QED
  BY <1>1, <1>2 DEF Since

(* A retraction leaves none of them, another line adds itself.             *)
LEMMA SinceNext ==
  ASSUME NEW lines, NEW line, NEW more, Extends(more, lines, line),
         NEW n, n = Len(lines),
         NEW w, NEW what
  PROVE  /\ n \in Nat /\ Since(lines, w, n, what) \in SUBSET (1 .. n)
         /\ Hits(line, w, "retracts") => Since(more, w, n + 1, what) = {}
         /\ ~Hits(line, w, "retracts") =>
              /\ Hits(line, w, what) =>
                   Since(more, w, n + 1, what) = Since(lines, w, n, what) \cup {n + 1}
              /\ ~Hits(line, w, what) =>
                   Since(more, w, n + 1, what) = Since(lines, w, n, what)
<1>1. n \in Nat /\ n \in 0 .. Len(lines)
  BY DEF Extends
<1>2. Since(lines, w, n, what) \in SUBSET (1 .. n)
  BY <1>1, SinceEarlier
<1>3. PICK gone \in SUBSET (1 .. n) : gone = Of(lines, w, n, "retracts")
  BY OfNext
<1>4. PICK is \in SUBSET (1 .. n) : is = Of(lines, w, n, what)
  BY OfNext
<1>5. CASE Hits(line, w, "retracts")
  <2>1. Of(more, w, n + 1, "retracts") = gone \cup {n + 1}
    <3>1. Of(more, w, n + 1, "retracts") = Of(lines, w, n, "retracts") \cup {n + 1}
      BY <1>5, OfNext
    <3> QED
      BY <1>3, <3>1
  <2>2. Latest(gone \cup {n + 1}) = n + 1
    BY <1>1, NextLatest
  <2>3. Of(more, w, n + 1, what) \subseteq 1 .. n + 1
    BY DEF Of
  <2>4. \A i \in 1 .. n + 1 : ~(i > n + 1)
    BY <1>1
  <2>5. Since(more, w, n + 1, what) = {}
    BY <2>1, <2>2, <2>3, <2>4 DEF Since
  <2> QED
    BY <1>1, <1>2, <1>5, <2>5
<1>6. CASE ~Hits(line, w, "retracts")
  <2>1. Of(more, w, n + 1, "retracts") = gone
    <3>1. Of(more, w, n + 1, "retracts") = Of(lines, w, n, "retracts")
      BY <1>6, OfNext
    <3> QED
      BY <1>3, <3>1
  <2>2. gone # {} => Latest(gone) \in 1 .. n
    BY <1>1, LatestFound
  <2>3. gone # {} => n + 1 > Latest(gone)
    BY <1>1, <2>2
  <2>4. Since(more, w, n + 1, what) =
          {i \in Of(more, w, n + 1, what) : gone # {} => i > Latest(gone)}
    BY <2>1 DEF Since
  <2>5. Since(lines, w, n, what) = {i \in is : gone # {} => i > Latest(gone)}
    BY <1>3, <1>4 DEF Since
  <2>6. CASE Hits(line, w, what)
    <3>1. Of(more, w, n + 1, what) = is \cup {n + 1}
      <4>1. Of(more, w, n + 1, what) = Of(lines, w, n, what) \cup {n + 1}
        BY <2>6, OfNext
      <4> QED
        BY <1>4, <4>1
    <3>2. Since(more, w, n + 1, what) = Since(lines, w, n, what) \cup {n + 1}
      BY <2>3, <2>4, <2>5, <3>1
    <3> QED
      BY <1>1, <1>2, <1>6, <2>6, <3>2
  <2>7. CASE ~Hits(line, w, what)
    <3>1. Of(more, w, n + 1, what) = is
      <4>1. Of(more, w, n + 1, what) = Of(lines, w, n, what)
        BY <2>7, OfNext
      <4> QED
        BY <1>4, <4>1
    <3> QED
      BY <1>1, <1>2, <1>6, <2>4, <2>5, <2>7, <3>1
  <2> QED
    BY <2>6, <2>7
<1> QED
  BY <1>5, <1>6

(* What is spoken of an entry that was stored are phonemes.                *)
Storing == Deeds \ {"retracts", "prefix"}

(* The line of such an entry speaks phonemes.                              *)
LEMMA SpokenValue ==
  ASSUME NEW lines \in Seq(Lines), NEW m \in 0 .. Len(lines), NEW w,
         NEW what \in Storing, NEW i \in Of(lines, w, m, what)
  PROVE  Spoken(lines, i) \in Values
<1>1. i \in 1 .. Len(lines) /\ lines[i] \in Lines
  BY DEF Of
<1>2. PICK s \in Says[lines[i]] : what \in s.does
  BY DEF Of
<1>3. PICK e : Proper(e) /\ Says[lines[i]] = Said(e)
  BY <1>1, <1>2, LineSays DEF LineSaid
<1>4. s = [w |-> e.w, ph |-> e.ph, does |-> Does(e)]
  BY <1>2, <1>3 DEF Said
<1>5. what \in Does(e)
  BY <1>2, <1>4
<1>6. Route(e) # "flag"
  BY <1>5, DeedsOfRoute DEF Storing, Deeds
<1>7. e.ph \in Values
  BY <1>3, <1>6, NoFlagStored
<1>8. \A t \in Says[lines[i]] : t = s
  BY <1>3, <1>4 DEF Said
<1>9. (CHOOSE t \in Says[lines[i]] : TRUE) = s
  BY <1>2, <1>8
<1>10. Spoken(lines, i) = s.ph
  BY <1>9 DEF Spoken
<1>11. s.ph = e.ph
  BY <1>4
<1> QED
  BY <1>7, <1>10, <1>11

(* A line speaks of what its entry does.                                   *)
LEMMA SpokenLast ==
  ASSUME NEW lines, NEW line, NEW more, Extends(more, lines, line),
         NEW e, Says[line] = Said(e)
  PROVE  /\ Spoken(more, Len(lines) + 1) = e.ph
         /\ \A w, what : Hits(line, w, what) <=> e.w = w /\ what \in Does(e)
<1>1. more[Len(lines) + 1] = line
  BY DEF Extends
<1>2. PICK s : s = [w |-> e.w, ph |-> e.ph, does |-> Does(e)]
  OBVIOUS
<1>3. Says[line] = {s}
  BY <1>2 DEF Said
<1>4. (CHOOSE t \in Says[line] : TRUE) = s
  BY <1>3
<1>5. Spoken(more, Len(lines) + 1) = e.ph
  <2>1. Spoken(more, Len(lines) + 1) = s.ph
    BY <1>1, <1>4 DEF Spoken
  <2> QED
    BY <1>2, <2>1
<1>6. s.w = e.w /\ s.does = Does(e)
  BY <1>2
<1> QED
  BY <1>3, <1>5, <1>6 DEF Hits

(* What is found of a word is phonemes or nothing.                         *)
LEMMA MeaningTyped ==
  ASSUME NEW lines \in Seq(Lines), NEW m \in 0 .. Len(lines), NEW w
  PROVE  /\ DictMeaning(lines, w, m) \in Values \cup {NULL}
         /\ DictMeaning(lines, w, m) = NULL <=>
              /\ Since(lines, w, m, "overwrites") = {}
              /\ Since(lines, w, m, "yields") = {}
<1>1. PICK over : over = Since(lines, w, m, "overwrites")
  OBVIOUS
<1>2. PICK yield : yield = Since(lines, w, m, "yields")
  OBVIOUS
<1>3. m \in Nat /\ {"overwrites", "yields"} \subseteq Storing
  BY DEF Storing, Deeds
<1>4. /\ over \subseteq Of(lines, w, m, "overwrites")
      /\ yield \subseteq Of(lines, w, m, "yields")
  BY <1>1, <1>2 DEF Since
<1>5. over \in SUBSET (1 .. m) /\ yield \in SUBSET (1 .. m)
  BY <1>4 DEF Of
<1>6. ASSUME over # {} PROVE Spoken(lines, Latest(over)) \in Values
  <2>1. Latest(over) \in over
    BY <1>3, <1>5, <1>6, LatestFound
  <2>2. PICK i \in Of(lines, w, m, "overwrites") : i = Latest(over)
    BY <1>4, <2>1
  <2> QED
    BY <1>3, <2>2, SpokenValue
<1>7. ASSUME yield # {} PROVE Spoken(lines, Earliest(yield)) \in Values
  <2>1. Earliest(yield) \in yield
    BY <1>3, <1>5, <1>7, EarliestFound
  <2>2. PICK i \in Of(lines, w, m, "yields") : i = Earliest(yield)
    BY <1>4, <2>1
  <2> QED
    BY <1>3, <2>2, SpokenValue
<1>8. DictMeaning(lines, w, m) =
        IF over # {} THEN Spoken(lines, Latest(over))
        ELSE IF yield # {} THEN Spoken(lines, Earliest(yield)) ELSE NULL
  BY <1>1, <1>2 DEF DictMeaning
<1>9. NULL \notin Values
  BY NullAssumption
<1> QED
  BY <1>1, <1>2, <1>6, <1>7, <1>8, <1>9

(* What was said first of a word is nothing when nothing was said.         *)
LEMMA FirstTyped ==
  ASSUME NEW lines \in Seq(Lines), NEW m \in 0 .. Len(lines), NEW w,
         NEW what \in Storing
  PROVE  FirstMeaning(lines, w, m, what) = NULL <=> Of(lines, w, m, what) = {}
<1>1. PICK is : is = Of(lines, w, m, what)
  OBVIOUS
<1>2. is \in SUBSET (1 .. m) /\ m \in Nat
  BY <1>1 DEF Of
<1>3. ASSUME is # {} PROVE Spoken(lines, Earliest(is)) \in Values
  <2>1. Earliest(is) \in Of(lines, w, m, what)
    BY <1>1, <1>2, <1>3, EarliestFound
  <2> QED
    BY <2>1, SpokenValue
<1>4. FirstMeaning(lines, w, m, what) =
        IF is = {} THEN NULL ELSE Spoken(lines, Earliest(is))
  BY <1>1 DEF FirstMeaning
<1> QED
  BY <1>1, <1>3, <1>4, NullAssumption

(* What the lines said of a word is not changed by a line after them.      *)
LEMMA MeaningEarlier ==
  ASSUME NEW lines, NEW line, NEW more, Extends(more, lines, line),
         NEW m \in 0 .. Len(lines), NEW w
  PROVE  DictMeaning(more, w, m) = DictMeaning(lines, w, m)
<1>1. PICK over : over = Since(lines, w, m, "overwrites")
  OBVIOUS
<1>2. PICK yield : yield = Since(lines, w, m, "yields")
  OBVIOUS
<1>3. /\ Since(more, w, m, "overwrites") = over
      /\ Since(more, w, m, "yields") = yield
      /\ over \in SUBSET (1 .. m) /\ yield \in SUBSET (1 .. m)
  BY <1>1, <1>2, SinceEarlier
<1>5. over # {} => Spoken(more, Latest(over)) = Spoken(lines, Latest(over))
  BY <1>3, SpokenWithin
<1>6. yield # {} => Spoken(more, Earliest(yield)) = Spoken(lines, Earliest(yield))
  BY <1>3, SpokenWithin
<1> QED
  BY <1>1, <1>2, <1>3, <1>5, <1>6 DEF DictMeaning

(* ... nor what they said first of it,                                     *)
LEMMA FirstEarlier ==
  ASSUME NEW lines, NEW line, NEW more, Extends(more, lines, line),
         NEW m \in 0 .. Len(lines), NEW w, NEW what
  PROVE  FirstMeaning(more, w, m, what) = FirstMeaning(lines, w, m, what)
<1>1. PICK is : is = Of(lines, w, m, what)
  OBVIOUS
<1>2. Of(more, w, m, what) = is /\ is \in SUBSET (1 .. m)
  BY <1>1, OfEarlier
<1>4. is # {} => Spoken(more, Earliest(is)) = Spoken(lines, Earliest(is))
  BY <1>2, SpokenWithin
<1> QED
  BY <1>1, <1>2, <1>4 DEF FirstMeaning

(* ... nor which of them yielded.                                          *)
LEMMA BareEarlier ==
  ASSUME NEW lines, NEW line, NEW more, Extends(more, lines, line),
         NEW m \in 0 .. Len(lines), NEW w
  PROVE  /\ BareMeaning(more, w, m) = BareMeaning(lines, w, m)
         /\ Yielded(more, w, m) = Yielded(lines, w, m)
         /\ Yielded(lines, w, m) \in SUBSET (1 .. m)
<1>1. /\ Of(more, w, m, "yields") = Of(lines, w, m, "yields")
      /\ Of(lines, w, m, "yields") \in SUBSET (1 .. m)
  BY OfEarlier
<1>2. m \in Nat /\ Len(lines) \in Nat /\ m <= Len(lines)
  BY DEF Extends
<1>3. ASSUME NEW i \in 1 .. m
      PROVE  DictMeaning(more, w, i - 1) = DictMeaning(lines, w, i - 1)
  <2>1. i - 1 \in 0 .. Len(lines)
    BY <1>2
  <2> QED
    BY <2>1, MeaningEarlier
<1>4. PICK late \in SUBSET (1 .. m) : late = Yielded(lines, w, m)
  BY <1>1 DEF Yielded
<1>5. Yielded(more, w, m) = late
  BY <1>1, <1>3, <1>4 DEF Yielded
<1>6. late # {} => Spoken(more, Latest(late)) = Spoken(lines, Latest(late))
  BY SpokenWithin
<1> QED
  BY <1>4, <1>5, <1>6 DEF BareMeaning

-----------------------------------------------------------------------------
(* What a line adds to what the lines before it said of a word.            *)

(* A retraction forgets, what overwrites is heard last, what yields only   *)
(* where there was nothing, and nothing else is heard.                     *)
LEMMA DictNext ==
  ASSUME NEW lines, NEW line, NEW more, Extends(more, lines, line),
         NEW n, n = Len(lines), NEW w, NEW x, x = Spoken(more, n + 1),
         NEW d, d = DictMeaning(lines, w, n),
         NEW d1, d1 = DictMeaning(more, w, n + 1)
  PROVE  /\ Hits(line, w, "retracts") => d1 = NULL
         /\ ~Hits(line, w, "retracts") /\ Hits(line, w, "overwrites") => d1 = x
         /\ ~Hits(line, w, "retracts") /\ ~Hits(line, w, "overwrites") =>
              /\ Hits(line, w, "yields") => d1 = IF d = NULL THEN x ELSE d
              /\ ~Hits(line, w, "yields") => d1 = d
<1>1. n \in Nat /\ n \in 0 .. Len(lines) /\ lines \in Seq(Lines)
  BY DEF Extends
<1>2. PICK over \in SUBSET (1 .. n) : over = Since(lines, w, n, "overwrites")
  BY SinceNext
<1>3. PICK yield \in SUBSET (1 .. n) : yield = Since(lines, w, n, "yields")
  BY SinceNext
<1>4. d = IF over # {} THEN Spoken(lines, Latest(over))
          ELSE IF yield # {} THEN Spoken(lines, Earliest(yield)) ELSE NULL
  BY <1>2, <1>3 DEF DictMeaning
<1>5. PICK over1 : over1 = Since(more, w, n + 1, "overwrites")
  OBVIOUS
<1>6. PICK yield1 : yield1 = Since(more, w, n + 1, "yields")
  OBVIOUS
<1>7. d1 = IF over1 # {} THEN Spoken(more, Latest(over1))
           ELSE IF yield1 # {} THEN Spoken(more, Earliest(yield1)) ELSE NULL
  BY <1>5, <1>6 DEF DictMeaning
<1>8. CASE Hits(line, w, "retracts")
  <2>1. over1 = {} /\ yield1 = {}
    BY <1>5, <1>6, <1>8, SinceNext
  <2> QED
    BY <1>7, <1>8, <2>1
<1>9. CASE ~Hits(line, w, "retracts") /\ Hits(line, w, "overwrites")
  <2>1. over1 = over \cup {n + 1}
    BY <1>2, <1>5, <1>9, SinceNext
  <2>2. Latest(over1) = n + 1
    BY <1>1, <2>1, NextLatest
  <2> QED
    BY <1>7, <1>9, <2>1, <2>2
<1>10. CASE ~Hits(line, w, "retracts") /\ ~Hits(line, w, "overwrites")
  <2>1. over1 = over
    BY <1>2, <1>5, <1>10, SinceNext
  <2>2. over # {} => Spoken(more, Latest(over)) = Spoken(lines, Latest(over))
    BY <1>1, SpokenWithin
  <2>3. yield # {} => Spoken(more, Earliest(yield)) = Spoken(lines, Earliest(yield))
    BY <1>1, SpokenWithin
  <2>4. d = NULL <=> over = {} /\ yield = {}
    BY <1>1, <1>2, <1>3, MeaningTyped
  <2>5. CASE Hits(line, w, "yields")
    <3>1. yield1 = yield \cup {n + 1}
      BY <1>3, <1>6, <1>10, <2>5, SinceNext
    <3>2. Earliest(yield1) = IF yield = {} THEN n + 1 ELSE Earliest(yield)
      BY <1>1, <3>1, NextLatest
    <3> QED
      BY <1>4, <1>7, <1>10, <2>1, <2>2, <2>3, <2>4, <2>5, <3>1, <3>2
  <2>6. CASE ~Hits(line, w, "yields")
    <3>1. yield1 = yield
      BY <1>3, <1>6, <1>10, <2>6, SinceNext
    <3> QED
      BY <1>4, <1>7, <1>10, <2>1, <2>2, <2>3, <2>6, <3>1
  <2> QED
    BY <2>5, <2>6
<1> QED
  BY <1>8, <1>9, <1>10

(* The bare dictionary hears what yielded to another entry.                *)
LEMMA BareNext ==
  ASSUME NEW lines, NEW line, NEW more, Extends(more, lines, line),
         NEW n, n = Len(lines), NEW w, NEW yields,
         yields = (Hits(line, w, "yields") /\ DictMeaning(lines, w, n) # NULL)
  PROVE  BareMeaning(more, w, n + 1) =
           IF yields THEN Spoken(more, n + 1) ELSE BareMeaning(lines, w, n)
<1>1. n \in Nat /\ n \in 0 .. Len(lines)
  BY DEF Extends
<1>2. PICK late \in SUBSET (1 .. n) : late = Yielded(lines, w, n)
  BY <1>1, BareEarlier
<1>3. Yielded(more, w, n) = late
  BY <1>1, <1>2, BareEarlier
<1>4. DictMeaning(more, w, n) = DictMeaning(lines, w, n)
  BY <1>1, MeaningEarlier
<1>5. (n + 1) - 1 = n
  BY <1>1
<1>6. Yielded(more, w, n + 1) = IF yields THEN late \cup {n + 1} ELSE late
  <2>1. Of(more, w, n, "yields") = Of(lines, w, n, "yields")
    BY <1>1, OfEarlier
  <2>2. CASE Hits(line, w, "yields")
    <3>1. Of(more, w, n + 1, "yields") = Of(more, w, n, "yields") \cup {n + 1}
      BY <2>1, <2>2, OfNext
    <3> QED
      BY <1>3, <1>4, <1>5, <2>2, <3>1 DEF Yielded
  <2>3. CASE ~Hits(line, w, "yields")
    <3>1. Of(more, w, n + 1, "yields") = Of(more, w, n, "yields")
      BY <2>1, <2>3, OfNext
    <3> QED
      BY <1>3, <2>3, <3>1 DEF Yielded
  <2> QED
    BY <2>2, <2>3
<1>7. late # {} => Spoken(more, Latest(late)) = Spoken(lines, Latest(late))
  BY <1>1, SpokenWithin
<1>8. Latest(late \cup {n + 1}) = n + 1
  BY <1>1, NextLatest
<1>9. CASE yields
  BY <1>6, <1>8, <1>9 DEF BareMeaning
<1>10. CASE ~yields
  BY <1>2, <1>6, <1>7, <1>10 DEF BareMeaning
<1> QED
  BY <1>9, <1>10

(* A map that keeps the first hears the first.                             *)
LEMMA FirstNext ==
  ASSUME NEW lines, NEW line, NEW more, Extends(more, lines, line),
         NEW n, n = Len(lines), NEW w, NEW what \in Storing, NEW hits,
         hits = (Hits(line, w, what) /\ FirstMeaning(lines, w, n, what) = NULL)
  PROVE  FirstMeaning(more, w, n + 1, what) =
           IF hits THEN Spoken(more, n + 1) ELSE FirstMeaning(lines, w, n, what)
<1>1. n \in Nat /\ n \in 0 .. Len(lines) /\ lines \in Seq(Lines)
  BY DEF Extends
<1>2. PICK is \in SUBSET (1 .. n) : is = Of(lines, w, n, what)
  BY OfNext
<1>3. FirstMeaning(lines, w, n, what) = NULL <=> is = {}
  BY <1>1, <1>2, FirstTyped
<1>4. is # {} => Spoken(more, Earliest(is)) = Spoken(lines, Earliest(is))
  BY <1>1, SpokenWithin
<1>5. FirstMeaning(lines, w, n, what) =
        IF is = {} THEN NULL ELSE Spoken(lines, Earliest(is))
  BY <1>2 DEF FirstMeaning
<1>6. CASE Hits(line, w, what)
  <2>1. Of(more, w, n + 1, what) = is \cup {n + 1}
    BY <1>2, <1>6, OfNext
  <2>2. Earliest(is \cup {n + 1}) = IF is = {} THEN n + 1 ELSE Earliest(is)
    BY <1>1, NextLatest
  <2> QED
    BY <1>3, <1>4, <1>5, <1>6, <2>1, <2>2 DEF FirstMeaning
<1>7. CASE ~Hits(line, w, what)
  <2>1. Of(more, w, n + 1, what) = is
    BY <1>2, <1>7, OfNext
  <2> QED
    BY <1>4, <1>5, <1>7, <2>1 DEF FirstMeaning
<1> QED
  BY <1>6, <1>7

(* Nothing is said before the first line.                                  *)
LEMMA NothingSaid ==
  ASSUME NEW lines, NEW w
  PROVE  /\ DictMeaning(lines, w, 0) = NULL /\ BareMeaning(lines, w, 0) = NULL
         /\ \A what : /\ FirstMeaning(lines, w, 0, what) = NULL
                      /\ Of(lines, w, 0, what) = {}
<1>1. \A what : Of(lines, w, 0, what) = {}
  BY DEF Of
<1>2. \A what : Since(lines, w, 0, what) = {}
  BY <1>1 DEF Since
<1>3. Yielded(lines, w, 0) = {}
  BY <1>1 DEF Yielded
<1> QED
  BY <1>1, <1>2, <1>3 DEF DictMeaning, BareMeaning, FirstMeaning

-----------------------------------------------------------------------------
(* The maps against the lines.                                             *)

(* The places of a word among the compound prefixes.                       *)
Places(s, w) == {i \in 1 .. Len(s) : s[i][1] = w}

(* The phonemes listed for it.                                             *)
Listed(s, w) == {s[i][2] : i \in Places(s, w)}

(* What the maps hold of w is what the first n lines say.                  *)
Meant(q, lines, n, w) ==
  /\ \A v \in Values : Binds(q.dict, w, v) <=> DictMeaning(lines, w, n) = v
  /\ At(q.onlys_bare_dict, w) = BareMeaning(lines, w, n)
  /\ At(q.noun_dict, w) = FirstMeaning(lines, w, n, "noun")
  /\ At(q.verb_dict, w) = FirstMeaning(lines, w, n, "verb")
  /\ At(q.past_dict, w) = FirstMeaning(lines, w, n, "past")
  /\ Listed(q.compound_prefixes, w) = PrefixPhonemes(lines, w, n)

(* What the table answers, where it answers.                               *)
LEMMA Answered ==
  ASSUME NEW q, Typed(q), NEW lines \in Seq(Lines), NEW n \in 0 .. Len(lines),
         NEW w \in Keys, Meant(q, lines, n, w)
  PROVE  /\ GetEnds(q.dict, w) => Get(q.dict, w) = DictMeaning(lines, w, n)
         /\ GetEnds(q.dict, w) \/ DictMeaning(lines, w, n) = NULL
<1>1. Sound(q.dict)
  BY DEF Typed, Counted
<1>2. DictMeaning(lines, w, n) \in Values \cup {NULL}
  BY MeaningTyped
<1>3. \A v \in Values : Binds(q.dict, w, v) <=> DictMeaning(lines, w, n) = v
  BY DEF Meant
<1>4. CASE GetEnds(q.dict, w)
  <2>1. /\ \A v \in Values : Binds(q.dict, w, v) <=> Get(q.dict, w) = v
        /\ Get(q.dict, w) = NULL <=> \A v \in Values : ~Binds(q.dict, w, v)
    BY <1>1, <1>4, GetAnswers
  <2> QED
    BY <1>2, <1>3, <1>4, <2>1, NullAssumption
<1>5. CASE ~GetEnds(q.dict, w)
  <2>1. ASSUME DictMeaning(lines, w, n) # NULL PROVE FALSE
    <3>1. PICK v \in Values : Binds(q.dict, w, v)
      BY <1>2, <1>3, <2>1
    <3>2. PICK s \in LiveSlots(q.dict) : q.dict.slots[s].key = w
      BY <3>1 DEF Binds, Live
    <3>3. ProbeEnds(q.dict, w)
      BY <1>1, <3>2, BindingFound
    <3> QED
      BY <1>5, <3>3 DEF GetEnds
  <2> QED
    BY <1>5, <2>1
<1> QED
  BY <1>4, <1>5

(* A retraction unbinds the word, what is put binds it, and what yields is *)
(* put when the table answers that there is nothing.                       *)
LEMMA DictMeant ==
  ASSUME NEW q, Typed(q), NEW lines, NEW line, NEW more, Extends(more, lines, line),
         NEW n, n = Len(lines), NEW w \in Keys, Meant(q, lines, n, w),
         NEW e, Proper(e), Says[line] = Said(e), ~Hangs(q.dict, e),
         NEW u, u = NewDict(q.dict, e)
  PROVE  \A v \in Values : Binds(u, w, v) <=> DictMeaning(more, w, n + 1) = v
<1>1. n \in Nat /\ n \in 0 .. Len(lines) /\ lines \in Seq(Lines)
  BY DEF Extends
<1>2. PICK d : d = DictMeaning(lines, w, n)
  OBVIOUS
<1>3. PICK d1 : d1 = DictMeaning(more, w, n + 1)
  OBVIOUS
<1>4. PICK k \in Keys : k = e.w
  BY DEF Proper
<1>5. PICK t : t = q.dict
  OBVIOUS
<1>6. /\ Sound(t) /\ \A v \in Values : Binds(t, w, v) <=> d = v
  BY <1>2, <1>5 DEF Typed, Counted, Meant
<1>7. \A what : Hits(line, w, what) <=> k = w /\ what \in Does(e)
  BY <1>4, SpokenLast
<1>8. Spoken(more, n + 1) = e.ph
  BY SpokenLast
<1>9. /\ Hits(line, w, "retracts") => d1 = NULL
      /\ ~Hits(line, w, "retracts") /\ Hits(line, w, "overwrites") => d1 = e.ph
      /\ ~Hits(line, w, "retracts") /\ ~Hits(line, w, "overwrites") =>
           /\ Hits(line, w, "yields") => d1 = IF d = NULL THEN e.ph ELSE d
           /\ ~Hits(line, w, "yields") => d1 = d
  <2>1. PICK x : x = Spoken(more, n + 1)
    OBVIOUS
  <2>2. /\ Hits(line, w, "retracts") => d1 = NULL
        /\ ~Hits(line, w, "retracts") /\ Hits(line, w, "overwrites") => d1 = x
        /\ ~Hits(line, w, "retracts") /\ ~Hits(line, w, "overwrites") =>
             /\ Hits(line, w, "yields") => d1 = IF d = NULL THEN x ELSE d
             /\ ~Hits(line, w, "yields") => d1 = d
    BY <1>2, <1>3, <2>1, DictNext
  <2> QED
    BY <1>8, <2>1, <2>2
<1>10. NULL \notin Values
  BY NullAssumption
<1>11. CASE "retracts" \in Does(e)
  <2>1. GetEnds(t, k) /\ u = Delete(t, k)
    BY <1>4, <1>5, <1>11 DEF Hangs, NewDict
  <2>2. \A v \in Values : Binds(u, w, v) <=> w # k /\ Binds(t, w, v)
    BY <1>6, <2>1, DeleteSound
  <2>3. w = k => d1 = NULL
    BY <1>7, <1>9, <1>11
  <2>4. w # k => d1 = d
    BY <1>7, <1>9
  <2> QED
    BY <1>3, <1>6, <1>10, <2>2, <2>3, <2>4
<1>12. CASE "retracts" \notin Does(e) /\ Puts(t, e)
  <2>1. PutEnds(t, k) /\ u = Put(t, k, e.ph)
    BY <1>4, <1>5, <1>12 DEF Hangs, NewDict
  <2>2. PICK x \in Values : x = e.ph
    <3>1. Route(e) # "flag"
      BY <1>12, DeedsOfRoute DEF Puts
    <3> QED
      BY <3>1, NoFlagStored
  <2>3. \A v \in Values : Binds(u, w, v) <=>
                            IF w = k THEN v = x ELSE Binds(t, w, v)
    <3>1. u = Put(t, k, x)
      BY <2>1, <2>2
    <3> QED
      BY <1>6, <2>1, <3>1, PutSound
  <2>4. w = k => d1 = x
    <3> SUFFICES ASSUME w = k PROVE d1 = x
      OBVIOUS
    <3>1. CASE "overwrites" \in Does(e)
      BY <1>7, <1>9, <1>12, <2>2, <3>1
    <3>2. CASE "overwrites" \notin Does(e)
      <4>1. "yields" \in Does(e) /\ Get(t, w) = NULL
        BY <1>4, <1>12, <3>2 DEF Puts
      <4>2. GetEnds(t, w)
        BY <1>4, <1>5, <4>1 DEF Hangs
      <4>3. d = NULL
        BY <1>1, <1>2, <1>5, <4>1, <4>2, Answered
      <4> QED
        BY <1>7, <1>9, <1>12, <2>2, <3>2, <4>1, <4>3
    <3> QED
      BY <3>1, <3>2
  <2>5. w # k => d1 = d
    BY <1>7, <1>9
  <2> QED
    BY <1>3, <1>6, <2>3, <2>4, <2>5
<1>13. CASE "retracts" \notin Does(e) /\ ~Puts(t, e)
  <2>1. u = t
    BY <1>5, <1>13 DEF NewDict
  <2>2. d1 = d
    <3>1. ASSUME k = w, "yields" \in Does(e) PROVE d # NULL
      <4>1. GetEnds(t, w) /\ Get(t, w) # NULL
        BY <1>4, <1>5, <1>13, <3>1 DEF Puts, Hangs
      <4> QED
        BY <1>1, <1>2, <1>5, <4>1, Answered
    <3> QED
      BY <1>7, <1>9, <1>13, <3>1 DEF Puts
  <2> QED
    BY <1>3, <1>6, <2>1, <2>2
<1> QED
  BY <1>5, <1>11, <1>12, <1>13

(* A bare entry is one that yielded to another.                            *)
LEMMA BareMeant ==
  ASSUME NEW q, Typed(q), NEW lines, NEW line, NEW more, Extends(more, lines, line),
         NEW n, n = Len(lines), NEW w \in Keys, Meant(q, lines, n, w),
         NEW e, Proper(e), Says[line] = Said(e), ~Hangs(q.dict, e),
         NEW m, m = IF "yields" \in Does(e) /\ ~Puts(q.dict, e)
                    THEN Set(q.onlys_bare_dict, e.w, e.ph) ELSE q.onlys_bare_dict
  PROVE  At(m, w) = BareMeaning(more, w, n + 1)
<1>1. n \in Nat /\ n \in 0 .. Len(lines) /\ lines \in Seq(Lines)
  BY DEF Extends
<1>2. PICK yields : yields = (Hits(line, w, "yields") /\ DictMeaning(lines, w, n) # NULL)
  OBVIOUS
<1>3. BareMeaning(more, w, n + 1) =
        IF yields THEN Spoken(more, n + 1) ELSE BareMeaning(lines, w, n)
  BY <1>2, BareNext
<1>4. Hits(line, w, "yields") <=> e.w = w /\ "yields" \in Does(e)
  BY SpokenLast
<1>5. Spoken(more, n + 1) = e.ph
  BY SpokenLast
<1>6. At(q.onlys_bare_dict, w) = BareMeaning(lines, w, n)
  BY DEF Meant
<1>7. ASSUME "yields" \in Does(e), e.w = w
      PROVE  Puts(q.dict, e) <=> DictMeaning(lines, w, n) = NULL
  <2>1. GetEnds(q.dict, w)
    BY <1>7 DEF Hangs
  <2>2. Get(q.dict, w) = DictMeaning(lines, w, n)
    BY <1>1, <2>1, Answered
  <2>3. "overwrites" \notin Does(e)
    BY <1>7, DeedsOfRoute
  <2> QED
    BY <1>7, <2>2, <2>3 DEF Puts
<1>8. \A f : At(Set(f, e.w, e.ph), w) = IF w = e.w THEN e.ph ELSE At(f, w)
  BY DEF At, Set
<1>9. CASE "yields" \in Does(e) /\ ~Puts(q.dict, e)
  BY <1>2, <1>3, <1>4, <1>5, <1>6, <1>7, <1>8, <1>9
<1>10. CASE ~("yields" \in Does(e) /\ ~Puts(q.dict, e))
  BY <1>2, <1>3, <1>4, <1>6, <1>7, <1>10
<1> QED
  BY <1>9, <1>10

(* smap_emplace() keeps the first.                                         *)
LEMMA FirstMeant ==
  ASSUME NEW lines, NEW line, NEW more, Extends(more, lines, line),
         NEW n, n = Len(lines), NEW w \in Keys,
         NEW e, Proper(e), Says[line] = Said(e),
         NEW what \in Storing, NEW f, Phonemes(f),
         At(f, w) = FirstMeaning(lines, w, n, what)
  PROVE  At(First(f, e, what), w) = FirstMeaning(more, w, n + 1, what)
<1>1. PICK hits : hits = (Hits(line, w, what) /\ FirstMeaning(lines, w, n, what) = NULL)
  OBVIOUS
<1>2. FirstMeaning(more, w, n + 1, what) =
        IF hits THEN Spoken(more, n + 1) ELSE FirstMeaning(lines, w, n, what)
  BY <1>1, FirstNext
<1>3. Hits(line, w, what) <=> e.w = w /\ what \in Does(e)
  BY SpokenLast
<1>4. Spoken(more, n + 1) = e.ph
  BY SpokenLast
<1>5. At(f, w) = NULL <=> w \notin DOMAIN f
  BY NullAssumption DEF At, Phonemes
<1>6. At(Emplace(f, e.w, e.ph), w) =
        IF w = e.w /\ w \notin DOMAIN f THEN e.ph ELSE At(f, w)
  BY DEF At, Emplace, Set
<1> QED
  BY <1>1, <1>2, <1>3, <1>4, <1>5, <1>6 DEF First

(* The compound prefixes after an entry.                                   *)
Prefixed(s, e) == IF "prefix" \in Does(e) THEN Append(s, <<e.w, e.ph>>) ELSE s

(* What earlier lines said of prefixes they keep saying.                   *)
LEMMA PrefixEarlier ==
  ASSUME NEW lines, NEW line, NEW more, Extends(more, lines, line),
         NEW m \in 0 .. Len(lines), NEW w
  PROVE  PrefixPhonemes(more, w, m) = PrefixPhonemes(lines, w, m)
<1>1. PICK is \in SUBSET (1 .. m) :
        is = Of(lines, w, m, "prefix") /\ is = Of(more, w, m, "prefix")
  BY OfEarlier
<1>2. \A i \in 1 .. m : i \in 1 .. Len(lines)
  BY DEF Extends
<1>3. \A i \in is : Spoken(more, i) = Spoken(lines, i)
  BY <1>1, <1>2, SpokenEarlier
<1> QED
  BY <1>1, <1>3 DEF PrefixPhonemes

(* A prefix is listed for its word, with the phonemes of its line, and for *)
(* no other.                                                               *)
LEMMA PrefixMeant ==
  ASSUME NEW lines, NEW line, NEW more, Extends(more, lines, line),
         NEW n, n = Len(lines), NEW w \in Keys,
         NEW e, Proper(e), Says[line] = Said(e),
         NEW s \in Seq(Keys \X Values),
         Listed(s, w) = PrefixPhonemes(lines, w, n),
         NEW t, t = Prefixed(s, e)
  PROVE  Listed(t, w) = PrefixPhonemes(more, w, n + 1)
<1>1. n \in Nat /\ Len(s) \in Nat
  BY DEF Extends
<1>2. Hits(line, w, "prefix") <=> e.w = w /\ "prefix" \in Does(e)
  BY SpokenLast
<1>3. Spoken(more, n + 1) = e.ph
  BY SpokenLast
<1>4. PICK is \in SUBSET (1 .. n) : is = Of(lines, w, n, "prefix")
  BY OfNext
<1>5. \A i \in is : Spoken(more, i) = Spoken(lines, i)
  BY <1>4, SpokenEarlier
<1>6. PrefixPhonemes(lines, w, n) = {Spoken(more, i) : i \in is}
  BY <1>4, <1>5 DEF PrefixPhonemes
<1>7. CASE e.w = w /\ "prefix" \in Does(e)
  <2>1. Of(more, w, n + 1, "prefix") = is \cup {n + 1}
    BY <1>2, <1>4, <1>7, OfNext
  <2>2. PrefixPhonemes(more, w, n + 1) = {Spoken(more, i) : i \in is} \cup {e.ph}
    BY <1>3, <2>1 DEF PrefixPhonemes
  <2>3. /\ Len(t) = Len(s) + 1 /\ t[Len(s) + 1] = <<e.w, e.ph>>
        /\ \A i \in 1 .. Len(s) : t[i] = s[i]
    BY <1>7 DEF Prefixed
  <2>4. t[Len(s) + 1][1] = w /\ t[Len(s) + 1][2] = e.ph
    BY <1>7, <2>3
  <2>5. Places(t, w) = Places(s, w) \cup {Len(s) + 1}
    <3>1. \A i : i \in 1 .. Len(t) <=> i \in 1 .. Len(s) \/ i = Len(s) + 1
      BY <1>1, <2>3
    <3> QED
      BY <2>3, <2>4, <3>1 DEF Places
  <2>6. \A i \in Places(s, w) : t[i][2] = s[i][2]
    BY <2>3 DEF Places
  <2>7. Listed(t, w) = Listed(s, w) \cup {e.ph}
    BY <2>4, <2>5, <2>6 DEF Listed
  <2> QED
    BY <1>6, <2>2, <2>7
<1>8. CASE ~(e.w = w /\ "prefix" \in Does(e))
  <2>1. Of(more, w, n + 1, "prefix") = is
    BY <1>2, <1>4, <1>8, OfNext
  <2>2. PrefixPhonemes(more, w, n + 1) = PrefixPhonemes(lines, w, n)
    BY <1>6, <2>1 DEF PrefixPhonemes
  <2>3. CASE "prefix" \notin Does(e)
    BY <2>2, <2>3 DEF Prefixed
  <2>4. CASE "prefix" \in Does(e)
    <3>1. /\ Len(t) = Len(s) + 1 /\ t[Len(s) + 1] = <<e.w, e.ph>>
          /\ \A i \in 1 .. Len(s) : t[i] = s[i]
      BY <2>4 DEF Prefixed
    <3>2. t[Len(s) + 1][1] # w
      BY <1>8, <2>4, <3>1
    <3>3. Places(t, w) = Places(s, w)
      <4>1. \A i : i \in 1 .. Len(t) <=> i \in 1 .. Len(s) \/ i = Len(s) + 1
        BY <1>1, <3>1
      <4> QED
        BY <3>1, <3>2, <4>1 DEF Places
    <3>4. \A i \in Places(s, w) : t[i][2] = s[i][2]
      BY <3>1 DEF Places
    <3>5. Listed(t, w) = Listed(s, w)
      BY <3>3, <3>4 DEF Listed
    <3> QED
      BY <2>2, <3>5
  <2> QED
    BY <2>3, <2>4
<1> QED
  BY <1>7, <1>8

(* An entry stored: the maps say what one line more says.                  *)
LEMMA StoredMeant ==
  ASSUME NEW q, Typed(q), NEW lines, NEW line, NEW more, Extends(more, lines, line),
         NEW n, n = Len(lines), NEW w \in Keys, Meant(q, lines, n, w),
         NEW e, Proper(e), Says[line] = Said(e), ~Hangs(q.dict, e),
         NEW r, Outcome(r, q, e)
  PROVE  Meant(r, more, n + 1, w)
<1>1. /\ r.dict = NewDict(q.dict, e)
      /\ r.onlys_bare_dict = IF "yields" \in Does(e) /\ ~Puts(q.dict, e)
                             THEN Set(q.onlys_bare_dict, e.w, e.ph)
                             ELSE q.onlys_bare_dict
      /\ r.noun_dict = First(q.noun_dict, e, "noun")
      /\ r.verb_dict = First(q.verb_dict, e, "verb")
      /\ r.past_dict = First(q.past_dict, e, "past")
      /\ r.compound_prefixes = IF "prefix" \in Does(e)
                               THEN Append(q.compound_prefixes, <<e.w, e.ph>>)
                               ELSE q.compound_prefixes
  BY DEF Outcome
<1>2. \A v \in Values : Binds(r.dict, w, v) <=> DictMeaning(more, w, n + 1) = v
  BY <1>1, DictMeant
<1>3. At(r.onlys_bare_dict, w) = BareMeaning(more, w, n + 1)
  BY <1>1, BareMeant
<1>4. /\ Phonemes(q.noun_dict) /\ Phonemes(q.verb_dict) /\ Phonemes(q.past_dict)
      /\ q.compound_prefixes \in Seq(Keys \X Values)
      /\ {"noun", "verb", "past"} \subseteq Storing
  BY DEF Typed, MapFields, Storing, Deeds
<1>5. /\ At(q.noun_dict, w) = FirstMeaning(lines, w, n, "noun")
      /\ At(q.verb_dict, w) = FirstMeaning(lines, w, n, "verb")
      /\ At(q.past_dict, w) = FirstMeaning(lines, w, n, "past")
      /\ Listed(q.compound_prefixes, w) = PrefixPhonemes(lines, w, n)
  BY DEF Meant
<1>6. At(First(q.noun_dict, e, "noun"), w) = FirstMeaning(more, w, n + 1, "noun")
  BY <1>4, <1>5, FirstMeant
<1>7. At(First(q.verb_dict, e, "verb"), w) = FirstMeaning(more, w, n + 1, "verb")
  BY <1>4, <1>5, FirstMeant
<1>8. At(First(q.past_dict, e, "past"), w) = FirstMeaning(more, w, n + 1, "past")
  BY <1>4, <1>5, FirstMeant
<1>9. Listed(r.compound_prefixes, w) = PrefixPhonemes(more, w, n + 1)
  <2>1. PICK s \in Seq(Keys \X Values) : s = q.compound_prefixes
    BY <1>4
  <2>2. PICK t : t = r.compound_prefixes
    OBVIOUS
  <2>3. t = Prefixed(s, e)
    BY <1>1, <2>1, <2>2 DEF Prefixed
  <2>4. Listed(s, w) = PrefixPhonemes(lines, w, n)
    BY <1>5, <2>1
  <2> QED
    BY <2>2, <2>3, <2>4, PrefixMeant
<1> QED
  BY <1>1, <1>2, <1>3, <1>6, <1>7, <1>8, <1>9 DEF Meant

(* A line that says nothing leaves what was meant.                         *)
LEMMA SilentMeant ==
  ASSUME NEW q, NEW lines, NEW line, NEW more, Extends(more, lines, line),
         NEW n, n = Len(lines), NEW w \in Keys, Meant(q, lines, n, w),
         Says[line] = {}, NEW r, Kept(r, q, {})
  PROVE  Meant(r, more, n + 1, w)
<1>1. \A what : ~Hits(line, w, what)
  BY DEF Hits
<1>2. /\ r.dict = q.dict /\ r.onlys_bare_dict = q.onlys_bare_dict
      /\ r.noun_dict = q.noun_dict /\ r.verb_dict = q.verb_dict
      /\ r.past_dict = q.past_dict /\ r.compound_prefixes = q.compound_prefixes
  BY DEF Kept
<1>3. DictMeaning(more, w, n + 1) = DictMeaning(lines, w, n)
  BY <1>1, DictNext
<1>4. BareMeaning(more, w, n + 1) = BareMeaning(lines, w, n)
  <2>1. PICK yields :
          yields = (Hits(line, w, "yields") /\ DictMeaning(lines, w, n) # NULL)
    OBVIOUS
  <2>2. BareMeaning(more, w, n + 1) =
          IF yields THEN Spoken(more, n + 1) ELSE BareMeaning(lines, w, n)
    BY <2>1, BareNext
  <2> QED
    BY <1>1, <2>1, <2>2
<1>5. ASSUME NEW what \in Storing
      PROVE  FirstMeaning(more, w, n + 1, what) = FirstMeaning(lines, w, n, what)
  <2>1. PICK hits :
          hits = (Hits(line, w, what) /\ FirstMeaning(lines, w, n, what) = NULL)
    OBVIOUS
  <2>2. FirstMeaning(more, w, n + 1, what) =
          IF hits THEN Spoken(more, n + 1) ELSE FirstMeaning(lines, w, n, what)
    BY <2>1, FirstNext
  <2> QED
    BY <1>1, <2>1, <2>2
<1>6. {"noun", "verb", "past"} \subseteq Storing
  BY DEF Storing, Deeds
<1>7. PrefixPhonemes(more, w, n + 1) = PrefixPhonemes(lines, w, n)
  <2>1. Of(more, w, n + 1, "prefix") = Of(lines, w, n, "prefix")
    BY <1>1, OfNext
  <2>2. n \in 0 .. Len(lines)
    BY DEF Extends
  <2>3. PrefixPhonemes(more, w, n) = PrefixPhonemes(lines, w, n)
    BY <2>2, PrefixEarlier
  <2>4. Of(more, w, n, "prefix") = Of(lines, w, n, "prefix")
    BY <2>2, OfEarlier
  <2> QED
    BY <2>1, <2>3, <2>4 DEF PrefixPhonemes
<1> QED
  BY <1>2, <1>3, <1>4, <1>5, <1>6, <1>7 DEF Meant

(* A line that is read but not stored says nothing about what is.          *)
LEMMA HungMeant ==
  ASSUME NEW q, NEW lines, NEW line, NEW more, Extends(more, lines, line),
         NEW n, n = Len(lines), NEW w \in Keys, Meant(q, lines, n, w)
  PROVE  Meant(q, more, n, w)
<1>1. n \in 0 .. Len(lines)
  BY DEF Extends
<1>2. DictMeaning(more, w, n) = DictMeaning(lines, w, n)
  BY <1>1, MeaningEarlier
<1>3. BareMeaning(more, w, n) = BareMeaning(lines, w, n)
  BY <1>1, BareEarlier
<1>4. \A what : FirstMeaning(more, w, n, what) = FirstMeaning(lines, w, n, what)
  BY <1>1, FirstEarlier
<1>5. PrefixPhonemes(more, w, n) = PrefixPhonemes(lines, w, n)
  BY <1>1, PrefixEarlier
<1> QED
  BY <1>2, <1>3, <1>4, <1>5 DEF Meant

-----------------------------------------------------------------------------
(* The end of the file.                                                    *)

(* t is s in another order.                                                *)
Permutes(order, s, t) ==
  /\ order \in [1 .. Len(s) -> 1 .. Len(s)]
  /\ \A i, j \in 1 .. Len(s) : order[i] = order[j] => i = j
  /\ t = [i \in 1 .. Len(s) |-> s[order[i]]]

(* A permutation lists of a word what is listed by what it permutes.       *)
LEMMA ListedPermuted ==
  ASSUME NEW s \in Seq(Keys \X Values), NEW t, NEW order, Permutes(order, s, t),
         NEW w
  PROVE  Listed(t, w) = Listed(s, w)
<1>0. PICK N \in Nat : N = Len(s)
  OBVIOUS
<1>1. /\ IsFiniteSet(1 .. N)
      /\ order \in [1 .. N -> 1 .. N]
      /\ \A i, j \in 1 .. N : order[i] = order[j] => i = j
      /\ t = [i \in 1 .. N |-> s[order[i]]]
  <2>1. IsFiniteSet(1 .. N)
    BY FS_Interval
  <2> QED
    BY <1>0, <2>1 DEF Permutes
<1>2. t \in Seq(Keys \X Values) /\ Len(t) = N
  <2>1. \A i \in 1 .. N : s[i] \in Keys \X Values
    BY <1>0
  <2>2. t \in [1 .. N -> Keys \X Values]
    BY <1>1, <2>1
  <2> QED
    BY <1>1, <2>2
<1>3. order \in Injection(1 .. N, 1 .. N)
  BY <1>1 DEF Injection, IsInjective
<1>4. order \in Surjection(1 .. N, 1 .. N)
  BY <1>1, <1>3, FS_Injection
<1>5. \A j \in 1 .. N : \E i \in 1 .. N : order[i] = j
  BY <1>4 DEF Surjection
<1>6. \A i \in 1 .. N : i \in Places(t, w) <=> order[i] \in Places(s, w)
  BY <1>0, <1>1, <1>2 DEF Places
<1>7. Places(t, w) \subseteq 1 .. N /\ Places(s, w) \subseteq 1 .. N
  BY <1>0, <1>2 DEF Places
<1>8. \A i \in Places(t, w) : t[i][2] = s[order[i]][2] /\ order[i] \in Places(s, w)
  BY <1>1, <1>6, <1>7
<1>9. \A j \in Places(s, w) : \E i \in Places(t, w) : t[i][2] = s[j][2]
  BY <1>1, <1>5, <1>6, <1>7
<1> QED
  BY <1>8, <1>9 DEF Listed

(* No longer prefix behind a shorter one.                                  *)
Descending(s) ==
  \A i, j \in 1 .. Len(s) : i < j => Size[s[i][1]] >= Size[s[j][1]]

(* It is enough to compare neighbours: of the prefixes that break the      *)
(* order behind i, the first would break it with its neighbour.            *)
LEMMA NeighboursSuffice ==
  ASSUME NEW s \in Seq(Keys \X Values),
         \A i \in 1 .. Len(s) - 1 : Size[s[i][1]] >= Size[s[i + 1][1]]
  PROVE  Descending(s)
<1> DEFINE size(i) == Size[s[i][1]]
<1>1. Len(s) \in Nat /\ \A i \in 1 .. Len(s) : size(i) \in Nat
  <2>1. ASSUME NEW i \in 1 .. Len(s) PROVE s[i][1] \in Keys
    OBVIOUS
  <2> QED
    BY <2>1, LinesAssumption
<1>2. \A i \in 1 .. Len(s) - 1 : size(i) >= size(i + 1)
  OBVIOUS
<1> HIDE DEF size
<1>3. ASSUME NEW i \in 1 .. Len(s), NEW k \in 1 .. Len(s), i < k, ~(size(i) >= size(k))
      PROVE  FALSE
  <2> DEFINE breaks == {j \in 1 .. Len(s) : i < j /\ ~(size(i) >= size(j))}
  <2>1. breaks \subseteq Nat /\ k \in breaks
    BY <1>3
  <2>2. PICK j \in breaks : \A m \in breaks : j <= m
    BY <2>1, LeastNumber
  <2>3. j \in 1 .. Len(s) /\ i < j /\ ~(size(i) >= size(j))
    BY <2>2
  <2>4. PICK h \in 1 .. Len(s) - 1 : h = j - 1 /\ i <= h
    BY <1>1, <2>3
  <2>5. size(h) >= size(j)
    BY <1>2, <2>3, <2>4
  <2>6. size(i) >= size(h)
    <3>1. h \notin breaks
      BY <2>2, <2>3, <2>4
    <3>2. CASE i = h
      BY <1>1, <3>2
    <3>3. CASE i < h
      BY <2>4, <3>1, <3>3
    <3> QED
      BY <2>4, <3>2, <3>3
  <2>7. size(i) \in Nat /\ size(h) \in Nat /\ size(j) \in Nat
    BY <1>1, <2>3, <2>4
  <2> QED
    BY <2>3, <2>5, <2>6, <2>7
<1> QED
  BY <1>3 DEF Descending, size

-----------------------------------------------------------------------------
(* The invariant of the load: the fields keep their types, the table its   *)
(* chains and its count; a hang is a full table; and the maps say what the *)
(* lines stored say.                                                       *)
Progress == /\ phase \in {"loading", "loaded", "hung"}
            /\ read \in Seq(Lines) /\ Len(read) <= MaxLines
            /\ phase = "hung" => Len(read) > 0 /\ Full(p.dict)
            /\ phase = "loaded" => Descending(p.compound_prefixes)

IInv == /\ Progress
        /\ Typed(p) /\ p.hung = FALSE
        /\ \A w \in Keys : Meant(p, read, Stored, w)

(* map_init() gives a table.                                               *)
LEMMA NewTableCounted == Counted(NewTable(0)) /\ LiveSlots(NewTable(0)) = {}
<1>1. PICK c \in Nat : c = 0
  OBVIOUS
<1>2. PICK u : u = NewTable(c)
  OBVIOUS
<1>3. u = [slots |-> [i \in 0 .. c - 1 |-> EMPTY], count |-> 0, capacity |-> c]
  BY <1>2 DEF NewTable
<1>4. EMPTY \in Slots
  BY DEF Slots
<1>5. IsTable(u)
  BY <1>3, <1>4 DEF IsTable
<1>6. LiveSlots(u) = {}
  BY <1>1, <1>3 DEF LiveSlots
<1>7. u.count = Cardinality(LiveSlots(u)) /\ u.count * 4 <= u.capacity * 3
  BY <1>1, <1>3, <1>6, FS_EmptySet
<1> QED
  BY <1>1, <1>2, <1>5, <1>6, <1>7 DEF Counted, Sound, ChainsWhole, LoadBounded

(* Before the first line there is nothing, and nothing is meant.           *)
LEMMA InitHolds == Init => IInv
<1> SUFFICES ASSUME Init PROVE IInv
  OBVIOUS
<1>1. /\ p.dict = NewTable(0) /\ p.hung = FALSE
      /\ p.compound_prefixes = <<>> /\ p.stress_pos = Nothing
      /\ p.word_alt_flags = [w \in Keys |-> {}]
  BY DEF Init
<1>2. \A f \in SetFields : p[f] = {}
  BY DEF Init, SetFields
<1>3. \A f \in MapFields : p[f] = Nothing
  BY DEF Init, MapFields
<1>4. Tracked \subseteq DOMAIN p
  BY DEF Init, Tracked, SetFields, MapFields
<1>5. DOMAIN Nothing = {}
  BY DEF Nothing
<1>6. Typed(p)
  BY <1>1, <1>2, <1>3, <1>4, <1>5, NewTableCounted DEF Typed, Phonemes, Stresses
<1>7. read = <<>> /\ phase = "loading"
  BY DEF Init
<1>8. Stored = 0
  BY <1>7 DEF Stored
<1>9. ASSUME NEW w \in Keys PROVE Meant(p, read, 0, w)
  <2>1. \A v \in Values : ~Binds(p.dict, w, v)
    BY <1>1, NewTableCounted DEF Binds
  <2>2. At(Nothing, w) = NULL
    BY <1>5 DEF At
  <2>3. /\ p.onlys_bare_dict = Nothing /\ p.noun_dict = Nothing
        /\ p.verb_dict = Nothing /\ p.past_dict = Nothing
    BY <1>3 DEF MapFields
  <2>4. Places(p.compound_prefixes, w) = {}
    BY <1>1 DEF Places
  <2>5. /\ DictMeaning(read, w, 0) = NULL /\ BareMeaning(read, w, 0) = NULL
        /\ FirstMeaning(read, w, 0, "noun") = NULL
        /\ FirstMeaning(read, w, 0, "verb") = NULL
        /\ FirstMeaning(read, w, 0, "past") = NULL
        /\ Of(read, w, 0, "prefix") = {}
    BY NothingSaid
  <2>6. Listed(p.compound_prefixes, w) = {} /\ PrefixPhonemes(read, w, 0) = {}
    BY <2>4, <2>5 DEF Listed, PrefixPhonemes
  <2> QED
    BY <2>1, <2>2, <2>3, <2>5, <2>6, NullAssumption DEF Meant
<1>10. Progress
  BY <1>7, LinesAssumption DEF Progress
<1> QED
  BY <1>1, <1>6, <1>8, <1>9, <1>10 DEF IInv

(* A line is read: it is stored as it says, or a probe for its word hangs. *)
LEMMA ReadHolds ==
  ASSUME IInv, ReadLine
  PROVE  IInv'
<1>1. /\ phase = "loading" /\ Len(read) < MaxLines /\ read \in Seq(Lines)
      /\ Typed(p) /\ p.hung = FALSE
  BY DEF ReadLine, IInv, Progress
<1>2. PICK line \in Lines :
        LET q == LoadLine(p, line)
        IN  /\ read' = Append(read, line)
            /\ IF q.hung THEN p' = p /\ phase' = "hung"
               ELSE p' = q /\ UNCHANGED phase
  BY DEF ReadLine
<1>3. PICK r : r = LoadLine(p, line)
  OBVIOUS
<1>4. /\ read' = Append(read, line)
      /\ r.hung = TRUE => p' = p /\ phase' = "hung"
      /\ r.hung = FALSE => p' = r /\ phase' = "loading"
  BY <1>1, <1>2, <1>3
<1>5. PICK more : more = read'
  OBVIOUS
<1>6. PICK n \in Nat : n = Len(read)
  BY <1>1
<1>7. Extends(more, read, line)
  BY <1>1, <1>4, <1>5 DEF Extends
<1>8. /\ more \in Seq(Lines) /\ Len(more) = n + 1 /\ Len(more) <= MaxLines
  BY <1>1, <1>4, <1>5, <1>6, LinesAssumption
<1>9. \A w \in Keys : Meant(p, read, n, w)
  BY <1>1, <1>6 DEF IInv, Stored
<1>10. CASE r.hung = FALSE /\ Typed(r) /\ \A w \in Keys : Meant(r, more, n + 1, w)
  <2>1. p' = r /\ phase' = "loading"
    BY <1>4, <1>10
  <2>2. Stored' = n + 1
    BY <1>5, <1>8, <2>1 DEF Stored
  <2>3. Progress'
    BY <1>5, <1>8, <2>1 DEF Progress
  <2> QED
    BY <1>5, <1>10, <2>1, <2>2, <2>3 DEF IInv
<1>11. CASE r.hung = TRUE /\ Full(p.dict)
  <2>1. p' = p /\ phase' = "hung"
    BY <1>4, <1>11
  <2>2. Stored' = n
    BY <1>5, <1>6, <1>8, <2>1 DEF Stored
  <2>3. Progress'
    BY <1>5, <1>6, <1>8, <1>11, <2>1 DEF Progress
  <2>4. \A w \in Keys : Meant(p, more, n, w)
    BY <1>6, <1>7, <1>9, HungMeant
  <2> QED
    BY <1>1, <1>5, <2>1, <2>2, <2>3, <2>4 DEF IInv
<1>12. CASE Says[line] = {} /\ Typed(r) /\ Kept(r, p, {})
  <2>1. r.hung = FALSE
    BY <1>1, <1>12 DEF Kept
  <2>2. \A w \in Keys : Meant(r, more, n + 1, w)
    BY <1>6, <1>7, <1>9, <1>12, SilentMeant
  <2> QED
    BY <1>10, <1>12, <2>1, <2>2
<1>13. ASSUME NEW e, Proper(e), Says[line] = Said(e), Outcome(r, p, e)
       PROVE  IInv'
  <2>1. CASE Hangs(p.dict, e)
    <3>1. r.hung = TRUE
      BY <1>13, <2>1 DEF Outcome
    <3>2. PICK k \in Keys : k = e.w
      BY <1>13 DEF Proper
    <3>3. ~PutEnds(p.dict, k) \/ ~GetEnds(p.dict, k)
      BY <2>1, <3>2 DEF Hangs
    <3>4. Full(p.dict)
      BY <1>1, <3>3, HangsFull DEF Typed
    <3> QED
      BY <1>11, <3>1, <3>4
  <2>2. CASE ~Hangs(p.dict, e)
    <3>1. r.hung = FALSE /\ Typed(r)
      BY <1>13, <2>2 DEF Outcome
    <3>2. \A w \in Keys : Meant(r, more, n + 1, w)
      BY <1>1, <1>6, <1>7, <1>9, <1>13, <2>2, StoredMeant
    <3> QED
      BY <1>10, <3>1, <3>2
  <2> QED
    BY <2>1, <2>2
<1> QED
  BY <1>1, <1>3, <1>12, <1>13, LineOutcome

(* The end of the file sorts the prefixes and forgets no other word.       *)
LEMMA EndHolds ==
  ASSUME IInv, EndOfFile
  PROVE  IInv'
<1>1. PICK s : s = p.compound_prefixes
  OBVIOUS
<1>2. PICK t \in [1 .. Len(s) -> ToSet(s)] :
        /\ Sorted(s, t)
        /\ p' = [p EXCEPT !.compound_prefixes = t,
                          !.unstressed_words = @ \ {"made"}]
  BY <1>1 DEF EndOfFile
<1>3. /\ Typed(p) /\ p.hung = FALSE /\ s \in Seq(Keys \X Values)
      /\ phase = "loading" /\ phase' = "loaded" /\ read' = read
  BY <1>1 DEF IInv, EndOfFile, Typed
<1>4. PICK N \in Nat : N = Len(s)
  BY <1>3
<1>5. PICK order : Permutes(order, s, t)
  BY <1>2 DEF Sorted, Permutes
<1>6. t \in Seq(Keys \X Values) /\ Len(t) = N
  <2>1. \A i \in 1 .. N : s[i] \in Keys \X Values
    BY <1>3, <1>4
  <2>2. t \in [1 .. N -> Keys \X Values]
    BY <1>4, <1>5, <2>1 DEF Permutes
  <2> QED
    BY <2>2
<1>7. Descending(t)
  <2>1. \A i \in 1 .. Len(t) - 1 : Size[t[i][1]] >= Size[t[i + 1][1]]
    BY <1>2 DEF Sorted
  <2> QED
    BY <1>6, <2>1, NeighboursSuffice
<1>8. PICK r : r = p'
  OBVIOUS
<1>9. {"compound_prefixes", "unstressed_words"} \subseteq DOMAIN p
  BY <1>3 DEF Typed, Tracked, SetFields
<1>10. /\ DOMAIN r = DOMAIN p
       /\ \A f \in DOMAIN p :
            f \notin {"compound_prefixes", "unstressed_words"} => r[f] = p[f]
       /\ r.compound_prefixes = t
       /\ r.unstressed_words \subseteq p.unstressed_words
  BY <1>2, <1>8, <1>9
<1>11. Same(r, p, {"compound_prefixes", "unstressed_words"})
  BY <1>10 DEF Same
<1>12. Kept(r, p, {"compound_prefixes", "unstressed_words"})
  BY <1>3, <1>11, SameKept
<1>13. Typed(r)
  <2>1. \A f \in MapFields \cup {"dict", "stress_pos", "word_alt_flags"} : r[f] = p[f]
    <3>1. \A f \in MapFields \cup {"dict", "stress_pos", "word_alt_flags"} :
            f \in DOMAIN p /\ f \notin {"compound_prefixes", "unstressed_words"}
      BY <1>3, Names DEF Typed, Tracked, MapFields
    <3> QED
      BY <1>10, <3>1
  <2>2. \A f \in SetFields : r[f] \subseteq p[f]
    <3>1. \A f \in SetFields : f \in DOMAIN p /\ f # "compound_prefixes"
      BY <1>3, Names DEF Typed, Tracked
    <3> QED
      BY <1>10, <3>1
  <2>3. \A f \in SetFields : r[f] \subseteq Keys
    BY <1>3, <2>2 DEF Typed
  <2>4. Tracked \subseteq DOMAIN r
    BY <1>3, <1>10 DEF Typed
  <2> QED
    BY <1>3, <1>6, <1>10, <2>1, <2>3, <2>4 DEF Typed
<1>14. ASSUME NEW w \in Keys PROVE Meant(r, read, Len(read), w)
  <2>1. Meant(p, read, Len(read), w)
    BY <1>3 DEF IInv, Stored
  <2>2. Listed(t, w) = Listed(s, w)
    <3>1. s \in Seq(Keys \X Values) /\ Permutes(order, s, t)
      BY <1>3, <1>5
    <3> HIDE <1>2, <1>3, <1>5
    <3> QED
      BY <3>1, ListedPermuted, ZenonT(60)
  <2>3. /\ r.dict = p.dict /\ r.onlys_bare_dict = p.onlys_bare_dict
        /\ r.noun_dict = p.noun_dict /\ r.verb_dict = p.verb_dict
        /\ r.past_dict = p.past_dict
    BY <1>12 DEF Kept
  <2> QED
    BY <1>1, <1>10, <2>1, <2>2, <2>3 DEF Meant
<1>15. Stored' = Len(read)
  BY <1>3 DEF Stored
<1>16. r.hung = FALSE
  BY <1>3, <1>12 DEF Kept
<1>17. Progress'
  BY <1>3, <1>7, <1>8, <1>10 DEF IInv, Progress
<1> QED
  BY <1>3, <1>8, <1>13, <1>14, <1>15, <1>16, <1>17 DEF IInv

(* Whatever lines a file holds, in whatever order, load_dictionary() keeps *)
(* the invariant.                                                          *)
THEOREM LoadHolds == Spec => []IInv
<1>1. IInv /\ UNCHANGED vars => IInv'
  BY DEF IInv, Progress, Stored, vars
<1>2. IInv /\ [Next]_vars => IInv'
  BY <1>1, ReadHolds, EndHolds DEF Next
<1> QED
  BY <1>2, InitHolds, PTL DEF Spec

(* The state of the loader keeps its types: no map ever holds the flag     *)
(* that stood in the phonemes column.                                      *)
THEOREM TypeCorrect == Spec => []TypeOK
<1>1. IInv => TypeOK
  <2> SUFFICES ASSUME IInv PROVE TypeOK
    OBVIOUS
  <2>1. PICK t : t = p.dict
    OBVIOUS
  <2>2. IsTable(t) /\ LoadBounded(t)
    BY <2>1 DEF IInv, Typed, Counted, Sound
  <2>3. t.capacity \in Nat /\ t.slots \in [0 .. t.capacity - 1 -> Slots]
    BY <2>2 DEF IsTable
  <2>4. t.count \in Nat
    BY <2>2, LiveFinite DEF LoadBounded
  <2> QED
    BY <2>1, <2>3, <2>4 DEF IInv, Progress, Typed, Phonemes, Stresses, TypeOK
<1> QED
  BY <1>1, LoadHolds, PTL

(* Every word the dictionary holds is found, and held once, after any      *)
(* lines in any order: the chains of the table stay whole.                 *)
THEOREM ChainsStayWhole == Spec => []DictChains
<1>1. IInv => DictChains
  BY DEF IInv, Typed, Counted, Sound, DictChains
<1> QED
  BY <1>1, LoadHolds, PTL

(* The loader hangs in a probe only when a quarter of the slots or more    *)
(* are tombstones: erasures of "$altN" lines, not entries, fill the table. *)
THEOREM HangsOfTombstones == Spec => []HangNeedsTombstones
<1>1. IInv => HangNeedsTombstones
  <2> SUFFICES ASSUME IInv PROVE HangNeedsTombstones
    OBVIOUS
  <2>1. Counted(p.dict) /\ (phase = "hung" => Full(p.dict))
    BY DEF IInv, Progress, Typed
  <2> QED
    BY <2>1, FullOfTombstones DEF Counted, HangNeedsTombstones
<1> QED
  BY <1>1, LoadHolds, PTL

(* What word_to_phonemes() will find for a word is what the lines say of   *)
(* it, for every file.                                                     *)
THEOREM LinesDecide == Spec => []EntriesMeanLines
<1>1. IInv => EntriesMeanLines
  <2> SUFFICES ASSUME IInv, NEW w \in Keys
               PROVE  /\ GetEnds(p.dict, w) =>
                           Get(p.dict, w) = DictMeaning(read, w, Stored)
                      /\ GetEnds(p.dict, w) \/ DictMeaning(read, w, Stored) = NULL
                      /\ At(p.onlys_bare_dict, w) = BareMeaning(read, w, Stored)
                      /\ At(p.noun_dict, w) = FirstMeaning(read, w, Stored, "noun")
                      /\ At(p.verb_dict, w) = FirstMeaning(read, w, Stored, "verb")
                      /\ At(p.past_dict, w) = FirstMeaning(read, w, Stored, "past")
    BY DEF EntriesMeanLines
  <2>1. Typed(p) /\ Meant(p, read, Stored, w) /\ read \in Seq(Lines)
    BY DEF IInv, Progress
  <2>2. PICK n \in 0 .. Len(read) : n = Stored
    BY DEF IInv, Progress, Stored
  <2>3. /\ GetEnds(p.dict, w) => Get(p.dict, w) = DictMeaning(read, w, n)
        /\ GetEnds(p.dict, w) \/ DictMeaning(read, w, n) = NULL
    BY <2>1, <2>2, Answered
  <2> QED
    BY <2>1, <2>2, <2>3 DEF Meant
<1> QED
  BY <1>1, LoadHolds, PTL

(* A prefix fits when the lines mean something by its rest.                *)
LEMMA FitMeant ==
  ASSUME IInv, phase = "loaded", NEW word \in DOMAIN Splits, NEW split \in Splits[word],
         split.rest # NULL => GetEnds(p.dict, split.rest)
  PROVE  /\ split.prefix \in Keys
         /\ PrefixFits(p, split) <=>
              /\ Size[split.prefix] >= 4
              /\ split.rest # NULL =>
                   \/ DictMeaning(read, split.rest, Stored) # NULL
                   \/ FirstMeaning(read, split.rest, Stored, "verb") # NULL
<1>1. split.prefix \in Keys /\ split.rest \in Keys \cup {NULL}
  BY SplitsAssumption
<1>2. CASE split.rest = NULL
  BY <1>1, <1>2 DEF PrefixFits
<1>3. CASE split.rest # NULL
  <2>1. PICK w \in Keys : w = split.rest
    BY <1>1, <1>3
  <2>2. Typed(p) /\ Meant(p, read, Stored, w) /\ read \in Seq(Lines)
    BY DEF IInv, Progress
  <2>3. PICK n \in 0 .. Len(read) : n = Stored
    BY <2>2 DEF Stored
  <2>4. Get(p.dict, w) = DictMeaning(read, w, n)
    BY <1>3, <2>1, <2>2, <2>3, Answered
  <2>5. At(p.verb_dict, w) = FirstMeaning(read, w, n, "verb") /\ Phonemes(p.verb_dict)
    BY <2>2, <2>3 DEF Meant, Typed, MapFields
  <2>6. w \in DOMAIN p.verb_dict <=> At(p.verb_dict, w) # NULL
    BY <2>5, NullAssumption DEF At, Phonemes
  <2> QED
    BY <1>1, <1>3, <2>1, <2>3, <2>4, <2>5, <2>6 DEF PrefixFits
<1> QED
  BY <1>2, <1>3

(* What check_compound_prefixes() takes for a word is what the file says:  *)
(* the longest prefix that fits, with the phonemes of a line that made it  *)
(* one, whatever order qsort() leaves equals in.                           *)
THEOREM CompoundsDecide == Spec => []CompoundsMeanLines
<1>1. IInv => CompoundsMeanLines
  <2> SUFFICES ASSUME IInv, phase = "loaded", NEW word \in DOMAIN Splits,
                      \A split \in Splits[word] :
                        split.rest # NULL => GetEnds(p.dict, split.rest)
               PROVE  LET meant == SplitsMeant(read, word, Stored)
                          found == CompoundScan(p, word)
                      IN  IF meant = {} THEN found = NULL
                          ELSE \E split \in meant :
                            /\ \A other \in meant : Size[other.prefix] <= Size[split.prefix]
                            /\ found[1] = split.prefix
                            /\ found[2] \in PrefixPhonemes(read, split.prefix, Stored)
    BY DEF CompoundsMeanLines
  <2>1. PICK list \in Seq(Keys \X Values) :
          list = p.compound_prefixes /\ Descending(list)
    BY DEF IInv, Progress, Typed
  <2>2. \A split \in Splits[word] : split.prefix \in Keys
    BY SplitsAssumption
  <2>3. ASSUME NEW w \in Keys
        PROVE  Listed(list, w) = PrefixPhonemes(read, w, Stored)
    BY <2>1 DEF IInv, Meant
  <2>4. ASSUME NEW split \in Splits[word]
        PROVE  split \in SplitsMeant(read, word, Stored) <=>
                 PrefixFits(p, split) /\ Places(list, split.prefix) # {}
    <3>1. PrefixFits(p, split) <=>
            /\ Size[split.prefix] >= 4
            /\ split.rest # NULL =>
                 \/ DictMeaning(read, split.rest, Stored) # NULL
                 \/ FirstMeaning(read, split.rest, Stored, "verb") # NULL
      BY FitMeant
    <3>2. Places(list, split.prefix) # {} <=> Listed(list, split.prefix) # {}
      BY DEF Listed
    <3>3. Of(read, split.prefix, Stored, "prefix") # {} <=>
            PrefixPhonemes(read, split.prefix, Stored) # {}
      BY DEF PrefixPhonemes
    <3>4. Listed(list, split.prefix) = PrefixPhonemes(read, split.prefix, Stored)
      BY <2>2, <2>3
    <3> QED
      BY <3>1, <3>2, <3>3, <3>4 DEF SplitsMeant
  <2>5. SplitsMeant(read, word, Stored) \subseteq Splits[word]
    BY DEF SplitsMeant
  <2>6. PICK meant : meant = SplitsMeant(read, word, Stored)
    OBVIOUS
  <2>7. PICK fit \in SUBSET (1 .. Len(list)) :
          /\ fit = {i \in 1 .. Len(list) : \E split \in Splits[word] :
                      split.prefix = list[i][1] /\ PrefixFits(p, split)}
          /\ CompoundScan(p, word) = IF fit = {} THEN NULL ELSE list[Min(fit)]
    BY <2>1 DEF CompoundScan
  <2>8. \A i \in fit : \E split \in meant : split.prefix = list[i][1]
    <3>1. SUFFICES ASSUME NEW i \in fit PROVE \E split \in meant : split.prefix = list[i][1]
      OBVIOUS
    <3>2. PICK split \in Splits[word] : split.prefix = list[i][1] /\ PrefixFits(p, split)
      BY <2>7
    <3>3. i \in Places(list, split.prefix)
      BY <2>7, <3>2 DEF Places
    <3> QED
      BY <2>4, <2>6, <3>2, <3>3
  <2>9. \A split \in meant : \E i \in fit : split.prefix = list[i][1]
    <3>1. SUFFICES ASSUME NEW split \in meant PROVE \E i \in fit : split.prefix = list[i][1]
      OBVIOUS
    <3>2. split \in Splits[word] /\ PrefixFits(p, split)
      BY <2>4, <2>5, <2>6
    <3>3. PICK i \in 1 .. Len(list) : list[i][1] = split.prefix
      BY <2>4, <2>5, <2>6 DEF Places
    <3> QED
      BY <2>7, <3>2, <3>3
  <2>10. CASE meant = {}
    <3>1. fit = {}
      BY <2>8, <2>10
    <3> QED
      BY <2>6, <2>7, <2>10, <3>1
  <2>11. CASE meant # {}
    <3>1. fit # {} /\ fit \subseteq Nat
      BY <2>9, <2>11
    <3>2. PICK m \in fit : m = Min(fit) /\ \A i \in fit : m <= i
      BY <3>1, MinFound
    <3>3. PICK split \in meant : split.prefix = list[m][1]
      BY <2>8, <3>2
    <3>4. CompoundScan(p, word) = list[m]
      BY <2>7, <3>1, <3>2
    <3>5. ASSUME NEW other \in meant PROVE Size[other.prefix] <= Size[split.prefix]
      <4>1. PICK i \in fit : other.prefix = list[i][1]
        BY <2>9
      <4>2. PICK a \in Nat, b \in Nat : a = Size[list[m][1]] /\ b = Size[list[i][1]]
        <5>1. list[m][1] \in Keys /\ list[i][1] \in Keys
          BY <2>2, <2>5, <2>6, <3>3, <4>1
        <5> QED
          BY <5>1, LinesAssumption
      <4>3. m = i \/ m < i
        BY <3>1, <3>2
      <4>4. a >= b
        BY <2>1, <2>7, <4>2, <4>3 DEF Descending
      <4> QED
        BY <3>3, <4>1, <4>2, <4>4
    <3>6. list[m][2] \in PrefixPhonemes(read, split.prefix, Stored)
      <4>1. list[m][2] \in Listed(list, split.prefix)
        BY <2>7, <3>2, <3>3 DEF Listed, Places
      <4> QED
        BY <2>2, <2>3, <2>5, <2>6, <4>1
    <3> QED
      BY <2>6, <2>11, <3>3, <3>4, <3>5, <3>6
  <2> QED
    BY <2>10, <2>11
<1> QED
  BY <1>1, LoadHolds, PTL

=============================================================================
