--------------------------- MODULE TraceRingProofs ---------------------------
(***************************************************************************)
(* Proofs about the trace ring, for every number of writers, readers and   *)
(* observers, every capacity and every bound.                              *)
(***************************************************************************)
EXTENDS TraceRing, TLAPS

-----------------------------------------------------------------------------
(* Arithmetic of the ring.                                                 *)

(* A slot index is in range.                                               *)
LEMMA SlotOfType == ASSUME NEW i \in Nat PROVE SlotOf(i) \in Slots
  BY CapacityAssumption DEF SlotOf, Slots

(* Two indices that share a slot are at least a lap apart.                 *)
LEMMA SlotDistance ==
  ASSUME NEW i \in Nat, NEW j \in Nat, SlotOf(i) = SlotOf(j), i < j
  PROVE  j >= i + Capacity
  <1> DEFINE C == Capacity
             p == i \div C
             q == j \div C
  <1>1. /\ C \in Nat \ {0} /\ p \in Int /\ q \in Int
        /\ i = C * p + (i % C) /\ j = C * q + (j % C)
    BY CapacityAssumption
  <1>2. i % C = j % C
    BY DEF SlotOf
  <1>3. C * q > C * p
    BY <1>1, <1>2
  <1>4. q >= p + 1
    BY <1>1, <1>3
  <1>5. C * q >= C * (p + 1)
    BY <1>1, <1>4
  <1>6. C * (p + 1) = C * p + C
    BY <1>1
  <1> QED BY <1>1, <1>2, <1>5, <1>6

(* An index one lap earlier takes the same slot.                           *)
LEMMA SlotLap ==
  ASSUME NEW i \in Nat, i >= Capacity
  PROVE  SlotOf(i - Capacity) = SlotOf(i)
  <1> DEFINE C == Capacity
             k == i - C
             p == i \div C
             q == k \div C
             r == i % C
             s == k % C
  <1>1. /\ C \in Nat \ {0} /\ k \in Nat
        /\ p \in Int /\ q \in Int /\ r \in 0 .. C-1 /\ s \in 0 .. C-1
        /\ i = C * p + r /\ k = C * q + s
    BY CapacityAssumption
  <1> HIDE DEF k, p, q, r, s
  <1> DEFINE d == p - 1 - q
  <1>2. d \in Int
    BY <1>1
  <1>3. C * d = s - r
    <2>1. C * (p - 1 - q) = C * p - C - C * q
      BY <1>1
    <2>2. i = k + C
      BY <1>1 DEF k
    <2> QED BY <1>1, <2>1, <2>2
  <1> HIDE DEF d
  <1>4. d = 0
    <2>1. CASE d >= 1
      <3>1. C * d >= C
        BY <1>1, <1>2, <2>1
      <3> QED BY <3>1, <1>1, <1>3
    <2>2. CASE d <= -1
      <3>1. C * d <= -C
        BY <1>1, <1>2, <2>2
      <3> QED BY <3>1, <1>1, <1>3
    <2> QED BY <1>2, <2>1, <2>2
  <1>5. s = r
    BY <1>1, <1>3, <1>4
  <1> QED BY <1>5 DEF r, s, k, SlotOf

(* The first lap is the identity.                                          *)
LEMMA SlotFirstLap == ASSUME NEW i \in Nat, i < Capacity PROVE SlotOf(i) = i
  BY CapacityAssumption DEF SlotOf

-----------------------------------------------------------------------------
(* Writing one field of an entry leaves an entry.                          *)
LEMMA EntryUpdates ==
  ASSUME ring \in [Slots -> Entry], NEW t
  PROVE  /\ [ring EXCEPT ![t].n = 1] \in [Slots -> Entry]
         /\ \A b \in Blocks : [ring EXCEPT ![t].msg = b] \in [Slots -> Entry]
  <1>1. \A e \in Entry : [e EXCEPT !.n = 1] \in Entry
    BY DEF Entry
  <1>2. \A e \in Entry : \A b \in Blocks : [e EXCEPT !.msg = b] \in Entry
    BY DEF Entry
  <1> QED BY <1>1, <1>2

(* Returning restores the caller's index from its frame.                   *)
LEMMA ReturnTypes ==
  ASSUME TypeOK, NEW w \in Writers, Return(w)
  PROVE  /\ pc' \in [Writers -> WriterPlaces]
         /\ idx' \in [Writers -> Nat]
         /\ stack' \in [Writers -> Seq(Nat)]
         /\ fn' \in [Writers -> Observers \cup {NULL}]
         /\ that' \in [Writers -> Observers \cup {NULL}]
  <1>1. CASE stack[w] = <<>>
    <2>1. /\ pc' = [pc EXCEPT ![w] = "idle"] /\ idx' = [idx EXCEPT ![w] = 0]
          /\ stack' = stack
          /\ fn' = [fn EXCEPT ![w] = NULL] /\ that' = [that EXCEPT ![w] = NULL]
      BY <1>1 DEF Return
    <2> QED BY <2>1 DEF TypeOK, WriterPlaces
  <1>2. CASE stack[w] # <<>>
    <2>1. stack[w] \in Seq(Nat)
      BY DEF TypeOK
    <2>2. Head(stack[w]) \in Nat /\ Tail(stack[w]) \in Seq(Nat)
      BY <1>2, <2>1
    <2> QED BY <1>2, <2>2, ZenonT(60) DEF TypeOK, Return, WriterPlaces
  <1> QED BY <1>1, <1>2

(* A later index written after the others leaves them in order.            *)
LEMMA AppendIncreasing ==
  ASSUME NEW s \in Seq(Nat), NEW n \in Nat,
         \A k \in DOMAIN s : s[k] < n,
         \A j, k \in DOMAIN s : j < k => s[j] < s[k]
  PROVE  LET t == Append(s, n)
         IN  /\ \A j, k \in DOMAIN t : j < k => t[j] < t[k]
             /\ \A k \in DOMAIN t : t[k] <= n
  <1> DEFINE t == Append(s, n)
             m == Len(s)
  <1>1. /\ m \in Nat /\ DOMAIN s = 1 .. m /\ DOMAIN t = 1 .. m + 1
        /\ t[m + 1] = n /\ \A k \in 1 .. m : t[k] = s[k] /\ s[k] \in Nat
    OBVIOUS
  <1> HIDE DEF t, m
  <1>2. \A k \in 1 .. m : t[k] < n /\ t[k] \in Nat
    BY <1>1
  <1>3. \A j, k \in 1 .. m : j < k => t[j] < t[k]
    BY <1>1
  <1>4. \A k \in DOMAIN t : k \in 1 .. m \/ k = m + 1
    BY <1>1
  <1>5. ASSUME NEW j \in DOMAIN t, NEW k \in DOMAIN t, j < k PROVE t[j] < t[k]
    <2>1. m \in Nat /\ j \in 1 .. m /\ (k \in 1 .. m \/ k = m + 1)
      BY <1>1, <1>5
    <2>2. CASE k \in 1 .. m
      BY <1>3, <1>5, <2>1, <2>2
    <2>3. CASE k = m + 1
      BY <1>1, <1>2, <2>1, <2>3
    <2> QED BY <2>1, <2>2, <2>3
  <1>6. \A k \in DOMAIN t : t[k] <= n
    BY <1>1, <1>2, <1>4
  <1> QED BY <1>5, <1>6 DEF t

(* Every step keeps the types.                                             *)
LEMMA TypeStep == TypeOK /\ [Next]_vars => TypeOK'
  <1> SUFFICES ASSUME TypeOK, [Next]_vars PROVE TypeOK'
    OBVIOUS
  <1> USE CapacityAssumption, LevelAssumption, NullAssumption
  <1> USE DEF TypeOK, Goto, logVars, obsVars, wrVars, rdVars, WriterPlaces, Critical
  <1>1. ASSUME NEW w \in Writers, Trace(w) PROVE TypeOK'
    BY <1>1 DEF Trace
  <1>2. ASSUME NEW w \in Writers, Reenter(w) PROVE TypeOK'
    BY <1>2 DEF Reenter
  <1>3. ASSUME NEW w \in Writers, WriterStep(w) PROVE TypeOK'
    <2>1. CASE Acquire(w)
      BY <2>1 DEF Acquire
    <2>2. CASE LoadHead(w)
      BY <2>2 DEF LoadHead
    <2>3. CASE FreeOld(w)
      BY <2>3 DEF FreeOld
    <2>4. CASE Clear(w)
      <3>1. PICK l \in Levels :
              ring' = [ring EXCEPT ![MySlot(w)] =
                         [gen |-> idx[w], level |-> l, msg |-> NULL, n |-> 0]]
        BY <2>4 DEF Clear
      <3>2. [gen |-> idx[w], level |-> l, msg |-> NULL, n |-> 0] \in Entry
        BY DEF Entry
      <3>3. ring' \in [Slots -> Entry]
        BY <3>1, <3>2
      <3> QED BY <2>4, <3>3 DEF Clear
    <2>5. CASE Allocate(w)
      <3>1. <<w, idx[w]>> \in Blocks
        BY DEF Blocks
      <3>2. ring' \in [Slots -> Entry]
        <4>1. ring' = [ring EXCEPT ![MySlot(w)].msg = <<w, idx[w]>>]
          BY <2>5 DEF Allocate
        <4> QED BY <3>1, <4>1, EntryUpdates
      <3> QED BY <2>5, <3>1, <3>2 DEF Allocate
    <2>6. CASE NoMessage(w)
      BY <2>6 DEF NoMessage
    <2>7. CASE Format(w)
      <3>1. ring' = [ring EXCEPT ![MySlot(w)].n = 1]
        BY <2>7 DEF Format
      <3>2. ring' \in [Slots -> Entry]
        BY <3>1, EntryUpdates
      <3> QED BY <2>7, <3>2 DEF Format
    <2>8. CASE Mirror(w)
      BY <2>8 DEF Mirror
    <2>9. CASE Publish(w)
      BY <2>9 DEF Publish
    <2>10. CASE Unlock(w)
      BY <2>10 DEF Unlock
    <2>11. CASE LoadObserver(w)
      BY <2>11, ReturnTypes, ZenonT(60) DEF LoadObserver
    <2>12. CASE TestCallback(w)
      <3>1. CASE slot.fn # NULL
        BY <2>12, <3>1, ZenonT(60) DEF TestCallback
      <3>2. CASE slot.fn = NULL
        BY <2>12, <3>2, ReturnTypes DEF TestCallback
      <3> QED BY <3>1, <3>2
    <2>13. CASE Call(w)
      BY <2>13 DEF Call
    <2>14. CASE ReadContext(w)
      BY <2>14 DEF ReadContext
    <2>15. CASE CallbackReturns(w)
      BY <2>15, ReturnTypes DEF CallbackReturns
    <2> QED BY <1>3, <2>1, <2>2, <2>3, <2>4, <2>5, <2>6, <2>7, <2>8, <2>9,
               <2>10, <2>11, <2>12, <2>13, <2>14, <2>15 DEF WriterStep
  <1>4. ASSUME NEW r \in Readers, ReaderStep(r) PROVE TypeOK'
    <2>1. ASSUME NEW i \in 0 .. MaxHead, TraceAt(r, i) PROVE TypeOK'
      BY <2>1, BoundAssumption DEF TraceAt
    <2>2. CASE ReadFields(r)
      BY <2>2, SlotOfType DEF ReadFields
    <2>3. CASE ReadText(r)
      BY <2>3 DEF ReadText, EmptyEntry, Entry
    <2> QED BY <1>4, <2>1, <2>2, <2>3 DEF ReaderStep
  <1>5. CASE SubscriberStep
    BY <1>5, ZenonT(60) DEF SubscriberStep, Detach, Subscribe, CopyThat, CopyFn, StoreObserver
  <1>6. ASSUME NEW l \in MinLevels, SetMinLevel(l) PROVE TypeOK'
    BY <1>6 DEF SetMinLevel
  <1>7. CASE UNCHANGED vars
    BY <1>7 DEF vars
  <1> QED BY <1>1, <1>2, <1>3, <1>4, <1>5, <1>6, <1>7 DEF Next

(* The initial state has its types.                                        *)
LEMMA TypeInit == Init => TypeOK
  <1>1. EmptyEntry \in Entry
    BY DEF EmptyEntry, Entry
  <1> SUFFICES ASSUME Init PROVE TypeOK
    OBVIOUS
  <1>2. ring \in [Slots -> Entry] /\ got \in [Readers -> Entry]
    BY <1>1 DEF Init
  <1>3. stack \in [Writers -> Seq(Nat)]
    BY DEF Init
  <1>4. /\ minLevel \in Nat /\ heap \subseteq Blocks
        /\ slot \in [that : Observers \cup {NULL}, fn : Observers \cup {NULL}]
    BY DEF Init, Error
  <1>5. /\ pc \in [Writers -> WriterPlaces] /\ idx \in [Writers -> Nat]
        /\ fn \in [Writers -> Observers \cup {NULL}]
        /\ that \in [Writers -> Observers \cup {NULL}]
    BY DEF Init, WriterPlaces
  <1>6. lock \in BOOLEAN /\ attached \in BOOLEAN
    BY DEF Init
  <1>7. /\ head \in Nat /\ mirrored \in Seq(Nat) /\ want \in [Readers -> Nat]
        /\ rpc \in [Readers -> {"idle", "fields", "text"}]
        /\ spc \in {"idle", "that", "fn", "store"}
        /\ sub \in Observers \cup {NULL}
    BY DEF Init
  <1> QED BY <1>2, <1>3, <1>4, <1>5, <1>6, <1>7 DEF TypeOK

(* The ring, the lock and every thread keep their types, in every state.   *)
THEOREM TypeCorrect == Spec => []TypeOK
  BY TypeInit, TypeStep, PTL DEF Spec

-----------------------------------------------------------------------------
(* The invariant.                                                          *)

(* Steps outside the lock that leave the log alone: what they may disturb  *)
(* are the bounds on indices and the copies of the readers.                *)
LEMMA QuietStep ==
  ASSUME IInv, TypeOK', UNCHANGED <<lock, head, ring, heap, mirrored>>,
         \A w \in Writers : \/ pc'[w] = pc[w] /\ idx'[w] = idx[w]
                            \/ pc[w] \notin Critical /\ pc'[w] \notin Critical,
         IndexInv', CopyValid'
  PROVE  IInv'
  <1> USE DEF IInv
  <1>1. \A w \in Writers : pc'[w] \in Critical \/ pc[w] \in Critical
                            => pc'[w] = pc[w] /\ idx'[w] = idx[w]
    OBVIOUS
  <1>2. LockInv'
    BY <1>1 DEF LockInv
  <1>3. WindowInv' /\ FreshInv' /\ BlockInv'
    BY DEF WindowInv, FreshInv, BlockInv, Complete, Log!Retained
  <1>4. OldestInv'
    BY <1>1 DEF OldestInv, Filling, Critical, Complete
  <1>5. StageInv'
    BY <1>1 DEF StageInv, Critical, Complete
  <1>6. HeapOwned'
    <2>1. \A t : BeingFreed(t)' <=> BeingFreed(t)
      BY <1>1 DEF BeingFreed, Critical
    <2> QED BY <2>1 DEF HeapOwned, Owns
  <1>7. MirrorInv' /\ MirrorInOrder'
    BY <1>1 DEF MirrorInv, MirrorInOrder, Critical
  <1> QED BY <1>2, <1>3, <1>4, <1>5, <1>6, <1>7

(* While a writer holds the lock no other one is inside.                   *)
LEMMA Alone ==
  ASSUME LockInv, NEW w \in Writers, pc[w] \in Critical,
         NEW v \in Writers, v # w
  PROVE  pc[v] \notin Critical
  BY DEF LockInv

(* An entry of the window never shares its slot with the next entry.       *)
LEMMA WindowSlots ==
  ASSUME TypeOK, NEW i \in Log!Retained(head)
  PROVE  i \in Nat /\ i < head /\ head < i + Capacity /\ SlotOf(i) # SlotOf(head)
  <1>1. i \in Nat /\ i < head /\ head < i + Capacity
    BY CapacityAssumption DEF Log!Retained, TypeOK
  <1>2. SlotOf(i) # SlotOf(head)
    BY <1>1, SlotDistance, CapacityAssumption DEF TypeOK
  <1> QED BY <1>1, <1>2

(* Returning from a call brings back an index that was published.          *)
LEMMA ReturnStep ==
  ASSUME IInv, TypeOK', NEW w \in Writers, Return(w), pc[w] \notin Critical,
         UNCHANGED <<logVars, rdVars>>
  PROVE  IInv'
  <1> USE DEF logVars, rdVars
  <1>1. TypeOK /\ IndexInv
    BY DEF IInv
  <1>2. \A v \in Writers : v # w => /\ pc'[v] = pc[v] /\ idx'[v] = idx[v]
                                   /\ stack'[v] = stack[v]
    BY <1>1 DEF Return, TypeOK
  <1>3. \/ pc'[w] = "idle" /\ stack'[w] = stack[w]
        \/ /\ stack[w] # <<>> /\ pc'[w] = "callback"
           /\ idx'[w] = Head(stack[w]) /\ stack'[w] = Tail(stack[w])
    BY <1>1 DEF Return, TypeOK
  <1>4. stack[w] \in Seq(Nat)
    BY <1>1 DEF TypeOK
  <1>5. IndexInv'
    <2>1. \A v \in Writers : pc'[v] \in Filling \cup {"free"} => idx'[v] = head
      BY <1>1, <1>2, <1>3 DEF IndexInv, Filling
    <2>2. \A v \in Writers : pc'[v] \in Published => idx'[v] < head
      <3>1. stack[w] # <<>> => Head(stack[w]) < head
        <4>1. stack[w] # <<>> => 1 \in 1 .. Len(stack[w]) /\ Head(stack[w]) = stack[w][1]
          BY <1>4
        <4> QED BY <1>1, <4>1 DEF IndexInv
      <3> QED BY <1>1, <1>2, <1>3, <3>1 DEF IndexInv, Published
    <2>3. \A v \in Writers : \A k \in 1 .. Len(stack'[v]) : stack'[v][k] < head
      <3>1. \A k \in 1 .. Len(stack'[w]) : stack'[w][k] < head
        <4>1. CASE stack'[w] = stack[w]
          BY <4>1, <1>1 DEF IndexInv
        <4>2. CASE stack[w] # <<>> /\ stack'[w] = Tail(stack[w])
          <5>1. /\ Len(stack[w]) \in Nat
                /\ Len(stack'[w]) = Len(stack[w]) - 1
                /\ \A k \in 1 .. Len(stack'[w]) : stack'[w][k] = stack[w][k + 1]
            BY <4>2, <1>4
          <5>2. \A k \in 1 .. Len(stack'[w]) : k + 1 \in 1 .. Len(stack[w])
            BY <5>1
          <5> QED BY <5>1, <5>2, <1>1 DEF IndexInv
        <4> QED BY <4>1, <4>2, <1>3
      <3> QED BY <3>1, <1>1, <1>2 DEF IndexInv
    <2> QED BY <2>1, <2>2, <2>3, <1>1 DEF IndexInv
  <1>6. CopyValid'
    BY DEF CopyValid, Complete, IInv
  <1> QED BY <1>2, <1>3, <1>5, <1>6, QuietStep DEF Critical

(* Every step outside the lock keeps the invariant.                        *)
LEMMA OutsideStep ==
  ASSUME IInv, TypeOK',
         \/ \E w \in Writers : \/ Trace(w) \/ Reenter(w) \/ LoadObserver(w)
                               \/ TestCallback(w) \/ Call(w) \/ ReadContext(w)
                               \/ CallbackReturns(w)
         \/ \E r \in Readers : ReaderStep(r)
         \/ SubscriberStep
         \/ \E l \in MinLevels : SetMinLevel(l)
         \/ UNCHANGED vars
  PROVE  IInv'
  <1> USE DEF logVars, obsVars, wrVars, rdVars, Goto, Critical
  <1>0. TypeOK /\ IndexInv /\ CopyValid
    BY DEF IInv
  <1>1. ASSUME NEW w \in Writers, Trace(w) PROVE IInv'
    <2>1. IndexInv'
      BY <1>0, <1>1 DEF Trace, IndexInv, Filling, Published, TypeOK
    <2>2. CopyValid'
      BY <1>0, <1>1 DEF Trace, CopyValid, Complete
    <2> QED BY <1>0, <1>1, <2>1, <2>2, QuietStep DEF Trace, TypeOK
  <1>2. ASSUME NEW w \in Writers, Reenter(w) PROVE IInv'
    <2> DEFINE s == <<idx[w]>> \o stack[w]
    <2>1. idx[w] \in Nat /\ stack[w] \in Seq(Nat) /\ idx[w] < head
      BY <1>0, <1>2 DEF TypeOK, Reenter, IndexInv, Published
    <2>2. /\ Len(s) = Len(stack[w]) + 1 /\ s[1] = idx[w]
          /\ \A k \in 2 .. Len(s) : s[k] = stack[w][k - 1]
      BY <2>1
    <2>3. \A k \in 1 .. Len(s) : s[k] < head
      <3>1. \A k \in 2 .. Len(s) : k - 1 \in 1 .. Len(stack[w])
        BY <2>1, <2>2
      <3> HIDE DEF s
      <3> QED BY <1>0, <2>1, <2>2, <3>1, SMTT(30) DEF IndexInv
    <2>4. \A v \in Writers : stack'[v] = IF v = w THEN s ELSE stack[v]
      BY <1>0, <1>2 DEF Reenter, TypeOK
    <2> HIDE DEF s
    <2>5. \A v \in Writers : \A k \in 1 .. Len(stack'[v]) : stack'[v][k] < head
      BY <1>0, <2>3, <2>4 DEF IndexInv
    <2>6. IndexInv'
      BY <1>0, <1>2, <2>5 DEF Reenter, IndexInv, Filling, Published, TypeOK
    <2>7. CopyValid'
      BY <1>0, <1>2 DEF Reenter, CopyValid, Complete
    <2> QED BY <1>0, <1>2, <2>6, <2>7, QuietStep DEF Reenter, TypeOK
  <1>3. ASSUME NEW w \in Writers,
               LoadObserver(w) \/ TestCallback(w) \/ CallbackReturns(w), Return(w)
        PROVE  IInv'
    BY <1>3, ReturnStep DEF LoadObserver, TestCallback, CallbackReturns
  <1>4. ASSUME NEW w \in Writers,
               \/ LoadObserver(w) /\ ~Return(w)
               \/ TestCallback(w) /\ ~Return(w)
               \/ Call(w)
               \/ ReadContext(w)
        PROVE  IInv'
    <2>1. /\ UNCHANGED <<logVars, rdVars, idx, stack>>
          /\ pc[w] \in {"notify", "test", "call", "enter"}
          /\ \E to \in {"test", "call", "enter", "callback"} :
               pc' = [pc EXCEPT ![w] = to]
      BY <1>4 DEF LoadObserver, TestCallback, Call, ReadContext
    <2>2. IndexInv'
      BY <1>0, <2>1 DEF IndexInv, Filling, Published, TypeOK
    <2>3. CopyValid'
      BY <1>0, <2>1 DEF CopyValid, Complete
    <2> QED BY <1>0, <2>1, <2>2, <2>3, QuietStep DEF TypeOK
  <1>5. ASSUME NEW r \in Readers, ReaderStep(r) PROVE IInv'
    <2>0. UNCHANGED <<logVars, wrVars>>
      BY <1>5 DEF ReaderStep, TraceAt, ReadFields, ReadText
    <2>1. ASSUME NEW i \in 0 .. MaxHead, TraceAt(r, i) PROVE IndexInv' /\ CopyValid'
      <3>1. IndexInv'
        BY <1>0, <2>0, <2>1 DEF TraceAt, IndexInv, TypeOK
      <3>2. CopyValid'
        BY <1>0, <2>0, <2>1 DEF TraceAt, CopyValid, Complete, TypeOK
      <3> QED BY <3>1, <3>2
    <2>2. ASSUME ReadFields(r) PROVE IndexInv' /\ CopyValid'
      <3>1. IndexInv'
        BY <1>0, <2>0, <2>2 DEF ReadFields, IndexInv, TypeOK
      <3>2. ASSUME head < want[r] + Capacity
            PROVE  Complete(ring[SlotOf(want[r])], want[r])
        <4>1. want[r] \in Nat /\ want[r] < head
          BY <1>0, <2>2 DEF IndexInv, ReadFields, TypeOK
        <4>2. want[r] \in Log!Retained(head)
          BY <1>0, <3>2, <4>1, CapacityAssumption DEF Log!Retained, TypeOK
        <4> QED BY <4>2 DEF IInv, WindowInv
      <3>3. CopyValid'
        BY <1>0, <2>0, <2>2, <3>2 DEF ReadFields, CopyValid, Complete, TypeOK
      <3> QED BY <3>1, <3>3
    <2>3. ASSUME ReadText(r) PROVE IndexInv' /\ CopyValid'
      <3>1. IndexInv'
        BY <1>0, <2>0, <2>3 DEF ReadText, IndexInv, TypeOK
      <3>2. CopyValid'
        BY <1>0, <2>0, <2>3 DEF ReadText, CopyValid, Complete, TypeOK
      <3> QED BY <3>1, <3>2
    <2>4. IndexInv' /\ CopyValid'
      BY <1>5, <2>1, <2>2, <2>3 DEF ReaderStep
    <2> QED BY <2>0, <2>4, QuietStep
  <1>6. CASE SubscriberStep \/ (\E l \in MinLevels : SetMinLevel(l)) \/ UNCHANGED vars
    <2>1. UNCHANGED <<lock, head, ring, heap, mirrored, wrVars, rdVars>>
      BY <1>6 DEF SubscriberStep, Detach, Subscribe, CopyThat, CopyFn,
                  StoreObserver, SetMinLevel, vars
    <2>2. IndexInv' /\ CopyValid'
      BY <1>0, <2>1 DEF IndexInv, CopyValid, Complete
    <2> QED BY <2>1, <2>2, QuietStep
  <1> QED BY <1>1, <1>2, <1>3, <1>4, <1>5, <1>6 DEF CallbackReturns

(* Taking and giving back the lock, and reading the head under it.         *)
LEMMA LockStep ==
  ASSUME IInv, TypeOK', NEW w \in Writers, Acquire(w) \/ LoadHead(w) \/ Unlock(w)
  PROVE  IInv'
  <1> USE DEF Goto
  <1>0. TypeOK /\ IndexInv /\ LockInv /\ CopyValid
    BY DEF IInv
  <1>1. /\ UNCHANGED <<head, ring, heap, mirrored, obsVars, stack, rdVars>>
        /\ pc[w] \in {"spin", "load", "unlock"}
        /\ pc'[w] \in {"load", "free", "notify"}
        /\ \A v \in Writers : v # w => pc'[v] = pc[v] /\ idx'[v] = idx[v]
    <2>1. UNCHANGED <<head, ring, heap, mirrored, obsVars, stack, rdVars>>
      BY DEF Acquire, LoadHead, Unlock, logVars
    <2>2. \E from \in {"spin", "load", "unlock"} : \E to \in {"load", "free", "notify"} :
            pc[w] = from /\ pc' = [pc EXCEPT ![w] = to]
      BY DEF Acquire, LoadHead, Unlock
    <2>3. idx' = idx \/ idx' = [idx EXCEPT ![w] = head]
      BY DEF Acquire, LoadHead, Unlock
    <2> QED BY <1>0, <2>1, <2>2, <2>3 DEF TypeOK
  <1>2. LockInv'
    <2>1. CASE Acquire(w)
      <3>1. \A v \in Writers : pc[v] \notin Critical
        BY <1>0, <2>1 DEF Acquire, LockInv
      <3> QED BY <1>0, <1>1, <2>1, <3>1 DEF Acquire, LockInv
    <2>2. CASE LoadHead(w)
      <3>1. pc[w] \in Critical /\ lock' = lock
        BY <2>2 DEF LoadHead, Critical, logVars
      <3>2. \A v \in Writers : pc'[v] \in Critical => pc[v] \in Critical
        BY <1>1, <3>1
      <3> QED BY <1>0, <3>1, <3>2 DEF LockInv
    <2>3. CASE Unlock(w)
      <3>1. \A v \in Writers : pc'[v] \notin Critical
        BY <1>0, <1>1, <2>3, Alone DEF Unlock, Critical, TypeOK
      <3> QED BY <3>1 DEF LockInv
    <2> QED BY <2>1, <2>2, <2>3
  <1>3. IndexInv'
    BY <1>0, <1>1 DEF Acquire, LoadHead, Unlock, IndexInv, Filling, Published,
                      TypeOK, rdVars
  <1>4. WindowInv' /\ FreshInv' /\ BlockInv'
    BY <1>1 DEF IInv, WindowInv, FreshInv, BlockInv, Complete, Log!Retained
  <1>5. OldestInv'
    BY <1>1 DEF IInv, OldestInv, Filling, Complete
  <1>6. StageInv'
    BY <1>1 DEF IInv, StageInv, Complete
  <1>7. HeapOwned'
    <2>1. \A t : BeingFreed(t)' <=> BeingFreed(t)
      BY <1>1 DEF BeingFreed
    <2> QED BY <1>1, <2>1 DEF IInv, HeapOwned, Owns
  <1>8. MirrorInv' /\ MirrorInOrder'
    BY <1>1 DEF IInv, MirrorInv, MirrorInOrder
  <1>9. CopyValid'
    BY <1>0, <1>1 DEF CopyValid, Complete, rdVars
  <1> QED BY <1>2, <1>3, <1>4, <1>5, <1>6, <1>7, <1>8, <1>9 DEF IInv

(* What every step of a writer that fills its slot has in common.          *)
LEMMA FillFacts ==
  ASSUME IInv, NEW w \in Writers, NEW to \in Filling,
         pc[w] \in Filling \cup {"free"}, pc' = [pc EXCEPT ![w] = to],
         UNCHANGED <<lock, head, obsVars, idx, stack, rdVars>>
  PROVE  /\ idx[w] = head /\ SlotOf(head) \in Slots /\ pc'[w] = to
         /\ \A v \in Writers : v # w => pc[v] \notin Critical /\ pc'[v] = pc[v]
         /\ LockInv' /\ IndexInv' /\ OldestInv'
  <1>0. TypeOK /\ IndexInv /\ LockInv
    BY DEF IInv
  <1>1. idx[w] = head /\ SlotOf(head) \in Slots /\ pc'[w] = to
    BY <1>0, SlotOfType DEF IndexInv, TypeOK
  <1>2. \A v \in Writers : v # w => pc[v] \notin Critical /\ pc'[v] = pc[v]
    BY <1>0, Alone DEF TypeOK, Filling, Critical
  <1>3. LockInv'
    BY <1>0, <1>1, <1>2 DEF LockInv, Filling, Critical
  <1>4. IndexInv'
    BY <1>0, <1>1, <1>2 DEF IndexInv, Filling, Published, Critical, rdVars
  <1>5. OldestInv'
    BY <1>1 DEF OldestInv
  <1> QED BY <1>1, <1>2, <1>3, <1>4, <1>5

(* free(e->message) takes back the block of the oldest entry and no other. *)
LEMMA FreeOldStep ==
  ASSUME IInv, TypeOK', NEW w \in Writers, FreeOld(w)
  PROVE  IInv'
  <1> DEFINE h == SlotOf(head)
  <1>0. TypeOK
    BY DEF IInv
  <1>1. /\ pc[w] = "free" /\ pc' = [pc EXCEPT ![w] = "clear"]
        /\ UNCHANGED <<lock, head, ring, mirrored, obsVars, idx, stack, rdVars>>
    BY DEF FreeOld, Goto
  <1>2. /\ idx[w] = head /\ h \in Slots /\ pc'[w] = "clear"
        /\ \A v \in Writers : v # w => pc[v] \notin Critical /\ pc'[v] = pc[v]
        /\ LockInv' /\ IndexInv' /\ OldestInv'
    BY <1>1, FillFacts DEF Filling
  <1>3. heap' = heap \ {ring[h].msg}
    BY <1>2 DEF FreeOld, MySlot
  <1> HIDE DEF h
  <1>4. \/ ring[h].msg = NULL
        \/ head >= Capacity /\ ring[h].msg[2] = head - Capacity
    <2>1. \A v \in Writers : pc[v] \notin Filling
      BY <1>1, <1>2 DEF Filling, Critical
    <2> QED BY <2>1 DEF IInv, OldestInv, Complete, h
  <1>5. ASSUME NEW e, NEW i \in Nat, head < i + Capacity, Complete(e, i)
        PROVE  Complete(e, i)'
    <2>0. head \in Nat /\ Capacity \in Nat
      BY <1>0, CapacityAssumption DEF TypeOK
    <2>1. e.msg # NULL => e.msg # ring[h].msg
      BY <1>4, <1>5, <2>0, SMTT(30) DEF Complete
    <2> QED BY <1>3, <1>5, <2>1 DEF Complete
  <1>6. WindowInv'
    BY <1>0, <1>1, <1>5, WindowSlots DEF IInv, WindowInv, Log!Retained, Complete
  <1>7. CopyValid'
    BY <1>0, <1>1, <1>5 DEF IInv, CopyValid, rdVars, TypeOK, Complete
  <1>8. FreshInv' /\ BlockInv' /\ MirrorInv' /\ MirrorInOrder' /\ StageInv'
    <2>1. FreshInv' /\ BlockInv'
      BY <1>1 DEF IInv, FreshInv, BlockInv
    <2>2. MirrorInv' /\ MirrorInOrder' /\ StageInv'
      BY <1>1, <1>2 DEF IInv, MirrorInv, MirrorInOrder, StageInv, Critical
    <2> QED BY <2>1, <2>2
  <1>9. HeapOwned'
    <2>1. \A t : ~BeingFreed(t) /\ (BeingFreed(t)' <=> t = h)
      BY <1>1, <1>2 DEF BeingFreed, Critical, h
    <2>2. \A t, b : Owns(t, b)' <=> Owns(t, b) /\ t # h
      BY <1>1, <2>1 DEF Owns
    <2>3. HeapOwned
      BY DEF IInv
    <2>4. \A b \in heap' : \E t \in Slots : Owns(t, b)'
      BY <1>3, <2>2, <2>3 DEF HeapOwned, Owns
    <2>5. \A t \in Slots : Owns(t, ring[t].msg)' => ring[t].msg \in heap'
      <3>1. ASSUME NEW t \in Slots, Owns(t, ring[t].msg), t # h
            PROVE  ring[t].msg # ring[h].msg
        BY <1>2, <2>1, <2>3, <3>1 DEF HeapOwned, Owns
      <3> QED BY <1>1, <1>3, <2>2, <2>3, <3>1 DEF HeapOwned, Owns
    <2> QED BY <1>1, <2>2, <2>3, <2>4, <2>5 DEF HeapOwned, Owns
  <1> QED BY <1>2, <1>6, <1>7, <1>8, <1>9 DEF IInv

(* A writer that changes nothing but the slot of the next entry leaves the *)
(* window, the copies and the other slots as they are.                     *)
LEMMA OneSlot ==
  ASSUME IInv, UNCHANGED <<head, rdVars>>, heap \subseteq heap',
         \A t \in Slots \ {SlotOf(head)} : ring'[t] = ring[t]
  PROVE  WindowInv' /\ CopyValid' /\ FreshInv' /\ BlockInv'
  <1> DEFINE h == SlotOf(head)
  <1>0. TypeOK /\ head \in Nat
    BY DEF IInv, TypeOK
  <1>1. WindowInv'
    <2> SUFFICES ASSUME NEW i \in Log!Retained(head)
                 PROVE  Complete(ring[SlotOf(i)], i)'
      BY DEF WindowInv, Log!Retained, Complete
    <2>1. i \in Nat /\ SlotOf(i) # h /\ SlotOf(i) \in Slots
      BY <1>0, WindowSlots, SlotOfType
    <2>2. Complete(ring[SlotOf(i)], i)
      BY DEF IInv, WindowInv
    <2> QED BY <2>1, <2>2 DEF Complete
  <1>2. CopyValid'
    BY DEF IInv, CopyValid, Complete, rdVars
  <1>3. FreshInv'
    <2>1. ASSUME NEW t \in Slots, t > head PROVE t # h
      BY <1>0, <2>1, SlotFirstLap, CapacityAssumption DEF Slots
    <2> QED BY <2>1 DEF IInv, FreshInv
  <1>4. BlockInv'
    BY DEF IInv, BlockInv
  <1> QED BY <1>1, <1>2, <1>3, <1>4

(* memset(e, 0, ...) empties the slot that is being taken and no other.    *)
LEMMA ClearStep ==
  ASSUME IInv, TypeOK', NEW w \in Writers, Clear(w)
  PROVE  IInv'
  <1> SUFFICES ASSUME NEW h, h = SlotOf(head) PROVE IInv'
    OBVIOUS
  <1>0. TypeOK
    BY DEF IInv
  <1>1. /\ pc[w] = "clear" /\ pc' = [pc EXCEPT ![w] = "alloc"]
        /\ UNCHANGED <<lock, head, heap, mirrored, obsVars, idx, stack, rdVars>>
    BY DEF Clear, Goto
  <1>2. /\ idx[w] = head /\ h \in Slots /\ pc'[w] = "alloc"
        /\ \A v \in Writers : v # w => pc[v] \notin Critical /\ pc'[v] = pc[v]
        /\ LockInv' /\ IndexInv' /\ OldestInv'
    BY <1>1, FillFacts DEF Filling
  <1>3. /\ ring'[h].gen = head /\ ring'[h].msg = NULL /\ ring'[h].n = 0
        /\ \A t \in Slots \ {h} : ring'[t] = ring[t]
    <2>1. PICK l \in Levels :
            ring' = [ring EXCEPT ![h] =
                       [gen |-> idx[w], level |-> l, msg |-> NULL, n |-> 0]]
      BY <1>2 DEF Clear, MySlot
    <2> QED BY <1>0, <1>2, <2>1 DEF TypeOK
  <1>4. WindowInv' /\ CopyValid' /\ FreshInv' /\ BlockInv'
    BY <1>1, <1>3, OneSlot
  <1>5. StageInv'
    BY <1>1, <1>2, <1>3 DEF StageInv, Critical
  <1>6. HeapOwned'
    <2>1. \A t : ~BeingFreed(t)' /\ (BeingFreed(t) <=> t = h)
      BY <1>1, <1>2 DEF BeingFreed, Critical
    <2>2. \A t \in Slots : \A b : Owns(t, b)' <=> Owns(t, b)
      BY <1>2, <1>3, <2>1 DEF Owns
    <2>3. HeapOwned /\ heap' = heap
      BY <1>1 DEF IInv
    <2>4. \A t \in Slots : \A b : Owns(t, b)' => t # h /\ ring'[t] = ring[t]
      BY <1>3 DEF Owns
    <2>5. \A t, u \in Slots : \A b :
            Owns(t, b) /\ Owns(u, b) => t = u /\ b \in heap
      BY <2>3 DEF HeapOwned, Owns
    <2>6. \A b \in heap : \E t \in Slots : Owns(t, b)
      BY <2>3 DEF HeapOwned
    <2> QED BY <2>2, <2>3, <2>4, <2>5, <2>6 DEF HeapOwned
  <1>7. MirrorInv' /\ MirrorInOrder'
    BY <1>1, <1>2 DEF IInv, MirrorInv, MirrorInOrder, Critical
  <1> QED BY <1>2, <1>4, <1>5, <1>6, <1>7 DEF IInv

(* The block the writer allocates is one that no other slot holds.         *)
LEMMA AllocateStep ==
  ASSUME IInv, TypeOK', NEW w \in Writers, Allocate(w)
  PROVE  IInv'
  <1> SUFFICES ASSUME NEW h, h = SlotOf(head), NEW b, b = <<w, head>> PROVE IInv'
    OBVIOUS
  <1>0. TypeOK
    BY DEF IInv
  <1>1. /\ pc[w] = "alloc" /\ pc' = [pc EXCEPT ![w] = "format"]
        /\ UNCHANGED <<lock, head, mirrored, obsVars, idx, stack, rdVars>>
    BY DEF Allocate, Goto
  <1>2. /\ idx[w] = head /\ h \in Slots /\ pc'[w] = "format"
        /\ \A v \in Writers : v # w => pc[v] \notin Critical /\ pc'[v] = pc[v]
        /\ LockInv' /\ IndexInv' /\ OldestInv'
    BY <1>1, FillFacts DEF Filling
  <1>3. /\ heap' = heap \cup {b} /\ b # NULL /\ b[2] = head
        /\ ring' = [ring EXCEPT ![h].msg = b]
    BY <1>0, <1>2, NullAssumption DEF Allocate, MySlot, TypeOK
  <1>4. /\ ring'[h].gen = head /\ ring'[h].msg = b /\ ring'[h].n = 0
        /\ \A t \in Slots \ {h} : ring'[t] = ring[t]
    <2>1. ring[h].gen = head /\ ring[h].n = 0 /\ ring[h] \in Entry
      BY <1>0, <1>1, <1>2 DEF IInv, StageInv, TypeOK
    <2> QED BY <1>0, <1>2, <1>3, <2>1 DEF TypeOK, Entry
  <1>5. WindowInv' /\ CopyValid' /\ FreshInv' /\ BlockInv'
    BY <1>1, <1>3, <1>4, OneSlot
  <1>6. StageInv'
    BY <1>1, <1>2, <1>3, <1>4 DEF StageInv, Critical
  <1>7. HeapOwned'
    <2>0. HeapOwned /\ BlockInv
      BY DEF IInv
    <2>1. \A t : ~BeingFreed(t)' /\ ~BeingFreed(t)
      BY <1>1, <1>2 DEF BeingFreed, Critical
    <2>2. ring[h].msg = NULL
      BY <1>1 DEF IInv, StageInv
    <2>3. \A t \in Slots \ {h} : ring[t].msg # b
      <3> SUFFICES ASSUME NEW t \in Slots \ {h}, ring[t].msg = b PROVE FALSE
        OBVIOUS
      <3>1. ring[t].msg # NULL => ring[t].msg[2] < head
        BY <2>0 DEF BlockInv
      <3>2. ring[t].msg[2] = head /\ head \in Nat
        BY <1>0, <1>3 DEF TypeOK
      <3> QED BY <1>3, <3>1, <3>2
    <2>4. \A t \in Slots : \A c : Owns(t, c)' <=> IF t = h THEN c = b ELSE Owns(t, c)
      BY <1>3, <1>4, <2>1 DEF Owns
    <2>5. \A c \in heap' : \E t \in Slots : Owns(t, c)'
      <3>1. Owns(h, b)'
        BY <1>2, <2>4
      <3>2. ASSUME NEW c \in heap PROVE \E t \in Slots : Owns(t, c)'
        <4>1. PICK t \in Slots : Owns(t, c)
          BY <2>0 DEF HeapOwned
        <4>2. t # h
          BY <2>2, <4>1 DEF Owns
        <4> QED BY <2>4, <4>1, <4>2
      <3> QED BY <1>2, <1>3, <3>1, <3>2
    <2>6. \A t \in Slots : Owns(t, ring[t].msg)' => ring'[t].msg \in heap'
      BY <1>3, <1>4, <2>0, <2>4 DEF HeapOwned
    <2>7. ASSUME NEW t \in Slots, NEW u \in Slots, NEW c, Owns(t, c)', Owns(u, c)'
          PROVE  t = u
      <3>1. Owns(t, c) /\ Owns(u, c) => t = u
        BY <2>0 DEF HeapOwned, Owns
      <3>2. t # h /\ Owns(t, c) => c # b
        BY <2>3 DEF Owns
      <3>3. u # h /\ Owns(u, c) => c # b
        BY <2>3 DEF Owns
      <3> QED BY <2>4, <2>7, <3>1, <3>2, <3>3
    <2> QED BY <2>5, <2>6, <2>7 DEF HeapOwned
  <1>8. MirrorInv' /\ MirrorInOrder'
    BY <1>1, <1>2 DEF IInv, MirrorInv, MirrorInOrder, Critical
  <1> QED BY <1>2, <1>5, <1>6, <1>7, <1>8 DEF IInv

(* The steps that complete the entry: no text, the text, the mirroring.    *)
LEMMA CompleteStep ==
  ASSUME IInv, TypeOK', NEW w \in Writers, NoMessage(w) \/ Format(w) \/ Mirror(w)
  PROVE  IInv'
  <1> SUFFICES ASSUME NEW h, h = SlotOf(head) PROVE IInv'
    OBVIOUS
  <1>0. TypeOK /\ StageInv
    BY DEF IInv
  <1>1. /\ pc[w] \in {"alloc", "format", "mirror"}
        /\ UNCHANGED <<lock, head, heap, obsVars, idx, stack, rdVars>>
        /\ \E to \in {"mirror", "publish"} : pc' = [pc EXCEPT ![w] = to]
    BY DEF NoMessage, Format, Mirror, Goto, logVars
  <1>2. /\ idx[w] = head /\ h \in Slots /\ pc'[w] \in {"mirror", "publish"}
        /\ \A v \in Writers : v # w => pc[v] \notin Critical /\ pc'[v] = pc[v]
        /\ LockInv' /\ IndexInv' /\ OldestInv'
    BY <1>1, FillFacts DEF Filling
  <1>3. /\ ring'[h].msg = ring[h].msg /\ \A t \in Slots \ {h} : ring'[t] = ring[t]
        /\ Complete(ring'[h], head)
    <2>1. CASE NoMessage(w)
      BY <1>0, <2>1 DEF NoMessage, Goto, logVars, StageInv, Complete
    <2>2. CASE Mirror(w)
      BY <1>0, <2>2 DEF Mirror, Goto, StageInv
    <2>3. CASE Format(w)
      <3>1. ring' = [ring EXCEPT ![h].n = 1]
        BY <1>2, <2>3 DEF Format, MySlot
      <3>2. /\ ring[h].gen = head /\ ring[h].msg = <<w, head>> /\ ring[h].msg \in heap
            /\ ring[h] \in Entry
        BY <1>0, <1>2, <2>3 DEF Format, Goto, StageInv, TypeOK
      <3>3. /\ ring'[h].gen = head /\ ring'[h].msg = ring[h].msg /\ ring'[h].n = 1
            /\ \A t \in Slots \ {h} : ring'[t] = ring[t]
        BY <1>0, <1>2, <3>1, <3>2 DEF TypeOK, Entry
      <3>4. ring[h].msg # NULL /\ ring[h].msg[2] = head
        BY <1>0, <3>2, NullAssumption DEF TypeOK
      <3> QED BY <3>2, <3>3, <3>4 DEF Complete
    <2> QED BY <2>1, <2>2, <2>3
  <1>4. WindowInv' /\ CopyValid' /\ FreshInv' /\ BlockInv'
    BY <1>1, <1>3, OneSlot
  <1>5. StageInv'
    BY <1>1, <1>2, <1>3 DEF StageInv, Critical, Complete
  <1>6. HeapOwned'
    <2>1. \A t : ~BeingFreed(t)' /\ ~BeingFreed(t)
      BY <1>1, <1>2 DEF BeingFreed, Critical
    <2>2. \A t \in Slots : ring'[t].msg = ring[t].msg
      BY <1>3
    <2>3. \A t \in Slots : \A c : Owns(t, c)' <=> Owns(t, c)
      BY <2>1, <2>2 DEF Owns
    <2> QED BY <1>1, <2>2, <2>3 DEF IInv, HeapOwned
  <1>7. MirrorInv' /\ MirrorInOrder'
    <2>1. /\ MirrorInv /\ MirrorInOrder /\ mirrored \in Seq(Nat)
          /\ \A v \in Writers : pc[v] # "publish"
      BY <1>0, <1>1, <1>2 DEF IInv, Critical, TypeOK
    <2>2. /\ head' = head /\ head \in Nat
          /\ \A k \in DOMAIN mirrored : mirrored[k] < head
      BY <1>0, <1>1, <2>1 DEF MirrorInv, TypeOK
    <2>3. CASE mirrored' = mirrored
      BY <2>1, <2>2, <2>3 DEF MirrorInv, MirrorInOrder
    <2>4. CASE mirrored' = Append(mirrored, head)
      <3>1. MirrorInOrder'
        BY <2>1, <2>2, <2>4, AppendIncreasing DEF MirrorInOrder
      <3>2. \A k \in DOMAIN mirrored' : mirrored'[k] <= head'
        BY <2>1, <2>2, <2>4, AppendIncreasing
      <3>3. pc'[w] = "publish"
        <4>1. mirrored' # mirrored
          BY <2>1, <2>4
        <4> QED BY <1>0, <4>1 DEF Mirror, NoMessage, Format, Goto, logVars, TypeOK
      <3> QED BY <3>1, <3>2, <3>3 DEF MirrorInv
    <2> QED BY <1>2, <2>3, <2>4 DEF Mirror, NoMessage, Format, logVars
  <1> QED BY <1>2, <1>4, <1>5, <1>6, <1>7 DEF IInv

(* Publishing moves the window to an entry that is complete.               *)
LEMMA PublishStep ==
  ASSUME IInv, TypeOK', NEW w \in Writers, Publish(w)
  PROVE  IInv'
  <1>0. TypeOK /\ LockInv /\ IndexInv /\ head \in Nat
    BY DEF IInv, TypeOK
  <1>1. /\ pc[w] = "publish" /\ pc' = [pc EXCEPT ![w] = "unlock"]
        /\ UNCHANGED <<lock, ring, heap, mirrored, obsVars, idx, stack, rdVars>>
    BY DEF Publish, Goto
  <1>2. idx[w] = head /\ head' = head + 1 /\ pc'[w] = "unlock"
    BY <1>0, <1>1 DEF Publish, IndexInv, Filling, TypeOK
  <1>3. \A v \in Writers : v # w => pc[v] \notin Critical /\ pc'[v] = pc[v]
    BY <1>0, <1>1, Alone DEF Critical, TypeOK
  <1>4. Complete(ring[SlotOf(head)], head)
    BY <1>1 DEF IInv, StageInv
  <1>5. \A e, i : Complete(e, i)' <=> Complete(e, i)
    BY <1>1 DEF Complete
  <1>6. LockInv'
    BY <1>0, <1>1, <1>2, <1>3 DEF LockInv, Critical
  <1>7. IndexInv'
    <2>1. \A v \in Writers : pc'[v] \in Filling \cup {"free"} => idx'[v] = head'
      BY <1>2, <1>3 DEF Filling, Critical
    <2>2. \A v \in Writers : pc'[v] \in Published => idx'[v] < head'
      BY <1>0, <1>1, <1>2, <1>3 DEF IndexInv, Published, TypeOK
    <2>3. \A v \in Writers : \A k \in 1 .. Len(stack'[v]) : stack'[v][k] < head'
      <3> SUFFICES ASSUME NEW v \in Writers, NEW k \in 1 .. Len(stack[v])
                   PROVE  stack[v][k] < head + 1
        BY <1>1, <1>2
      <3>1. stack[v] \in Seq(Nat) /\ stack[v][k] \in Nat
        BY <1>0, SMTT(30) DEF TypeOK
      <3>2. stack[v][k] < head
        BY <1>0 DEF IndexInv
      <3> QED BY <1>0, <3>1, <3>2
    <2>4. \A r \in Readers : rpc'[r] # "idle" => want'[r] < head'
      BY <1>0, <1>1, <1>2 DEF IndexInv, rdVars, TypeOK
    <2> QED BY <2>1, <2>2, <2>3, <2>4 DEF IndexInv
  <1>8. \A i \in Log!Retained(head + 1) : Complete(ring[SlotOf(i)], i)
    <2>1. \A i \in Log!Retained(head + 1) : i = head \/ i \in Log!Retained(head)
      BY <1>0, CapacityAssumption DEF Log!Retained
    <2> QED BY <1>4, <2>1 DEF IInv, WindowInv
  <1>9. WindowInv'
    BY <1>1, <1>2, <1>5, <1>8 DEF WindowInv, Complete
  <1>10. OldestInv'
    <2>1. CASE head + 1 >= Capacity
      <3> SUFFICES ASSUME NEW old, old = head + 1 - Capacity PROVE OldestInv'
        OBVIOUS
      <3>1. old \in Nat /\ SlotOf(old) = SlotOf(head + 1)
        BY <1>0, <2>1, SlotLap, CapacityAssumption
      <3>2. Complete(ring[SlotOf(old)], old)
        <4>1. CASE Capacity = 1
          BY <1>0, <1>4, <4>1
        <4>2. CASE Capacity # 1
          <5>1. old \in Log!Retained(head)
            BY <1>0, <2>1, <4>2, CapacityAssumption DEF Log!Retained
          <5> QED BY <5>1 DEF IInv, WindowInv
        <4> QED BY <4>1, <4>2
      <3>3. /\ ring' = ring /\ heap' = heap /\ head' = head + 1
            /\ head' - Capacity = old /\ SlotOf(head') = SlotOf(old)
        BY <1>0, <1>1, <1>2, <3>1, CapacityAssumption
      <3> QED BY <1>2, <2>1, <3>2, <3>3 DEF OldestInv, Complete
    <2>2. CASE head + 1 < Capacity
      <3>1. /\ SlotOf(head + 1) = head + 1 /\ head + 1 \in Slots
            /\ head + 1 > head
        BY <1>0, <2>2, SlotFirstLap, CapacityAssumption DEF Slots
      <3>2. ring[head + 1].msg = NULL
        BY <3>1 DEF IInv, FreshInv
      <3>3. ~(head + 1 >= Capacity)
        BY <1>0, <2>2, CapacityAssumption
      <3> QED BY <1>1, <1>2, <3>1, <3>2, <3>3 DEF OldestInv
    <2> QED BY <1>0, <2>1, <2>2, CapacityAssumption
  <1>11. FreshInv'
    BY <1>0, <1>1, <1>2 DEF IInv, FreshInv, Slots
  <1>12. StageInv'
    BY <1>1, <1>2, <1>3 DEF StageInv, Critical
  <1>13. BlockInv'
    <2> SUFFICES ASSUME NEW t \in Slots, ring[t].msg # NULL
                 PROVE  ring[t].msg[2] < head + 1
      BY <1>1, <1>2 DEF BlockInv
    <2>0. ring[t].msg \in Blocks
      BY <1>0 DEF TypeOK, Entry
    <2>1. CASE t = SlotOf(head)
      BY <1>0, <1>4, <2>1 DEF Complete
    <2>2. CASE t # SlotOf(head)
      BY <1>0, <2>0, <2>2 DEF IInv, BlockInv, Blocks
    <2> QED BY <2>1, <2>2
  <1>14. HeapOwned'
    <2>1. \A t : ~BeingFreed(t)' /\ ~BeingFreed(t)
      BY <1>1, <1>2, <1>3 DEF BeingFreed, Critical
    <2>2. \A t, c : Owns(t, c)' <=> Owns(t, c)
      BY <1>1, <2>1 DEF Owns
    <2> QED BY <1>1, <2>2 DEF IInv, HeapOwned
  <1>15. CopyValid'
    <2>1. \A r \in Readers : head + 1 < want[r] + Capacity => head < want[r] + Capacity
      BY <1>0, CapacityAssumption DEF TypeOK
    <2> QED BY <1>1, <1>2, <1>5, <2>1 DEF IInv, CopyValid, rdVars, Complete
  <1>16. MirrorInv' /\ MirrorInOrder'
    <2>1. \A k \in DOMAIN mirrored : mirrored[k] \in Nat /\ mirrored[k] <= head
      BY <1>0 DEF IInv, MirrorInv, TypeOK
    <2> QED BY <1>0, <1>1, <1>2, <2>1 DEF IInv, MirrorInv, MirrorInOrder
  <1> QED BY <1>6, <1>7, <1>9, <1>10, <1>11, <1>12, <1>13, <1>14, <1>15, <1>16
          DEF IInv

-----------------------------------------------------------------------------
(* The theorems.                                                           *)

(* The inductive invariant holds initially.                                *)
LEMMA InvInit == Init => IInv
  <1> SUFFICES ASSUME Init PROVE IInv
    OBVIOUS
  <1>1. TypeOK
    BY TypeInit
  <1>2. head = 0 /\ head \in Nat
    BY DEF Init
  <1>3. /\ \A t \in Slots : ring[t].msg = NULL
        /\ SlotOf(head) \in Slots /\ ~(head >= Capacity)
    BY <1>2, SlotOfType, CapacityAssumption DEF Init, EmptyEntry
  <1>4. LockInv /\ IndexInv
    <2>1. \A w \in Writers : 1 .. Len(stack[w]) = {}
      BY DEF Init
    <2> QED BY <2>1 DEF Init, LockInv, IndexInv, Critical, Filling, Published
  <1>5. WindowInv /\ OldestInv /\ FreshInv /\ BlockInv
    <2>1. Log!Retained(0) = {}
      BY CapacityAssumption DEF Log!Retained
    <2> QED BY <1>2, <1>3, <2>1 DEF WindowInv, OldestInv, FreshInv, BlockInv
  <1>6. StageInv /\ CopyValid
    BY DEF Init, StageInv, CopyValid
  <1>7. HeapOwned
    BY <1>3 DEF Init, HeapOwned, Owns
  <1>8. MirrorInv /\ MirrorInOrder
    BY DEF Init, MirrorInv, MirrorInOrder
  <1> QED BY <1>1, <1>4, <1>5, <1>6, <1>7, <1>8 DEF IInv

(* Every step, of any thread, preserves the inductive invariant.           *)
LEMMA InvStep == IInv /\ [Next]_vars => IInv'
  <1> SUFFICES ASSUME IInv, [Next]_vars PROVE IInv'
    OBVIOUS
  <1>1. TypeOK'
    BY TypeStep DEF IInv
  <1>2. ASSUME NEW w \in Writers, WriterStep(w) PROVE IInv'
    BY <1>1, <1>2, LockStep, FreeOldStep, ClearStep, AllocateStep, CompleteStep,
       PublishStep, OutsideStep DEF WriterStep
  <1>3. CASE \/ \E w \in Writers : Trace(w) \/ Reenter(w)
             \/ \E r \in Readers : ReaderStep(r)
             \/ SubscriberStep
             \/ \E l \in MinLevels : SetMinLevel(l)
             \/ UNCHANGED vars
    BY <1>1, <1>3, OutsideStep
  <1> QED BY <1>2, <1>3 DEF Next

(* The inductive invariant holds of every reachable state.                 *)
THEOREM Invariance == Spec => []IInv
  BY InvInit, InvStep, PTL DEF Spec

(* The inductive invariant gives the properties the runs check.            *)
LEMMA InvImplies ==
  ASSUME IInv
  PROVE  PublishedIntact /\ HeapOwned /\ CopyValid /\ NotifiedEntryIntact
  <1>0. TypeOK /\ LockInv /\ IndexInv /\ WindowInv /\ OldestInv
    BY DEF IInv
  <1>1. PublishedIntact
    <2>1. CASE lock
      BY <1>0, <2>1 DEF PublishedIntact, WindowInv
    <2>2. CASE ~lock
      <3>1. \A w \in Writers : pc[w] \notin Filling
        BY <1>0, <2>2 DEF LockInv, Filling, Critical
      <3>2. ASSUME head - Capacity \in Nat
            PROVE  Complete(ring[SlotOf(head - Capacity)], head - Capacity)
        <4>1. head >= Capacity /\ head \in Nat
          BY <1>0, <3>2, CapacityAssumption DEF TypeOK
        <4> QED BY <1>0, <3>1, <4>1, SlotLap DEF OldestInv
      <3> QED BY <1>0, <2>2, <3>2 DEF PublishedIntact, WindowInv
    <2> QED BY <2>1, <2>2
  <1>2. NotifiedEntryIntact
    <2> SUFFICES ASSUME NEW w \in Writers, pc[w] \in {"call", "enter", "callback"},
                        head < idx[w] + Capacity
                 PROVE  idx[w] < head /\ Complete(ring[SlotOf(idx[w])], idx[w])
      BY DEF NotifiedEntryIntact
    <2>1. idx[w] \in Nat /\ idx[w] < head
      BY <1>0 DEF IndexInv, Published, TypeOK
    <2>2. idx[w] \in Log!Retained(head)
      BY <1>0, <2>1, CapacityAssumption DEF Log!Retained, TypeOK
    <2> QED BY <1>0, <2>1, <2>2 DEF WindowInv
  <1> QED BY <1>1, <1>2 DEF IInv

(* Published entries stay complete until the ring wraps onto them.         *)
THEOREM PublishedSafe == Spec => []PublishedIntact
  BY Invariance, InvImplies, PTL

(* No message is leaked, shared between entries or freed twice.            *)
THEOREM HeapSafe == Spec => []HeapOwned
  BY Invariance, InvImplies, PTL

(* A copy whose index is within one lap of the head is what was published. *)
THEOREM CopySafe == Spec => []CopyValid
  BY Invariance, InvImplies, PTL

(* The entry an observer is given is its own until the ring wraps onto it. *)
THEOREM NotifiedSafe == Spec => []NotifiedEntryIntact
  BY Invariance, InvImplies, PTL

(* Entries reach stderr in the order of the ring, and none of them twice.  *)
THEOREM MirrorOrdered == Spec => []MirrorInOrder
  <1>1. IInv => MirrorInOrder
    BY DEF IInv
  <1> QED BY <1>1, Invariance, PTL

(* The ring implements the log: its window grows by Publish, at the end,   *)
(* and no other step shows.                                                *)
THEOREM Implements == Spec => ImplementsLog
  <1> DEFINE View(i) == [level |-> ring[SlotOf(i)].level, msg |-> ring[SlotOf(i)].msg]
             Window == [i \in {j \in (head - Capacity + 1) .. (head - 1) : j >= 0}
                          |-> View(i)]
  <1>1. Init => Log!Init
    <2> SUFFICES ASSUME Init PROVE Log!Init
      OBVIOUS
    <2>1. head = 0 /\ {j \in (head - Capacity + 1) .. (head - 1) : j >= 0} = {}
      BY CapacityAssumption DEF Init
    <2> QED BY <2>1 DEF Log!Init
  <1>2. IInv /\ [Next]_vars => [Log!Append]_(Log!vars)
    <2> SUFFICES ASSUME IInv, [Next]_vars PROVE Log!Append \/ UNCHANGED Log!vars
      OBVIOUS
    <2>0. TypeOK
      BY DEF IInv
    <2>1. ASSUME NEW w \in Writers, Publish(w) PROVE Log!Append
      <3>1. head' = head + 1 /\ ring' = ring
        BY <2>0, <2>1 DEF Publish, Goto, IInv, IndexInv, Filling, TypeOK
      <3>2. \A i \in Log!Retained(head + 1) \ {head} : i \in Log!Retained(head)
        BY <2>0, CapacityAssumption DEF Log!Retained, TypeOK
      <3>3. DOMAIN Window' = Log!Retained(head + 1)
        BY <3>1 DEF Log!Retained
      <3>4. \A i \in Log!Retained(head + 1) \ {head} : Window'[i] = Window[i]
        BY <3>1, <3>2 DEF Log!Retained
      <3> QED BY <3>1, <3>3, <3>4 DEF Log!Append
    <2>2. ASSUME \A w \in Writers : ~Publish(w) PROVE UNCHANGED Log!vars
      <3>1. head' = head
        BY <2>2 DEF Next, WriterStep, ReaderStep, SubscriberStep, Trace, Reenter,
             Acquire, LoadHead, FreeOld, Clear, Allocate, NoMessage, Format, Mirror,
             Unlock, LoadObserver, TestCallback, Call, ReadContext,
             CallbackReturns, TraceAt, ReadFields, ReadText, Detach, Subscribe,
             CopyThat, CopyFn, StoreObserver, SetMinLevel, logVars, vars
      <3>2. \A t \in Slots \ {SlotOf(head)} : ring'[t] = ring[t]
        <4>1. CASE \E w \in Writers : Clear(w) \/ Allocate(w) \/ Format(w)
          BY <2>0, <4>1 DEF Clear, Allocate, Format, Goto, MySlot, IInv, IndexInv,
                            Filling, TypeOK
        <4>2. CASE ~\E w \in Writers : Clear(w) \/ Allocate(w) \/ Format(w)
          <5>1. ring' = ring
            BY <2>2, <4>2 DEF Next, WriterStep, ReaderStep, SubscriberStep, Trace,
               Reenter, Acquire, LoadHead, FreeOld, NoMessage, Mirror,
               Unlock, LoadObserver, TestCallback, Call, ReadContext,
               CallbackReturns, TraceAt, ReadFields, ReadText, Detach, Subscribe,
               CopyThat, CopyFn, StoreObserver, SetMinLevel, logVars, vars
          <5> QED BY <5>1
        <4> QED BY <4>1, <4>2
      <3>3. \A i \in Log!Retained(head) : View(i)' = View(i)
        <4> SUFFICES ASSUME NEW i \in Log!Retained(head)
                     PROVE  ring'[SlotOf(i)] = ring[SlotOf(i)]
          OBVIOUS
        <4>1. SlotOf(i) \in Slots \ {SlotOf(head)}
          BY <2>0, WindowSlots, SlotOfType
        <4> QED BY <3>2, <4>1
      <3>4. Window' = Window
        BY <3>1, <3>3 DEF Log!Retained
      <3> QED BY <3>1, <3>4 DEF Log!vars
    <2> QED BY <2>1, <2>2
  <1> QED BY <1>1, <1>2, Invariance, PTL DEF Spec, ImplementsLog, Log!Spec

=============================================================================
