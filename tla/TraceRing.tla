------------------------------ MODULE TraceRing ------------------------------
(***************************************************************************)
(* The trace ring and leveled logger of src/src/trace.c: writer threads in *)
(* _trace_(), lock-free readers using trace_at(), a thread that calls      *)
(* trace_subscribe() and one that calls trace_set_min_level().             *)
(*                                                                         *)
(* A step is one access to shared memory, in program order; the atomics    *)
(* of the code are taken as sequentially consistent.  A message is known   *)
(* by its heap block; its text is only known to be formatted or not.       *)
(***************************************************************************)
EXTENDS Integers, Sequences, FiniteSets

CONSTANTS
  Writers,    \* threads that call trace()
  Readers,    \* threads that call trace_at() and read the entry they get
  Observers,  \* observers trace_subscribe() may be given
  Levels,     \* the levels trace() is called with, enum trace_level
  MinLevels,  \* the levels trace_set_min_level() is called with
  Capacity,   \* TRACE_RING_CAPACITY
  NULL,
  MaxHead,    \* bound: at most so many trace() calls
  MaxDepth    \* bound: nesting of trace() calls made by an observer

ASSUME CapacityAssumption == Capacity \in Nat \ {0}
ASSUME LevelAssumption == Levels \subseteq Nat /\ MinLevels \subseteq Nat
ASSUME BoundAssumption == MaxHead \in Nat /\ MaxDepth \in Nat
ASSUME NullAssumption == NULL \notin (Writers \X Nat) \cup Observers

Error == 3   \* trace_level_error, the level the mirror starts with

VARIABLES
  lock,      \* g_trace_lock
  head,      \* g_trace_head
  ring,      \* g_trace_ring
  heap,      \* the message blocks malloc() gave and free() has not taken back
  minLevel,  \* g_trace_min_level
  mirrored,  \* the indices written to stderr so far, in that order
  attached,  \* g_trace_observer # NULL
  slot,      \* g_trace_observer_slot
  pc, idx, stack, fn, that,   \* each writer's place, locals and nested calls
  rpc, want, got,             \* each reader's place, index and copy
  spc, sub                    \* the subscriber's place and argument

logVars == <<lock, head, ring, heap, minLevel, mirrored>>
obsVars == <<attached, slot, spc, sub>>
wrVars  == <<pc, idx, stack, fn, that>>
rdVars  == <<rpc, want, got>>
vars == <<logVars, obsVars, wrVars, rdVars>>

Slots  == 0 .. Capacity - 1
Blocks == Writers \X Nat   \* the block malloc() gives a writer for an index

Entry == [gen : Int, level : Nat, msg : Blocks \cup {NULL}, n : 0..1]

SlotOf(i) == i % Capacity

(* The places in _trace_() between the acquisition and the release.        *)
Critical == {"load", "free", "clear", "alloc", "format", "mirror", "publish",
             "unlock"}
WriterPlaces == Critical \cup {"idle", "spin", "notify", "test", "call",
                               "enter", "callback"}

TypeOK ==
  /\ lock \in BOOLEAN
  /\ head \in Nat
  /\ ring \in [Slots -> Entry]
  /\ heap \subseteq Blocks
  /\ minLevel \in Nat
  /\ mirrored \in Seq(Nat)
  /\ attached \in BOOLEAN
  /\ slot \in [that : Observers \cup {NULL}, fn : Observers \cup {NULL}]
  /\ pc \in [Writers -> WriterPlaces]
  /\ idx \in [Writers -> Nat]
  /\ stack \in [Writers -> Seq(Nat)]
  /\ fn \in [Writers -> Observers \cup {NULL}]
  /\ that \in [Writers -> Observers \cup {NULL}]
  /\ rpc \in [Readers -> {"idle", "fields", "text"}]
  /\ want \in [Readers -> Nat]
  /\ got \in [Readers -> Entry]
  /\ spc \in {"idle", "that", "fn", "store"}
  /\ sub \in Observers \cup {NULL}

EmptyEntry == [gen |-> -1, level |-> 0, msg |-> NULL, n |-> 0]

Init ==
  /\ lock = FALSE
  /\ head = 0
  /\ ring = [s \in Slots |-> EmptyEntry]
  /\ heap = {}
  /\ minLevel = Error
  /\ mirrored = <<>>
  /\ attached = FALSE
  /\ slot = [that |-> NULL, fn |-> NULL]
  /\ pc = [w \in Writers |-> "idle"]
  /\ idx = [w \in Writers |-> 0]
  /\ stack = [w \in Writers |-> <<>>]
  /\ fn = [w \in Writers |-> NULL]
  /\ that = [w \in Writers |-> NULL]
  /\ rpc = [r \in Readers |-> "idle"]
  /\ want = [r \in Readers |-> 0]
  /\ got = [r \in Readers |-> EmptyEntry]
  /\ spc = "idle"
  /\ sub = NULL

-----------------------------------------------------------------------------
(* A writer in _trace_().                                                  *)

Goto(w, from, to) == pc[w] = from /\ pc' = [pc EXCEPT ![w] = to]

(* Bound: calls whose entry is not published yet count as published.       *)
Unpublished == {w \in Writers : pc[w] \in (Critical \ {"unlock"}) \cup {"spin"}}
CallAllowed == head + Cardinality(Unpublished) < MaxHead

(* A thread calls trace().                                                 *)
Trace(w) ==
  /\ CallAllowed
  /\ Goto(w, "idle", "spin")
  /\ UNCHANGED <<logVars, obsVars, idx, stack, fn, that, rdVars>>

(* A bug: the test-and-set is not tested.                                  *)
AcquireUntested(w) ==
  /\ lock' = TRUE
  /\ Goto(w, "spin", "load")
  /\ UNCHANGED <<head, ring, heap, minLevel, mirrored, obsVars>>
  /\ UNCHANGED <<idx, stack, fn, that, rdVars>>

(* The test-and-set that finds the flag clear; the others change nothing.  *)
Acquire(w) ==
  /\ ~lock
  /\ lock' = TRUE
  /\ Goto(w, "spin", "load")
  /\ UNCHANGED <<head, ring, heap, minLevel, mirrored, obsVars>>
  /\ UNCHANGED <<idx, stack, fn, that, rdVars>>

(* A bug: the slot is claimed by advancing the head, then filled.          *)
LoadHeadClaims(w) ==
  /\ Goto(w, "load", "free")
  /\ idx' = [idx EXCEPT ![w] = head]
  /\ head' = head + 1
  /\ UNCHANGED <<lock, ring, heap, minLevel, mirrored, obsVars>>
  /\ UNCHANGED <<stack, fn, that, rdVars>>

LoadHead(w) ==
  /\ Goto(w, "load", "free")
  /\ idx' = [idx EXCEPT ![w] = head]
  /\ UNCHANGED <<logVars, obsVars, stack, fn, that, rdVars>>

MySlot(w) == SlotOf(idx[w])

(* A bug: the pointer is reset before it is freed, and free(NULL) called.  *)
FreeNothing(w) ==
  /\ Goto(w, "free", "clear")
  /\ UNCHANGED <<logVars, obsVars, idx, stack, fn, that, rdVars>>

(* free(e->message): the pointer stays in the entry until Clear.           *)
FreeOld(w) ==
  /\ Goto(w, "free", "clear")
  /\ heap' = heap \ {ring[MySlot(w)].msg}
  /\ UNCHANGED <<lock, head, ring, minLevel, mirrored, obsVars>>
  /\ UNCHANGED <<idx, stack, fn, that, rdVars>>

Clear(w) ==
  /\ Goto(w, "clear", "alloc")
  /\ \E l \in Levels :
       ring' = [ring EXCEPT ![MySlot(w)] =
                  [gen |-> idx[w], level |-> l, msg |-> NULL, n |-> 0]]
  /\ UNCHANGED <<lock, head, heap, minLevel, mirrored, obsVars>>
  /\ UNCHANGED <<idx, stack, fn, that, rdVars>>

(* malloc() of the exact length, which may fail ...                        *)
Allocate(w) ==
  /\ Goto(w, "alloc", "format")
  /\ heap' = heap \cup {<<w, idx[w]>>}
  /\ ring' = [ring EXCEPT ![MySlot(w)].msg = <<w, idx[w]>>]
  /\ UNCHANGED <<lock, head, minLevel, mirrored, obsVars>>
  /\ UNCHANGED <<idx, stack, fn, that, rdVars>>

(* ... in silence, and an empty message is not allocated at all.           *)
NoMessage(w) ==
  /\ Goto(w, "alloc", "mirror")
  /\ UNCHANGED <<logVars, obsVars, idx, stack, fn, that, rdVars>>

(* A bug: the lock protects the ring only, not the mirroring of the entry. *)
FormatUnlocks(w) ==
  /\ Goto(w, "format", "mirror")
  /\ lock' = FALSE
  /\ ring' = [ring EXCEPT ![MySlot(w)].n = 1]
  /\ UNCHANGED <<head, heap, minLevel, mirrored, obsVars>>
  /\ UNCHANGED <<idx, stack, fn, that, rdVars>>

Format(w) ==
  /\ Goto(w, "format", "mirror")
  /\ ring' = [ring EXCEPT ![MySlot(w)].n = 1]
  /\ UNCHANGED <<lock, head, heap, minLevel, mirrored, obsVars>>
  /\ UNCHANGED <<idx, stack, fn, that, rdVars>>

Mirror(w) ==
  /\ Goto(w, "mirror", "publish")
  /\ mirrored' = IF ring[MySlot(w)].level >= minLevel
                 THEN Append(mirrored, idx[w]) ELSE mirrored
  /\ UNCHANGED <<lock, head, ring, heap, minLevel, obsVars>>
  /\ UNCHANGED <<idx, stack, fn, that, rdVars>>

(* A bug: the head counts the wrong way.                                   *)
PublishDown(w) ==
  /\ Goto(w, "publish", "unlock")
  /\ head' = idx[w] - 1
  /\ UNCHANGED <<lock, ring, heap, minLevel, mirrored, obsVars>>
  /\ UNCHANGED <<idx, stack, fn, that, rdVars>>

Publish(w) ==
  /\ Goto(w, "publish", "unlock")
  /\ head' = idx[w] + 1
  /\ UNCHANGED <<lock, ring, heap, minLevel, mirrored, obsVars>>
  /\ UNCHANGED <<idx, stack, fn, that, rdVars>>

(* A bug: the flag is not cleared before the observer is notified.         *)
UnlockForgotten(w) ==
  /\ Goto(w, "unlock", "notify")
  /\ UNCHANGED <<logVars, obsVars, idx, stack, fn, that, rdVars>>

Unlock(w) ==
  /\ Goto(w, "unlock", "notify")
  /\ lock' = FALSE
  /\ UNCHANGED <<head, ring, heap, minLevel, mirrored, obsVars>>
  /\ UNCHANGED <<idx, stack, fn, that, rdVars>>

(* _trace_() returns: to its thread, or to the observer that called it.    *)
(* Locals that are dead are forgotten.                                     *)
Return(w) ==
  /\ fn' = [fn EXCEPT ![w] = NULL]
  /\ that' = [that EXCEPT ![w] = NULL]
  /\ IF stack[w] = <<>>
     THEN /\ pc' = [pc EXCEPT ![w] = "idle"]
          /\ idx' = [idx EXCEPT ![w] = 0]
          /\ UNCHANGED stack
     ELSE /\ pc' = [pc EXCEPT ![w] = "callback"]
          /\ idx' = [idx EXCEPT ![w] = Head(stack[w])]
          /\ stack' = [stack EXCEPT ![w] = Tail(stack[w])]

LoadObserver(w) ==
  /\ pc[w] = "notify"
  /\ IF attached
     THEN Goto(w, "notify", "test") /\ UNCHANGED <<idx, stack, fn, that>>
     ELSE Return(w)
  /\ UNCHANGED <<logVars, obsVars, rdVars>>

(* obs->on_trace != NULL.                                                  *)
TestCallback(w) ==
  /\ pc[w] = "test"
  /\ IF slot.fn # NULL
     THEN /\ Goto(w, "test", "call")
          /\ fn' = [fn EXCEPT ![w] = slot.fn]
          /\ UNCHANGED <<idx, stack, that>>
     ELSE Return(w)
  /\ UNCHANGED <<logVars, obsVars, rdVars>>

(* obs->on_trace(obs, e): the build may load on_trace again or not.        *)
Call(w) ==
  /\ Goto(w, "call", "enter")
  /\ \E f \in {fn[w], slot.fn} : fn' = [fn EXCEPT ![w] = f]
  /\ UNCHANGED <<logVars, obsVars, idx, stack, that, rdVars>>

(* The callback reads its context from the observer it was passed.         *)
ReadContext(w) ==
  /\ Goto(w, "enter", "callback")
  /\ that' = [that EXCEPT ![w] = slot.that]
  /\ UNCHANGED <<logVars, obsVars, idx, stack, fn, rdVars>>

(* An observer may trace; the entry it was passed stays in its frame.      *)
Reenter(w) ==
  /\ CallAllowed
  /\ Len(stack[w]) < MaxDepth
  /\ Goto(w, "callback", "spin")
  /\ stack' = [stack EXCEPT ![w] = <<idx[w]>> \o @]
  /\ idx' = [idx EXCEPT ![w] = 0]
  /\ UNCHANGED <<logVars, obsVars, fn, that, rdVars>>

CallbackReturns(w) ==
  /\ pc[w] = "callback"
  /\ Return(w)
  /\ UNCHANGED <<logVars, obsVars, rdVars>>

-----------------------------------------------------------------------------
(* A reader: trace_at(i), then the fields, then the text of the message.   *)

Wrapped(i) == head > Capacity /\ i < head - Capacity

TraceAt(r, i) ==
  /\ rpc[r] = "idle"
  /\ i < head /\ ~Wrapped(i)
  /\ rpc' = [rpc EXCEPT ![r] = "fields"]
  /\ want' = [want EXCEPT ![r] = i]
  /\ UNCHANGED <<logVars, obsVars, wrVars, got>>

ReadFields(r) ==
  /\ rpc[r] = "fields"
  /\ rpc' = [rpc EXCEPT ![r] = "text"]
  /\ got' = [got EXCEPT ![r] = ring[SlotOf(want[r])]]
  /\ UNCHANGED <<logVars, obsVars, wrVars, want>>

ReadText(r) ==
  /\ rpc[r] = "text"
  /\ rpc' = [rpc EXCEPT ![r] = "idle"]
  /\ want' = [want EXCEPT ![r] = 0]
  /\ got' = [got EXCEPT ![r] = EmptyEntry]
  /\ UNCHANGED <<logVars, obsVars, wrVars>>

-----------------------------------------------------------------------------
(* trace_subscribe() and trace_set_min_level().                            *)

Detach ==
  /\ spc = "idle"
  /\ attached' = FALSE
  /\ UNCHANGED <<slot, spc, sub, logVars, wrVars, rdVars>>

Subscribe(o) ==
  /\ spc = "idle"
  /\ spc' = "that"
  /\ sub' = o
  /\ UNCHANGED <<attached, slot, logVars, wrVars, rdVars>>

CopyThat ==
  /\ spc = "that"
  /\ spc' = "fn"
  /\ slot' = [slot EXCEPT !.that = sub]
  /\ UNCHANGED <<attached, sub, logVars, wrVars, rdVars>>

CopyFn ==
  /\ spc = "fn"
  /\ spc' = "store"
  /\ slot' = [slot EXCEPT !.fn = sub]
  /\ UNCHANGED <<attached, sub, logVars, wrVars, rdVars>>

StoreObserver ==
  /\ spc = "store"
  /\ spc' = "idle"
  /\ attached' = TRUE
  /\ sub' = NULL
  /\ UNCHANGED <<slot, logVars, wrVars, rdVars>>

SetMinLevel(l) ==
  /\ minLevel' = l
  /\ UNCHANGED <<lock, head, ring, heap, mirrored, obsVars, wrVars, rdVars>>

-----------------------------------------------------------------------------
(* What a call does once made: everything but its being made.              *)
WriterStep(w) ==
  \/ Acquire(w)  \/ LoadHead(w) \/ FreeOld(w) \/ Clear(w)
  \/ Allocate(w) \/ NoMessage(w) \/ Format(w) \/ Mirror(w)
  \/ Publish(w)  \/ Unlock(w)
  \/ LoadObserver(w) \/ TestCallback(w) \/ Call(w) \/ ReadContext(w)
  \/ CallbackReturns(w)

ReaderStep(r) ==
  \/ \E i \in 0 .. MaxHead : TraceAt(r, i)
  \/ ReadFields(r) \/ ReadText(r)

SubscriberStep ==
  \/ Detach
  \/ \E o \in Observers : Subscribe(o)
  \/ CopyThat \/ CopyFn \/ StoreObserver

Next ==
  \/ \E w \in Writers : Trace(w) \/ Reenter(w) \/ WriterStep(w)
  \/ \E r \in Readers : ReaderStep(r)
  \/ SubscriberStep
  \/ \E l \in MinLevels : SetMinLevel(l)

(* A thread that runs makes progress.  Nothing is assumed of the order in  *)
(* which the spinlock is handed on: Acquire has weak fairness only.        *)
Fairness == \A w \in Writers : WF_vars(WriterStep(w))

Spec == Init /\ [][Next]_vars
LiveSpec == Spec /\ Fairness

-----------------------------------------------------------------------------
(* Properties.                                                             *)

Log == INSTANCE TraceLog WITH
         head <- head,
         window <- [i \in {j \in (head - Capacity + 1) .. (head - 1) : j >= 0}
                      |-> [level |-> ring[SlotOf(i)].level,
                           msg   |-> ring[SlotOf(i)].msg]]

(* Entry e is index i's, filled to the end, and its message can be read.   *)
Complete(e, i) ==
  /\ e.gen = i
  /\ e.n = (IF e.msg = NULL THEN 0 ELSE 1)
  /\ e.msg # NULL => e.msg \in heap /\ e.msg[2] = i

(* The last Capacity - 1 published entries are complete at every moment,   *)
(* and all Capacity of them while nobody writes: "head advances only after *)
(* the slot is filled" (trace.c:83) and a writer rewrites only the oldest. *)
PublishedIntact ==
  \A i \in (IF lock THEN Log!Retained(head)
            ELSE Log!Retained(head) \cup ({head - Capacity} \cap Nat)) :
    Complete(ring[SlotOf(i)], i)

BeingFreed(t) == \E w \in Writers : pc[w] = "clear" /\ SlotOf(idx[w]) = t

Owns(t, b) == ring[t].msg = b /\ b # NULL /\ ~BeingFreed(t)

(* Every live message block is owned by exactly one slot, and every slot's *)
(* message is live, but in the two lines between free(e->message) and      *)
(* e->message = NULL: no leak, and no block that is freed a second time    *)
(* ("two writers that claim the same slot would double-free", trace.c:79). *)
HeapOwned ==
  /\ \A b \in heap : \E t \in Slots : Owns(t, b)
  /\ \A t \in Slots : Owns(t, ring[t].msg) => ring[t].msg \in heap
  /\ \A t, u \in Slots : Owns(t, ring[t].msg) /\ Owns(u, ring[t].msg) => t = u

(* Lines reach stderr in the order of the ring and no entry twice, though  *)
(* the writers race: of any two lines the later one is of a later entry.   *)
(* The mirror is written under the lock, before the head is advanced.      *)
MirrorInOrder ==
  \A j, k \in DOMAIN mirrored : j < k => mirrored[j] < mirrored[k]

(* A reader that copied an entry and finds that the head has not come      *)
(* within one lap of it holds that very entry, and may read its text: the  *)
(* copy is validated by the head, as for a sequence lock.                  *)
CopyValid ==
  \A r \in Readers :
    rpc[r] = "text" /\ head < want[r] + Capacity => Complete(got[r], want[r])

(* An observer is notified outside the lock, after its entry is published: *)
(* "our slot stays ours until CAPACITY more writes wrap onto it"           *)
(* (trace.c:157).                                                          *)
NotifiedEntryIntact ==
  \A w \in Writers :
    pc[w] \in {"call", "enter", "callback"} /\ head < idx[w] + Capacity
      => idx[w] < head /\ Complete(ring[SlotOf(idx[w])], idx[w])

(* The ring implements the log: no step but Publish changes what a reader  *)
(* within the window can see.                                              *)
ImplementsLog == Log!Spec

(* Whatever an observer does, tracing included, the spinlock is released   *)
(* and every call to trace() returns: "re-entrant tracing from an observer *)
(* would deadlock the spinlock" (trace.c:156) if it were notified inside.  *)
CallsReturn == \A w \in Writers : pc[w] # "idle" ~> pc[w] = "idle"

(* The comment at trace.c:69 says that the release-store of the head makes *)
(* the entry's contents visible to readers before the new head.  What      *)
(* trace_at() returns would then be a complete entry when it returns.      *)
TraceAtComplete ==
  [][\A r \in Readers :
       rpc[r] = "idle" /\ rpc'[r] = "fields"
         => Complete(ring[SlotOf(want'[r])], want'[r])]_vars

(* trace.h:75: "Update is atomic; an in-flight trace() may fire the        *)
(* previous callback once more": a callback runs with its own context.     *)
SubscribeAtomic ==
  \A w \in Writers : pc[w] = "callback" => fn[w] # NULL /\ that[w] = fn[w]

-----------------------------------------------------------------------------
(* The inductive invariant of the proofs.                                  *)

Filling == {"clear", "alloc", "format", "mirror", "publish"}
Published == {"unlock", "notify", "test", "call", "enter", "callback"}

LockInv ==
  /\ \A w \in Writers : pc[w] \in Critical => lock
  /\ \A v, w \in Writers : pc[v] \in Critical /\ pc[w] \in Critical => v = w

IndexInv ==
  /\ \A w \in Writers : pc[w] \in Filling \cup {"free"} => idx[w] = head
  /\ \A w \in Writers : pc[w] \in Published => idx[w] < head
  /\ \A w \in Writers : \A k \in 1 .. Len(stack[w]) : stack[w][k] < head
  /\ \A r \in Readers : rpc[r] # "idle" => want[r] < head

WindowInv ==
  \A i \in Log!Retained(head) : Complete(ring[SlotOf(i)], i)

(* The slot the next entry takes still holds the oldest, or nothing yet.   *)
OldestInv ==
  (\A w \in Writers : pc[w] \notin Filling)
    => IF head >= Capacity
       THEN Complete(ring[SlotOf(head)], head - Capacity)
       ELSE ring[SlotOf(head)].msg = NULL

FreshInv == \A t \in Slots : t > head => ring[t].msg = NULL

StageInv ==
  \A w \in Writers :
    LET e == ring[SlotOf(head)]
    IN  /\ pc[w] = "alloc"  => e.gen = head /\ e.msg = NULL /\ e.n = 0
        /\ pc[w] = "format" =>
             /\ e.gen = head /\ e.msg = <<w, head>> /\ e.n = 0
             /\ e.msg \in heap
        /\ pc[w] \in {"mirror", "publish"} => Complete(e, head)

(* No block but the one of the entry being written bears the next index.   *)
BlockInv ==
  \A t \in Slots :
    ring[t].msg # NULL /\ t # SlotOf(head) => ring[t].msg[2] < head

(* Only a writer about to publish has mirrored the entry at the head.      *)
MirrorInv ==
  \A k \in DOMAIN mirrored :
    /\ mirrored[k] <= head
    /\ (\A w \in Writers : pc[w] # "publish") => mirrored[k] < head

IInv ==
  /\ TypeOK
  /\ LockInv /\ IndexInv /\ WindowInv /\ OldestInv /\ FreshInv /\ StageInv
  /\ BlockInv /\ HeapOwned /\ CopyValid /\ MirrorInv /\ MirrorInOrder

=============================================================================
