\* Writers, a reader and a subscriber: every interleaving, safety only.
SPECIFICATION Spec
CONSTANTS
  w1 = w1
  w2 = w2
  r1 = r1
  o1 = o1
  NULL = NULL
  Writers = {w1, w2}
  Readers = {r1}
  Observers = {o1}
  Levels = {2}
  MinLevels = {2}
  Capacity = 2
  MaxHead = 3
  MaxDepth = 1
SYMMETRY Symmetry
INVARIANTS
  TypeOK
  PublishedIntact
  HeapOwned
  CopyValid
  NotifiedEntryIntact
  MirrorInOrder
PROPERTIES
  ImplementsLog
\* Calls are bounded by MaxHead: the threads may all be done.
CHECK_DEADLOCK FALSE
