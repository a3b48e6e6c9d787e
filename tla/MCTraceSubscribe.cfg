\* One writer, and two observers subscribed one after the other.
SPECIFICATION Spec
CONSTANTS
  w1 = w1
  o1 = o1
  o2 = o2
  NULL = NULL
  Writers = {w1}
  Readers = {}
  Observers = {o1, o2}
  Levels = {3}
  MinLevels = {}
  Capacity = 2
  MaxHead = 2
  MaxDepth = 0
INVARIANTS
  SubscribeAtomic
CHECK_DEADLOCK FALSE
