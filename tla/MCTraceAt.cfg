\* One writer and one reader: what trace_at() gives out.
SPECIFICATION Spec
CONSTANTS
  w1 = w1
  r1 = r1
  NULL = NULL
  Writers = {w1}
  Readers = {r1}
  Observers = {}
  Levels = {3}
  MinLevels = {}
  Capacity = 2
  MaxHead = 3
  MaxDepth = 0
PROPERTIES
  TraceAtComplete
CHECK_DEADLOCK FALSE
