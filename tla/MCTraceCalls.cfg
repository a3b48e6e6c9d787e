\* No reader: every call returns, observers that trace included.
SPECIFICATION LiveSpec
CONSTANTS
  w1 = w1
  w2 = w2
  o1 = o1
  NULL = NULL
  Writers = {w1, w2}
  Readers = {}
  Observers = {o1}
  Levels = {2}
  MinLevels = {2}
  Capacity = 2
  MaxHead = 3
  MaxDepth = 1
PROPERTIES
  CallsReturn
CHECK_DEADLOCK FALSE
