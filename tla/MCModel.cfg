SPECIFICATION Spec
CONSTANTS
  Files <- MCFiles
  Word = 128
  MaxCell = 127
  Magic = 77
  Version = 3
  AlignKey = 3
  DefaultAlign = 4
  BitAnd <- MCBitAnd
  NULL = NULL
  Clients = {"kittens", "region"}
  VocabKey = 1
  PositionKey = 2
  Required <- MCRequired
  Optional = {6}
INVARIANTS
  TypeOK
  WithinFile
  WeightsHeld
  NothingLeft
  DeliveredInside
\* The process stops when it aborts.
CHECK_DEADLOCK FALSE
