SPECIFICATION LiveSpec
CONSTANTS
  Letter = Letter
  Space = Space
  Stop = Stop
  Newline = Newline
  BufSize = 4
  ParaSilence = 180
  SentSilence = 80
  MaxText = 4
  Texts <- MCTexts
  KITTEN_SYMBOL_CP <- MCSymbols
  SYM_MAP_SIZE = 720
  PipeSize = 1
  MaxFlush = 3
INVARIANTS
  TypeOK
  DocumentSpoken
  PausesBetween
  Lifetimes
  SuccessThroughFfmpeg
PROPERTIES
  Terminates
