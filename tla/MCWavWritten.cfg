\* The WAV writer alone: what a write that fails does to the exit code.
SPECIFICATION Spec
CONSTANTS
  Letter = Letter
  Space = Space
  Stop = Stop
  Newline = Newline
  BufSize = 4
  ParaSilence = 180
  SentSilence = 80
  MaxText = 1
  Texts <- MCTexts
  KITTEN_SYMBOL_CP <- MCSymbols
  SYM_MAP_SIZE = 720
  PipeSize = 1
  MaxFlush = 1
INVARIANTS
  SuccessMeansWritten
