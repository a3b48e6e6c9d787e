\* Files of up to four lines in the dialect en-us.
SPECIFICATION Spec
CONSTANTS
  NULL = NULL
  Keys <- Words
  Values <- Strings
  Home <- MCHome
  FirstCapacity = 2
  Lower <- MCLower
  Opening <- MCOpening
  Closing <- MCClosing
  Dialects <- MCDialects
  Dotted = {"etc."}
  Size <- MCSize
  Lead <- MCLead
  Marks <- MCMarks
  Halves <- MCHalves
  Lines <- MCLines
  MaxLines = 4
  IsEnUs = TRUE
  Splits <- MCSplits
INVARIANTS
  TypeOK
  DictChains
  HangNeedsTombstones
  EntriesMeanLines
  CompoundsMeanLines
\* The file ends, or the loader hangs.
CHECK_DEADLOCK FALSE
