SPECIFICATION Spec
CONSTANTS
  Durations <- MCDurations
  Layers = 2
  Page = 8
  Hop = 15
  SegF = 3
  SegU = 6
  SegV = 5
  SegL = 4
  Overlap = 3
  SegI = 5
  Reach1 <- MCReach1
  Reach2 = 1
  K0 = 12
  PadCp = 3
  Kb = 20
  Trim = 10
  TailDrop = 90
INVARIANTS
  TypeOK
  ReadsLive
  FreedOnce
  WholeSignal
