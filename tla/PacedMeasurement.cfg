CONSTANTS
  Size = 3
  Garbage = Garbage
  SampleRange = 3
  WordRange = 2
  sensorID = 7
  measuringStart = 1
  startDelay = 2
  SendGap = 0
  ClockJumps = TRUE
SPECIFICATION PacedFairSpec
INVARIANTS
  NeverIdleVisit
  OldestFirst
  PacedInv
PROPERTIES
  LossOnlyAtCapacity
  ImplementsChunkQueue
  BothBuffersRefilled
