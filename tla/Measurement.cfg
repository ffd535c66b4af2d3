\* Three slots tell first, middle and last sample of a chunk apart; four sample
\* values tell a skipped sample from the next one in a chunk.  The clock wraps
\* with testVar, so every stamp can be checked against its sample.
CONSTANTS
  Size = 3
  Garbage = Garbage
  SampleRange = 4
  WordRange = 4
  sensorID = 7
  measuringStart = 3
  startDelay = 3
  SendGap = 1
  ClockJumps = FALSE
SPECIFICATION PauseFairSpec
INVARIANTS
  TypeOK
  MutualExclusion
  WholeChunk
  ArrayInBounds
  CopyExact
  DatagramWhole
  StampMatchesSample
  IInv
PROPERTIES
  UnreadKept
  DroppedAfterSilence
  ImplementsDoubleBuffer
  EveryChunkDrained
