\* Three slots and four sample values, as for send_task_udp.  The message is
\* scaled down with the buffer: twelve bytes of payload, room for eight, and
\* an allocation that has to grow for the option.
CONSTANTS
  Size = 3
  Garbage = Garbage
  SampleRange = 4
  WordRange = 1
  ClockJumps = FALSE
  Mtu = 12
  AllocUnit = 1
  WordBytes = 4
SPECIFICATION FairSpec
INVARIANTS
  TypeOK
  MutualExclusion
  ArrayWhole
  MessageSound
PROPERTIES
  EveryChunkDrained
  ImplementsDoubleBuffer
