\* The numbers of the program, but for the clock: 1250 words of payload, and
\* 1152 bytes per message.
CONSTANTS
  Size = 1250
  Garbage = Garbage
  SampleRange = 50000
  WordRange = 1
  ClockJumps = FALSE
  Mtu = 1152
  AllocUnit = 256
  WordBytes = 4
SPECIFICATION Spec
INVARIANT SentWithArray
