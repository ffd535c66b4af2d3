\* Three slots and three values: every index pair, wrapped or not, with the
\* flag up or down, and contents that tell the slots apart.  The counter wraps
\* at five.
CONSTANTS
  Size = 3
  Garbage = Garbage
  Value = {1, 2, 3}
  CounterRange = 5
SPECIFICATION HttpSpec
INVARIANTS TypeOK IndexIsPosition
PROPERTIES FullIsALatch ImplementsFifo
