------------------------------ MODULE ChunkQueue ----------------------------
(***************************************************************************)
(* What the measurement as a whole promises, with the buffers, the mutexes *)
(* and the halves of the array out of sight: samples are gathered into     *)
(* chunks, a chunk is the time of its first sample followed by Size        *)
(* samples of which none is missing, and at most Capacity chunks wait.     *)
(* Each chunk goes into one datagram, in the order in which the chunks     *)
(* were measured.  A datagram of two chunks is sent once, unaltered, or    *)
(* dropped whole.  Samples are dropped between chunks only.                *)
(***************************************************************************)
EXTENDS Integers, Sequences

CONSTANTS
  Size,               \* samples per chunk
  Capacity,           \* chunks that may wait or be under construction
  Time, Sample,       \* the values a clock and a sensor can have
  NextSample(_)       \* the sample that follows a given one

VARIABLES
  open,       \* the chunk under construction, or << >>
  pending,    \* the complete chunks in no datagram yet, oldest first
  datagram,   \* the chunks of the datagram that is being gathered
  sending     \* the datagram that is handed to the socket, or << >>

gathering == <<open, pending>>
leaving == <<datagram, sending>>

Init ==
  /\ open = << >>
  /\ pending = << >>
  /\ datagram = << >>
  /\ sending = << >>

Open(t, s) ==
  /\ open = << >>
  /\ Len(pending) < Capacity
  /\ open' = <<t, s>>
  /\ UNCHANGED <<pending, leaving>>

Extend ==
  /\ Len(open) \in 2 .. Size
  /\ open' = Append(open, NextSample(open[Len(open)]))
  /\ UNCHANGED <<pending, leaving>>

Close ==
  /\ Len(open) = Size + 1
  /\ open' = << >>
  /\ pending' = Append(pending, open)
  /\ UNCHANGED leaving

Pack ==
  /\ pending # << >>
  /\ Len(datagram) < 2
  /\ sending = << >>
  /\ datagram' = Append(datagram, Head(pending))
  /\ pending' = Tail(pending)
  /\ UNCHANGED <<open, sending>>

HandOver ==
  /\ Len(datagram) = 2
  /\ sending' = datagram
  /\ datagram' = << >>
  /\ UNCHANGED gathering

Drop ==
  /\ Len(datagram) = 2
  /\ datagram' = << >>
  /\ UNCHANGED <<gathering, sending>>

Transmit ==
  /\ sending # << >>
  /\ sending' = << >>
  /\ UNCHANGED <<gathering, datagram>>

Next ==
  \/ \E t \in Time, s \in Sample : Open(t, s)
  \/ Extend
  \/ Close
  \/ Pack
  \/ HandOver
  \/ Drop
  \/ Transmit

Spec == Init /\ [][Next]_<<gathering, leaving>>
=============================================================================
