---------------------------- MODULE BoundedQueue ----------------------------
(***************************************************************************)
(* What a caller of main/ringbuffer.c may rely on: a first-in first-out    *)
(* queue of at most Size values.                                           *)
(***************************************************************************)
EXTENDS Integers, Sequences

CONSTANTS Size, Value

VARIABLES
  queue,   \* the values stored and not yet read, oldest first
  out      \* the value the last read returned

Init ==
  /\ queue = << >>
  /\ out \in Value

Put(v) ==
  /\ Len(queue) < Size
  /\ queue' = Append(queue, v)
  /\ UNCHANGED out

Get ==
  /\ queue # << >>
  /\ out' = Head(queue)
  /\ queue' = Tail(queue)

Next == Get \/ \E v \in Value : Put(v)

Spec == Init /\ [][Next]_<<queue, out>>
=============================================================================
