--------------------------- MODULE RingbufferQueue --------------------------
(***************************************************************************)
(* One ring buffer used by one caller that honours the preconditions of    *)
(* main/ringbuffer.c: it writes only while a slot is free and reads only   *)
(* while something is unread, in any order.  The two tasks of the program  *)
(* use it in a stricter way (fill to the brim, then drain); http_client.c  *)
(* reads one value per call.                                               *)
(***************************************************************************)
EXTENDS Ringbuffer, Sequences

CONSTANT Value

VARIABLES
  buffer,   \* the handle
  out       \* what the last read_from_buffer returned

vars == <<buffer, out>>

Init ==
  /\ buffer = init_buffer
  /\ out \in Value

Write(v) ==
  /\ Count(buffer) < Size
  /\ buffer' = write_to_buffer(buffer, v)
  /\ UNCHANGED out

Read ==
  /\ Count(buffer) > 0
  /\ out' = ReadValue(buffer)
  /\ buffer' = read_from_buffer(buffer)

Next == Read \/ \E v \in Value : Write(v)

Spec == Init /\ [][Next]_vars

-----------------------------------------------------------------------------
(* The handle keeps the shape of struct ringbuffer_handle and the caller   *)
(* never gets memory that was not written.                                 *)
TypeOK ==
  /\ buffer \in ringbuffer_handle(Value, {})
  /\ out \in Value

(* is_full is a latch: it rises with the last free slot and falls with the *)
(* last unread value, never in between.  So a caller that fills while      *)
(* ~is_full and then drains while is_full gets every value of a whole      *)
(* buffer and leaves nothing behind.                                       *)
FullIsALatch ==
  [][is_full(buffer') # is_full(buffer) =>
       Count(buffer) = IF is_full(buffer) THEN 1 ELSE Size - 1]_vars

(* The buffer is a first-in first-out queue of Size values, whatever the   *)
(* order of reads and writes and wherever the indices wrap.                *)
Fifo == INSTANCE BoundedQueue WITH queue <- Contents(buffer)
ImplementsFifo == Fifo!Spec

-----------------------------------------------------------------------------
(* The inductive invariant behind the properties above: what lies between  *)
(* the indices was written, whatever the memory around it holds.           *)
QueueInv == TypeOK /\ Contents(buffer) \in Seq(Value)
=============================================================================
