--------------------------- MODULE RingbufferProofs -------------------------
(***************************************************************************)
(* What the operations of the ring buffer return, for every size and every *)
(* set V of values and T of timestamps: lemmas that the proofs about its   *)
(* callers share.                                                          *)
(***************************************************************************)
EXTENDS Ringbuffer, TLAPS

-----------------------------------------------------------------------------
(* Arithmetic on the ring.                                                 *)

(* Going round the ring: a position less than two rounds ahead.            *)
LEMMA Around ==
  ASSUME NEW x \in 0 .. 2 * Size - 1
  PROVE  /\ x % Size \in Index
         /\ x % Size = IF x < Size THEN x ELSE x - Size
BY SizeAssumption, SMT DEF Index

(* An index moves to the next slot, and from the last slot to the first.   *)
LEMMA NextIndexValue ==
  ASSUME NEW i \in Index
  PROVE  /\ NextIndex(i) \in Index
         /\ NextIndex(i) = IF i = Size - 1 THEN 0 ELSE i + 1
BY SizeAssumption, SMT DEF Index, NextIndex

(* How far the write index is ahead of the read index.                     *)
LEMMA Distance ==
  ASSUME NEW w \in Index, NEW r \in Index
  PROVE  (w - r) % Size = IF w >= r THEN w - r ELSE w - r + Size
BY SizeAssumption, SMT DEF Index

-----------------------------------------------------------------------------
(* The handle after each operation.                                        *)

(* A new handle is empty, whatever its memory holds.                       *)
LEMMA InitBufferHandle ==
  ASSUME NEW V, NEW T
  PROVE  /\ init_buffer \in ringbuffer_handle(V, T)
         /\ init_buffer.writeIndex = 0
         /\ init_buffer.readIndex = 0
         /\ ~is_full(init_buffer)
BY SizeAssumption DEF ringbuffer_handle, init_buffer, is_full, Index

(* A stamp changes the timestamp alone.                                    *)
LEMMA WriteTimestampHandle ==
  ASSUME NEW V, NEW T, NEW buffer \in ringbuffer_handle(V, T), NEW time \in T
  PROVE  LET after == write_timestamp_to_buffer(buffer, time) IN
         /\ after \in ringbuffer_handle(V, T)
         /\ after.timestamp = time
         /\ after.writeIndex = buffer.writeIndex
         /\ after.readIndex = buffer.readIndex
         /\ after.sensValue = buffer.sensValue
         /\ is_full(after) = is_full(buffer)
BY DEF ringbuffer_handle, write_timestamp_to_buffer, is_full

(* A write stores the value in the slot of the write index, moves the      *)
(* index, and raises the flag when it meets the read index.                *)
LEMMA WriteToBufferHandle ==
  ASSUME NEW V, NEW T, NEW buffer \in ringbuffer_handle(V, T), NEW data \in V
  PROVE  LET after == write_to_buffer(buffer, data) IN
         /\ after \in ringbuffer_handle(V, T)
         /\ after.timestamp = buffer.timestamp
         /\ after.writeIndex = NextIndex(buffer.writeIndex)
         /\ after.readIndex = buffer.readIndex
         /\ \A i \in Index :
              after.sensValue[i] = IF i = buffer.writeIndex THEN data
                                                           ELSE buffer.sensValue[i]
         /\ is_full(after) <=>
              is_full(buffer) \/ NextIndex(buffer.writeIndex) = buffer.readIndex
<1> USE DEF ringbuffer_handle
<1> DEFINE after == write_to_buffer(buffer, data)
<1>1. buffer.writeIndex \in Index /\ NextIndex(buffer.writeIndex) \in Index
  BY NextIndexValue
<1>2. after \in ringbuffer_handle(V, T)
  BY <1>1 DEF write_to_buffer
<1>3. /\ after.timestamp = buffer.timestamp
      /\ after.writeIndex = NextIndex(buffer.writeIndex)
      /\ after.readIndex = buffer.readIndex
      /\ \A i \in Index :
           after.sensValue[i] = IF i = buffer.writeIndex THEN data
                                                        ELSE buffer.sensValue[i]
  BY <1>1 DEF write_to_buffer
<1>4. is_full(after) <=>
        is_full(buffer) \/ NextIndex(buffer.writeIndex) = buffer.readIndex
  BY <1>1 DEF write_to_buffer, is_full
<1> QED  BY <1>2, <1>3, <1>4

(* A read moves the read index and drops the flag when it meets the write  *)
(* index; the value and its timestamp stay in memory.                      *)
LEMMA ReadFromBufferHandle ==
  ASSUME NEW V, NEW T, NEW buffer \in ringbuffer_handle(V, T)
  PROVE  LET after == read_from_buffer(buffer) IN
         /\ after \in ringbuffer_handle(V, T)
         /\ after.timestamp = buffer.timestamp
         /\ after.writeIndex = buffer.writeIndex
         /\ after.readIndex = NextIndex(buffer.readIndex)
         /\ after.sensValue = buffer.sensValue
         /\ is_full(after) <=>
              is_full(buffer) /\ NextIndex(buffer.readIndex) # buffer.writeIndex
<1> USE DEF ringbuffer_handle
<1> DEFINE after == read_from_buffer(buffer)
<1>1. buffer.readIndex \in Index /\ NextIndex(buffer.readIndex) \in Index
  BY NextIndexValue
<1>2. after \in ringbuffer_handle(V, T)
  BY <1>1 DEF read_from_buffer
<1>3. /\ after.timestamp = buffer.timestamp
      /\ after.writeIndex = buffer.writeIndex
      /\ after.readIndex = NextIndex(buffer.readIndex)
      /\ after.sensValue = buffer.sensValue
  BY <1>1 DEF read_from_buffer
<1>4. is_full(after) <=>
        is_full(buffer) /\ NextIndex(buffer.readIndex) # buffer.writeIndex
  BY <1>1 DEF read_from_buffer, is_full
<1> QED  BY <1>2, <1>3, <1>4

-----------------------------------------------------------------------------
(* How many values a handle holds.                                         *)

(* Count is a number of slots, zero exactly for an empty buffer.           *)
LEMMA CountValue ==
  ASSUME NEW V, NEW T, NEW buffer \in ringbuffer_handle(V, T)
  PROVE  LET w == buffer.writeIndex
             r == buffer.readIndex
         IN  /\ Count(buffer) \in 0 .. Size
             /\ w = r => Count(buffer) = IF is_full(buffer) THEN Size ELSE 0
             /\ w > r => Count(buffer) = w - r
             /\ w < r => Count(buffer) = w - r + Size
<1>1. buffer.writeIndex \in Index /\ buffer.readIndex \in Index
  BY DEF ringbuffer_handle
<1> QED  BY <1>1, Distance, SizeAssumption DEF Count, is_full, Index

(* A write to a buffer with a free slot adds one value, and raises the     *)
(* flag with the last slot: a full buffer is one whose flag is up and      *)
(* whose indices meet.                                                     *)
LEMMA WriteCounts ==
  ASSUME NEW V, NEW T, NEW buffer \in ringbuffer_handle(V, T), NEW data \in V,
         Count(buffer) < Size
  PROVE  LET after == write_to_buffer(buffer, data) IN
         /\ Count(after) = Count(buffer) + 1
         /\ is_full(after) <=> is_full(buffer) \/ Count(buffer) = Size - 1
<1> DEFINE after == write_to_buffer(buffer, data)
           w == buffer.writeIndex
           r == buffer.readIndex
<1>1. w \in Index /\ r \in Index
  BY DEF ringbuffer_handle
<1>2. /\ after \in ringbuffer_handle(V, T)
      /\ after.writeIndex = NextIndex(w) /\ after.readIndex = r
      /\ is_full(after) <=> is_full(buffer) \/ NextIndex(w) = r
  BY WriteToBufferHandle
<1>3. /\ NextIndex(w) \in Index
      /\ NextIndex(w) = IF w = Size - 1 THEN 0 ELSE w + 1
  BY <1>1, NextIndexValue
<1>4. /\ Count(buffer) \in 0 .. Size
      /\ w = r => Count(buffer) = IF is_full(buffer) THEN Size ELSE 0
      /\ w > r => Count(buffer) = w - r
      /\ w < r => Count(buffer) = w - r + Size
  BY CountValue
<1>5. /\ NextIndex(w) = r => Count(after) = IF is_full(after) THEN Size ELSE 0
      /\ NextIndex(w) > r => Count(after) = NextIndex(w) - r
      /\ NextIndex(w) < r => Count(after) = NextIndex(w) - r + Size
  BY <1>2, CountValue
<1> HIDE DEF after, w, r
<1>6. NextIndex(w) = r <=> Count(buffer) = Size - 1
  BY <1>1, <1>3, <1>4, SizeAssumption DEF Index
<1>7. Count(after) = Count(buffer) + 1
  BY <1>1, <1>2, <1>3, <1>4, <1>5, SizeAssumption DEF Index
<1> QED  BY <1>2, <1>6, <1>7 DEF after, w, r

(* A read of a buffer with a value takes one away, and drops the flag with *)
(* the last one.                                                           *)
LEMMA ReadCounts ==
  ASSUME NEW V, NEW T, NEW buffer \in ringbuffer_handle(V, T),
         Count(buffer) > 0
  PROVE  LET after == read_from_buffer(buffer) IN
         /\ Count(after) = Count(buffer) - 1
         /\ is_full(after) <=> is_full(buffer) /\ Count(buffer) # 1
<1> DEFINE after == read_from_buffer(buffer)
           w == buffer.writeIndex
           r == buffer.readIndex
<1>1. w \in Index /\ r \in Index
  BY DEF ringbuffer_handle
<1>2. /\ after \in ringbuffer_handle(V, T)
      /\ after.writeIndex = w /\ after.readIndex = NextIndex(r)
      /\ is_full(after) <=> is_full(buffer) /\ NextIndex(r) # w
  BY ReadFromBufferHandle
<1>3. /\ NextIndex(r) \in Index
      /\ NextIndex(r) = IF r = Size - 1 THEN 0 ELSE r + 1
  BY <1>1, NextIndexValue
<1>4. /\ Count(buffer) \in 0 .. Size
      /\ w = r => Count(buffer) = IF is_full(buffer) THEN Size ELSE 0
      /\ w > r => Count(buffer) = w - r
      /\ w < r => Count(buffer) = w - r + Size
  BY CountValue
<1>5. /\ w = NextIndex(r) => Count(after) = IF is_full(after) THEN Size ELSE 0
      /\ w > NextIndex(r) => Count(after) = w - NextIndex(r)
      /\ w < NextIndex(r) => Count(after) = w - NextIndex(r) + Size
  BY <1>2, CountValue
<1> HIDE DEF after, w, r
<1>6. NextIndex(r) = w <=> Count(buffer) = 1
  BY <1>1, <1>3, <1>4, SizeAssumption DEF Index
<1>7. Count(after) = Count(buffer) - 1
  BY <1>1, <1>2, <1>3, <1>4, <1>5, SizeAssumption DEF Index
<1> QED  BY <1>2, <1>6, <1>7 DEF after, w, r
=============================================================================
