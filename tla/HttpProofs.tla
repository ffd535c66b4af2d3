------------------------------ MODULE HttpProofs ----------------------------
(***************************************************************************)
(* Proofs about one ring buffer and the callers that honour its            *)
(* preconditions, and about the index that http_task posts, for every      *)
(* number of slots and every set of values.                                *)
(***************************************************************************)
EXTENDS HttpClient, RingbufferProofs, SequenceTheorems

(* A handle that belongs to a caller that never stamps it.                 *)
Unstamped == ringbuffer_handle(Value, {})

-----------------------------------------------------------------------------
(* The contents of a handle as a sequence.                                 *)

(* Where the i-th unread value is.                                         *)
LEMMA Position ==
  ASSUME NEW r \in Index, NEW i \in 1 .. Size
  PROVE  /\ (r + i - 1) % Size \in Index
         /\ (r + i - 1) % Size = IF r + i - 1 < Size THEN r + i - 1 ELSE r + i - 1 - Size
BY SizeAssumption, SMT DEF Index

(* The sequence of the unread values, element by element.                  *)
LEMMA ContentsValue ==
  ASSUME NEW b \in Unstamped, Contents(b) \in Seq(Value)
  PROVE  /\ Count(b) \in 0 .. Size
         /\ Len(Contents(b)) = Count(b)
         /\ \A i \in 1 .. Count(b) :
              Contents(b)[i] = b.sensValue[(b.readIndex + i - 1) % Size]
<1>1. Count(b) \in 0 .. Size
  BY CountValue DEF Unstamped
<1>2. DOMAIN Contents(b) = 1 .. Count(b)
  BY DEF Contents
<1>3. Len(Contents(b)) = Count(b)
  BY <1>1, <1>2, LenProperties
<1> QED  BY <1>1, <1>3 DEF Contents

(* A write appends.                                                        *)
LEMMA WriteAppends ==
  ASSUME NEW b \in Unstamped, Contents(b) \in Seq(Value), Count(b) < Size,
         NEW v \in Value
  PROVE  Contents(write_to_buffer(b, v)) = Append(Contents(b), v)
<1> DEFINE after == write_to_buffer(b, v)
           n == Count(b)
           r == b.readIndex
<1>1. /\ n \in 0 .. Size /\ n < Size
      /\ Len(Contents(b)) = n
      /\ \A i \in 1 .. n : Contents(b)[i] = b.sensValue[(r + i - 1) % Size]
  BY ContentsValue
<1>2. Count(after) = n + 1
  BY WriteCounts DEF Unstamped
<1>3. /\ after.readIndex = r /\ r \in Index /\ b.writeIndex \in Index
      /\ \A i \in Index :
           after.sensValue[i] = IF i = b.writeIndex THEN v ELSE b.sensValue[i]
  <2>1. r \in Index /\ b.writeIndex \in Index
    BY DEF Unstamped, ringbuffer_handle
  <2> QED  BY <2>1, WriteToBufferHandle DEF Unstamped
<1>4. /\ b.writeIndex = r => n = IF is_full(b) THEN Size ELSE 0
      /\ b.writeIndex > r => n = b.writeIndex - r
      /\ b.writeIndex < r => n = b.writeIndex - r + Size
  BY CountValue DEF Unstamped
<1> HIDE DEF after, n, r
<1>5. \A i \in 1 .. n + 1 :
        /\ (r + i - 1) % Size \in Index
        /\ (r + i - 1) % Size = IF r + i - 1 < Size THEN r + i - 1 ELSE r + i - 1 - Size
  BY <1>1, <1>3, Position, SizeAssumption
<1>6. ASSUME NEW i \in 1 .. n + 1
      PROVE  (r + i - 1) % Size = b.writeIndex <=> i = n + 1
  <2> DEFINE p == (r + i - 1) % Size
             w == b.writeIndex
  <2>1. p = IF r + i - 1 < Size THEN r + i - 1 ELSE r + i - 1 - Size
    BY <1>5
  <2>2. /\ Size \in Nat /\ n \in Nat /\ i \in Nat /\ 1 <= i /\ i <= n + 1 /\ n < Size
        /\ r \in Nat /\ r < Size /\ w \in Nat /\ w < Size
    BY <1>1, <1>3, SizeAssumption DEF Index
  <2>3. (w = r => n = 0) /\ (w > r => n = w - r) /\ (w < r => n = w - r + Size)
    BY <1>4, <2>2
  <2> HIDE DEF p, w
  <2>4. p = w <=> i = n + 1
    BY <2>1, <2>2, <2>3
  <2> QED  BY <2>4 DEF p, w
<1>7. Contents(after) = [i \in 1 .. n + 1 |-> after.sensValue[(r + i - 1) % Size]]
  BY <1>2, <1>3 DEF Contents
<1>8. \A i \in 1 .. n + 1 :
        Contents(after)[i] = IF i = n + 1 THEN v ELSE Contents(b)[i]
  BY <1>1, <1>3, <1>5, <1>6, <1>7
<1>9. \A i \in 1 .. n : Contents(b)[i] \in Value
  BY <1>1, ElementOfSeq
<1>10. Contents(after) \in [1 .. n + 1 -> Value]
  BY <1>1, <1>7, <1>8, <1>9
<1>11. Contents(after) \in Seq(Value) /\ Len(Contents(after)) = n + 1
  BY <1>1, <1>10, SeqDef, LenProperties
<1>12. /\ Append(Contents(b), v) \in Seq(Value)
       /\ Len(Append(Contents(b), v)) = n + 1
       /\ \A i \in 1 .. n + 1 :
            Append(Contents(b), v)[i] = IF i = n + 1 THEN v ELSE Contents(b)[i]
  BY <1>1, AppendProperties
<1>13. Contents(after) = Append(Contents(b), v)
  BY <1>8, <1>11, <1>12, SeqEqual
<1> QED  BY <1>13 DEF after

(* A read takes the first element off, and returns it.                     *)
LEMMA ReadTakesHead ==
  ASSUME NEW b \in Unstamped, Contents(b) \in Seq(Value), Count(b) > 0
  PROVE  /\ Contents(b) # << >>
         /\ ReadValue(b) = Head(Contents(b))
         /\ ReadValue(b) \in Value
         /\ Contents(read_from_buffer(b)) = Tail(Contents(b))
<1> DEFINE after == read_from_buffer(b)
           n == Count(b)
           r == b.readIndex
<1>1. /\ n \in 1 .. Size
      /\ Len(Contents(b)) = n
      /\ \A i \in 1 .. n : Contents(b)[i] = b.sensValue[(r + i - 1) % Size]
  BY ContentsValue
<1>2. Count(after) = n - 1
  BY ReadCounts DEF Unstamped
<1>3. /\ r \in Index /\ NextIndex(r) \in Index
      /\ NextIndex(r) = IF r = Size - 1 THEN 0 ELSE r + 1
      /\ after.readIndex = NextIndex(r)
      /\ after.sensValue = b.sensValue
  <2>1. r \in Index
    BY DEF Unstamped, ringbuffer_handle
  <2> QED  BY <2>1, NextIndexValue, ReadFromBufferHandle DEF Unstamped
<1> HIDE DEF after, n, r
<1>4. /\ Contents(b) # << >>
      /\ Head(Contents(b)) = Contents(b)[1]
      /\ Contents(b)[1] \in Value
  BY <1>1, ElementOfSeq, EmptySeq
<1>5. ReadValue(b) = Contents(b)[1]
  <2>1. (r + 1 - 1) % Size = r
    BY <1>3, SizeAssumption, SMT DEF Index
  <2> QED  BY <1>1, <2>1 DEF ReadValue, r
<1>6. /\ Tail(Contents(b)) \in Seq(Value)
      /\ Len(Tail(Contents(b))) = n - 1
      /\ \A i \in 1 .. n - 1 : Tail(Contents(b))[i] = Contents(b)[i + 1]
  BY <1>1, <1>4, HeadTailProperties
<1>7. ASSUME NEW i \in 1 .. n - 1
      PROVE  (NextIndex(r) + i - 1) % Size = (r + (i + 1) - 1) % Size
  <2>1. i \in 1 .. Size /\ i + 1 \in 1 .. Size
    BY <1>1, SizeAssumption
  <2> DEFINE p == (NextIndex(r) + i - 1) % Size
             q == (r + (i + 1) - 1) % Size
             k == NextIndex(r)
  <2>2. /\ p = IF k + i - 1 < Size THEN k + i - 1 ELSE k + i - 1 - Size
        /\ q = IF r + (i + 1) - 1 < Size THEN r + (i + 1) - 1 ELSE r + (i + 1) - 1 - Size
    BY <1>3, <2>1, Position
  <2>3. k = IF r = Size - 1 THEN 0 ELSE r + 1
    BY <1>3
  <2> HIDE DEF p, q, k
  <2>4. p = q
    BY <1>1, <1>3, <2>1, <2>2, <2>3, SizeAssumption DEF Index
  <2> QED  BY <2>4 DEF p, q
<1>8. Contents(after) =
        [i \in 1 .. n - 1 |-> b.sensValue[(NextIndex(r) + i - 1) % Size]]
  BY <1>2, <1>3 DEF Contents
<1>9. \A i \in 1 .. n - 1 : Contents(after)[i] = Contents(b)[i + 1]
  BY <1>1, <1>7, <1>8
<1>10. \A i \in 1 .. n - 1 : Contents(b)[i + 1] \in Value
  BY <1>1, ElementOfSeq
<1>11. Contents(after) \in [1 .. n - 1 -> Value]
  BY <1>1, <1>8, <1>9, <1>10
<1>12. Contents(after) \in Seq(Value) /\ Len(Contents(after)) = n - 1
  BY <1>1, <1>11, SeqDef, LenProperties
<1>13. Contents(after) = Tail(Contents(b))
  BY <1>6, <1>9, <1>12, SeqEqual
<1> QED  BY <1>4, <1>5, <1>13 DEF after

-----------------------------------------------------------------------------
(* One buffer and its caller.                                              *)

(* The steps of the queue, taken together with what they do to the queue.  *)
LEMMA WriteIsPut ==
  ASSUME QueueInv, NEW v \in Value, Write(v)
  PROVE  QueueInv' /\ Fifo!Put(v)
<1>1. /\ buffer \in Unstamped /\ Contents(buffer) \in Seq(Value)
      /\ Count(buffer) < Size /\ buffer' = write_to_buffer(buffer, v)
      /\ out' = out /\ out \in Value
  BY DEF QueueInv, TypeOK, Unstamped, Write
<1>2. Contents(buffer') = Append(Contents(buffer), v)
  BY <1>1, WriteAppends
<1>3. buffer' \in Unstamped
  BY <1>1, WriteToBufferHandle DEF Unstamped
<1>4. Contents(buffer') \in Seq(Value)
  BY <1>1, <1>2, AppendProperties
<1>5. Len(Contents(buffer)) < Size
  BY <1>1, ContentsValue
<1> QED  BY <1>1, <1>2, <1>3, <1>4, <1>5 DEF QueueInv, TypeOK, Unstamped, Fifo!Put

LEMMA ReadIsGet ==
  ASSUME QueueInv, Read
  PROVE  QueueInv' /\ Fifo!Get
<1>1. /\ buffer \in Unstamped /\ Contents(buffer) \in Seq(Value)
      /\ Count(buffer) > 0 /\ buffer' = read_from_buffer(buffer)
      /\ out' = ReadValue(buffer)
  BY DEF QueueInv, TypeOK, Unstamped, Read
<1>2. /\ Contents(buffer) # << >>
      /\ out' = Head(Contents(buffer)) /\ out' \in Value
      /\ Contents(buffer') = Tail(Contents(buffer))
  BY <1>1, ReadTakesHead
<1>3. buffer' \in Unstamped
  BY <1>1, ReadFromBufferHandle DEF Unstamped
<1>4. Contents(buffer') \in Seq(Value)
  BY <1>1, <1>2, HeadTailProperties
<1> QED  BY <1>1, <1>2, <1>3, <1>4 DEF QueueInv, TypeOK, Unstamped, Fifo!Get

LEMMA QueueInit == Init => QueueInv /\ Fifo!Init
<1> SUFFICES ASSUME Init PROVE QueueInv /\ Fifo!Init
  OBVIOUS
<1>1. /\ buffer \in Unstamped /\ Count(buffer) = 0 /\ out \in Value
  <2>1. /\ buffer \in Unstamped
        /\ buffer.writeIndex = buffer.readIndex
        /\ ~is_full(buffer)
    BY InitBufferHandle DEF Init, Unstamped
  <2> QED  BY <2>1, CountValue DEF Init, Unstamped
<1>2. Contents(buffer) = << >>
  <2>1. Contents(buffer) = [i \in 1 .. 0 |-> buffer.sensValue[(buffer.readIndex + i - 1) % Size]]
    BY <1>1 DEF Contents
  <2> QED  BY <2>1
<1> QED  BY <1>1, <1>2, EmptySeq DEF QueueInv, TypeOK, Unstamped, Fifo!Init

LEMMA QueueStep ==
  ASSUME QueueInv, [Next]_vars
  PROVE  QueueInv' /\ [Fifo!Next]_<<Contents(buffer), out>>
<1>1. CASE Next
  BY <1>1, WriteIsPut, ReadIsGet DEF Next, Fifo!Next
<1>2. CASE UNCHANGED vars
  BY <1>2 DEF vars, QueueInv, TypeOK
<1> QED  BY <1>1, <1>2

LEMMA QueueInvariance == Spec => []QueueInv
BY QueueInit, QueueStep, PTL DEF Spec

-----------------------------------------------------------------------------
(* The callers of http_task.                                               *)

(* A caller of http_task is one that honours the preconditions.            *)
LEMMA HttpIsQueue == HttpSpec => Spec
<1>1. HttpInit => Init
  BY DEF HttpInit
<1>2. [HttpNext]_httpVars => [Next]_vars
  BY DEF HttpNext, http_task, PostValue, PostReturns, Store, Next, httpVars
<1> QED  BY <1>1, <1>2, PTL DEF HttpSpec, Spec

(* Memory that nothing has written is never returned, and no index leaves  *)
(* the buffer.                                                             *)
THEOREM NoGarbageRead == HttpSpec => []TypeOK
<1>1. QueueInv => TypeOK
  BY DEF QueueInv
<1> QED  BY <1>1, HttpIsQueue, QueueInvariance, PTL

(* The flag rises with the last free slot and falls with the last unread   *)
(* value.                                                                  *)
THEOREM FlagIsALatch == HttpSpec => FullIsALatch
<1>1. ASSUME QueueInv, [Next]_vars, is_full(buffer') # is_full(buffer)
      PROVE  Count(buffer) = IF is_full(buffer) THEN 1 ELSE Size - 1
  <2>1. buffer \in Unstamped
    BY <1>1 DEF QueueInv, TypeOK, Unstamped
  <2>2. is_full(buffer) \in BOOLEAN /\ is_full(buffer') \in BOOLEAN
    <3>1. buffer' \in Unstamped
      BY <1>1, QueueStep DEF QueueInv, TypeOK, Unstamped
    <3> QED  BY <2>1, <3>1 DEF Unstamped, ringbuffer_handle, is_full
  <2>3. CASE Read
    BY <1>1, <2>1, <2>2, <2>3, ReadCounts DEF Read, Unstamped
  <2>4. ASSUME NEW v \in Value, Write(v)
        PROVE  Count(buffer) = IF is_full(buffer) THEN 1 ELSE Size - 1
    BY <1>1, <2>1, <2>2, <2>4, WriteCounts DEF Write, Unstamped
  <2>5. CASE UNCHANGED vars
    BY <1>1, <2>5 DEF vars
  <2> QED  BY <1>1, <2>3, <2>4, <2>5 DEF Next
<1>2. Spec => FullIsALatch
  <2>1. QueueInv /\ [Next]_vars =>
          [is_full(buffer') # is_full(buffer) =>
             Count(buffer) = IF is_full(buffer) THEN 1 ELSE Size - 1]_vars
    BY <1>1
  <2> QED  BY <2>1, QueueInvariance, PTL DEF Spec, FullIsALatch
<1> QED  BY <1>2, HttpIsQueue

(* The ring buffer is a first-in first-out queue.                          *)
THEOREM RingbufferIsFifo == HttpSpec => ImplementsFifo
<1>1. Init => Fifo!Init
  BY QueueInit
<1>2. QueueInv /\ [Next]_vars => [Fifo!Next]_<<Contents(buffer), out>>
  BY QueueStep
<1>3. Spec => ImplementsFifo
  BY <1>1, <1>2, QueueInvariance, PTL DEF Spec, ImplementsFifo, Fifo!Spec
<1> QED  BY <1>3, HttpIsQueue

LEMMA HttpInitEstablishes == HttpInit => HttpInv
<1> SUFFICES ASSUME HttpInit PROVE HttpInv
  OBVIOUS
<1>1. QueueInv /\ ~is_full(buffer)
  BY QueueInit, InitBufferHandle DEF HttpInit, Init
<1> QED  BY <1>1 DEF HttpInit, HttpInv, IndexIsPosition

(* A write never lowers the flag; if it raises it and no post is under     *)
(* way, the buffer is full and the next value read is the first of a       *)
(* chunk.                                                                  *)
LEMMA StoreKeepsHttpInv ==
  ASSUME HttpInv, NEW v \in Value, Store(v)
  PROVE  HttpInv'
<1>1. /\ buffer \in Unstamped /\ Count(buffer) < Size
      /\ buffer' = write_to_buffer(buffer, v)
      /\ sendCounter' = sendCounter /\ posting' = posting
      /\ mixed' = (mixed \/ is_full(buffer) \/ (posting /\ is_full(buffer')))
  BY DEF HttpInv, QueueInv, TypeOK, Unstamped, Store, Write
<1>2. /\ Count(buffer') = Count(buffer) + 1
      /\ is_full(buffer') <=> is_full(buffer) \/ Count(buffer) = Size - 1
  BY <1>1, WriteCounts DEF Unstamped
<1>3. QueueInv'
  BY WriteIsPut DEF HttpInv, Store
<1>4. /\ is_full(buffer) \in BOOLEAN /\ is_full(buffer') \in BOOLEAN
      /\ posting \in BOOLEAN /\ mixed \in BOOLEAN /\ sendCounter \in Nat
      /\ mixed => is_full(buffer) \/ posting
  BY <1>1, <1>3 DEF HttpInv, QueueInv, TypeOK, Unstamped, ringbuffer_handle, is_full
<1>5. IndexIsPosition'
  <2> SUFFICES ASSUME ~mixed, ~is_full(buffer), ~(posting /\ is_full(buffer'))
               PROVE  IF is_full(buffer')
                        THEN sendCounter = Size - Count(buffer')
                        ELSE posting \/ sendCounter = 0
    BY <1>1, <1>4 DEF IndexIsPosition
  <2>1. posting \/ sendCounter = 0
    BY DEF HttpInv, IndexIsPosition
  <2>2. CASE is_full(buffer')
    <3>1. Count(buffer') = Size
      BY <1>2, <2>2, SizeAssumption
    <3> QED  BY <2>1, <2>2, <3>1, SizeAssumption
  <2> QED  BY <2>1, <2>2
<1>6. mixed' \in BOOLEAN /\ (mixed' => is_full(buffer') \/ posting')
  BY <1>1, <1>2, <1>4
<1> QED  BY <1>1, <1>3, <1>4, <1>5, <1>6 DEF HttpInv

(* A read moves the first unread value and the counter on together, unless *)
(* it takes the last one; the counter does not wrap while the flag is up.  *)
LEMMA PostValueKeepsHttpInv ==
  ASSUME HttpInv, PostValue
  PROVE  HttpInv'
<1>1. /\ buffer \in Unstamped /\ Count(buffer) > 0
      /\ buffer' = read_from_buffer(buffer)
      /\ sendCounter' = (sendCounter + 1) % CounterRange
      /\ posting' = TRUE /\ mixed' = mixed
  BY DEF HttpInv, QueueInv, TypeOK, Unstamped, PostValue, Read
<1>2. /\ Count(buffer') = Count(buffer) - 1
      /\ is_full(buffer') <=> is_full(buffer) /\ Count(buffer) # 1
      /\ Count(buffer) \in 1 .. Size
  BY <1>1, ReadCounts, CountValue DEF Unstamped
<1>3. QueueInv'
  BY ReadIsGet DEF HttpInv, PostValue
<1>4. mixed \in BOOLEAN /\ sendCounter \in Nat
  BY DEF HttpInv
<1>5. sendCounter' \in Nat
  BY <1>1, <1>4, CounterAssumption, SizeAssumption
<1>6. IndexIsPosition'
  <2> SUFFICES ASSUME ~mixed, is_full(buffer')
               PROVE  sendCounter' = Size - Count(buffer')
    BY <1>1 DEF IndexIsPosition
  <2>1. sendCounter = Size - Count(buffer) /\ sendCounter + 1 \in 0 .. Size - 1
    BY <1>2, SizeAssumption DEF HttpInv, IndexIsPosition
  <2>2. (sendCounter + 1) % CounterRange = sendCounter + 1
    BY <1>4, <2>1, CounterAssumption, SizeAssumption
  <2> QED  BY <1>1, <1>2, <2>1, <2>2, SizeAssumption
<1> QED  BY <1>1, <1>3, <1>4, <1>5, <1>6 DEF HttpInv

(* The test after the post sees the flag as the writes during the post     *)
(* left it.                                                                *)
LEMMA PostReturnsKeepsHttpInv ==
  ASSUME HttpInv, PostReturns
  PROVE  HttpInv'
<1>1. /\ sendCounter' = IF is_full(buffer) THEN sendCounter ELSE 0
      /\ posting' = FALSE /\ mixed' = (mixed /\ is_full(buffer))
      /\ buffer' = buffer /\ out' = out
  BY DEF PostReturns, vars
<1>2. QueueInv'
  BY <1>1 DEF HttpInv, QueueInv, TypeOK
<1>3. /\ sendCounter' \in Nat
      /\ mixed' \in BOOLEAN
      /\ mixed' => is_full(buffer')
  BY <1>1 DEF HttpInv
<1>4. IndexIsPosition'
  BY <1>1 DEF HttpInv, IndexIsPosition
<1> QED  BY <1>1, <1>2, <1>3, <1>4 DEF HttpInv

(* The index posted with a value is the value's position in its chunk,     *)
(* however large the chunk and whatever is written while a value is being  *)
(* posted, up to the first write that runs into a chunk being drained or   *)
(* completes a chunk during a post, and again after the next reset.        *)
THEOREM PostedIndexIsPosition == HttpSpec => []IndexIsPosition
<1>1. HttpInv /\ [HttpNext]_httpVars => HttpInv'
  <2>1. CASE UNCHANGED httpVars
    BY <2>1 DEF httpVars, vars, HttpInv, QueueInv, TypeOK, IndexIsPosition
  <2> QED
    BY <2>1, StoreKeepsHttpInv, PostValueKeepsHttpInv, PostReturnsKeepsHttpInv
    DEF HttpNext, http_task
<1>2. HttpInv => IndexIsPosition
  BY DEF HttpInv
<1> QED  BY <1>1, <1>2, HttpInitEstablishes, PTL DEF HttpSpec
=============================================================================
