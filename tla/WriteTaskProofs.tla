--------------------------- MODULE WriteTaskProofs --------------------------
(***************************************************************************)
(* Proofs about write_task alone, for every buffer size of at least two    *)
(* slots and every range of the samples and the clock: whatever step the   *)
(* callback takes, it keeps WriterInv.  The proofs about the two tasks     *)
(* that read the buffers rest on these lemmas.                             *)
(***************************************************************************)
EXTENDS WriteTask, RingbufferProofs

(* The handles of the running measurement.                                 *)
Handle == ringbuffer_handle(Sample, Time)

-----------------------------------------------------------------------------
(* What the helpers return.                                                *)

(* The clock stays in the range of its word.                               *)
LEMMA ClockType ==
  ASSUME NEW t \in Int
  PROVE  t % WordRange \in Time
BY WordRangeAssumption, SMT DEF Time

(* testVar never leaves its range.                                         *)
LEMMA NextSampleType ==
  ASSUME NEW v \in Sample
  PROVE  NextSample(v) \in Sample
BY SampleRangeAssumption, SMT DEF Sample, NextSample

(* A new handle is empty, whatever its memory holds.                       *)
LEMMA InitBuffer ==
  /\ init_buffer \in Handle
  /\ init_buffer.writeIndex = 0
  /\ init_buffer.readIndex = 0
  /\ ~is_full(init_buffer)
BY InitBufferHandle DEF Handle

(* A stamp changes the timestamp alone.                                    *)
LEMMA WriteTimestamp ==
  ASSUME NEW buffer \in Handle, NEW time \in Time
  PROVE  LET after == write_timestamp_to_buffer(buffer, time) IN
         /\ after \in Handle
         /\ after.timestamp = time
         /\ after.writeIndex = buffer.writeIndex
         /\ after.readIndex = buffer.readIndex
         /\ after.sensValue = buffer.sensValue
         /\ is_full(after) = is_full(buffer)
BY WriteTimestampHandle DEF Handle

(* A write stores the value in the slot of the write index, moves the      *)
(* index, and raises the flag when it meets the read index.                *)
LEMMA WriteToBuffer ==
  ASSUME NEW buffer \in Handle, NEW data \in Sample
  PROVE  LET after == write_to_buffer(buffer, data) IN
         /\ after \in Handle
         /\ after.timestamp = buffer.timestamp
         /\ after.writeIndex = NextIndex(buffer.writeIndex)
         /\ after.readIndex = buffer.readIndex
         /\ after.sensValue = [buffer.sensValue EXCEPT ![buffer.writeIndex] = data]
         /\ is_full(after) <=>
              is_full(buffer) \/ NextIndex(buffer.writeIndex) = buffer.readIndex
<1> DEFINE after == write_to_buffer(buffer, data)
<1>1. after.sensValue = [buffer.sensValue EXCEPT ![buffer.writeIndex] = data]
  BY NextIndexValue DEF write_to_buffer, Handle, ringbuffer_handle
<1>2. /\ after \in Handle
      /\ after.timestamp = buffer.timestamp
      /\ after.writeIndex = NextIndex(buffer.writeIndex)
      /\ after.readIndex = buffer.readIndex
      /\ is_full(after) <=>
           is_full(buffer) \/ NextIndex(buffer.writeIndex) = buffer.readIndex
  BY WriteToBufferHandle DEF Handle
<1> QED  BY <1>1, <1>2

(* A read moves the read index and drops the flag when it meets the write  *)
(* index; the value and its timestamp stay in memory.                      *)
LEMMA ReadFromBuffer ==
  ASSUME NEW buffer \in Handle
  PROVE  LET after == read_from_buffer(buffer) IN
         /\ after \in Handle
         /\ after.timestamp = buffer.timestamp
         /\ after.writeIndex = buffer.writeIndex
         /\ after.readIndex = NextIndex(buffer.readIndex)
         /\ after.sensValue = buffer.sensValue
         /\ is_full(after) <=>
              is_full(buffer) /\ NextIndex(buffer.readIndex) # buffer.writeIndex
BY ReadFromBufferHandle DEF Handle

(* A gap-free run stays one when the next sample is put behind it.         *)
LEMMA GapFreeAppend ==
  ASSUME NEW S, NEW v \in [Index -> S], NEW n \in Index, n # 0, NEW x,
         GapFree(v, 0, n), x = NextSample(v[n - 1])
  PROVE  GapFree([v EXCEPT ![n] = x], 0, n + 1)
<1> DEFINE u == [v EXCEPT ![n] = x]
<1> SUFFICES ASSUME NEW i \in 0 .. n - 1 PROVE u[i + 1] = NextSample(u[i])
  BY SizeAssumption DEF GapFree, Index
<1>1. i \in Index /\ i + 1 \in Index /\ i # n /\ u[i] = v[i]
  BY SizeAssumption DEF Index
<1>2. CASE i = n - 1
  BY <1>1, <1>2
<1>3. CASE i # n - 1
  <2>1. u[i + 1] = v[i + 1]
    BY <1>1, <1>3 DEF Index
  <2>2. i \in 0 .. 0 + n - 2
    BY <1>3, SizeAssumption DEF Index
  <2> QED  BY <1>1, <2>1, <2>2 DEF GapFree
<1> QED  BY <1>2, <1>3

(* There are two buffers, and Other goes from each to the other.           *)
LEMMA OtherBuffer ==
  ASSUME NEW b \in Buffers
  PROVE  /\ Other(b) \in Buffers
         /\ Other(b) # b
         /\ Other(Other(b)) = b
         /\ \A c \in Buffers : c = b \/ c = Other(b)
BY DEF Buffers, Other

(* The callback always has a buffer to turn to.                            *)
LEMMA TargetInBuffers ==
  ASSUME WriterTypeOK
  PROVE  Target \in Buffers
BY OtherBuffer DEF WriterTypeOK, Target

-----------------------------------------------------------------------------
(* The initial states.                                                     *)

LEMMA WriterInitEstablishes == WriterInit => WriterInv
<1> SUFFICES ASSUME WriterInit PROVE WriterInv
  OBVIOUS
<1> USE DEF WriterInit
<1>1. WriterTypeOK
  <2>1. 0 \in Sample
    BY SampleRangeAssumption DEF Sample
  <2> QED  BY <2>1, InitBuffer DEF WriterTypeOK, Handle, Buffers
<1>2. \A b \in Buffers :
        /\ ringbuffer[b].writeIndex = 0
        /\ ringbuffer[b].readIndex = 0
        /\ ~is_full(ringbuffer[b])
        /\ mutex[b] = "free"
        /\ ~MutexHolder[b]
  BY InitBuffer
<1>3. IsrOwnership
  BY <1>1, <1>2, TargetInBuffers DEF IsrOwnership
<1>4. \A b \in Buffers : FillShape(b)
  BY <1>2 DEF FillShape, FullShape, IndexShape
<1> QED  BY <1>1, <1>3, <1>4 DEF WriterInv

-----------------------------------------------------------------------------
(* A step of the callback.                                                 *)

LEMMA WriterKeepsType ==
  ASSUME WriterTypeOK, WriteStep
  PROVE  WriterTypeOK'
<1> USE DEF WriterTypeOK
<1>0. Target \in Buffers /\ ringbuffer \in [Buffers -> Handle]
  BY TargetInBuffers DEF Handle
<1>1. CASE Alarm
  <2>1. now' \in Time
    BY <1>1, ClockType DEF Alarm, NextClock, Time
  <2>2. testVar' \in Sample
    BY <1>1, NextSampleType DEF Alarm
  <2> QED  BY <1>1, <2>1, <2>2 DEF Alarm
<1>2. CASE TakeFromISR
  BY <1>0, <1>2 DEF TakeFromISR, Take
<1>3. CASE TakeFails
  BY <1>3 DEF TakeFails
<1>4. CASE WriteFirst
  <2>1. write_to_buffer(write_timestamp_to_buffer(ringbuffer[Target], now), testVar)
          \in Handle
    BY <1>0, WriteTimestamp, WriteToBuffer
  <2>2. ringbuffer' \in [Buffers -> Handle]
    BY <1>0, <1>4, <2>1 DEF WriteFirst
  <2> QED  BY <1>4, <2>2 DEF WriteFirst, Handle
<1>5. CASE BackOff
  BY <1>0, <1>5 DEF BackOff, Give
<1>6. CASE AppendSample
  <2>1. write_to_buffer(ringbuffer[Target], testVar) \in Handle
    BY <1>0, WriteToBuffer
  <2>2. ringbuffer' \in [Buffers -> Handle]
    BY <1>0, <1>6, <2>1 DEF AppendSample
  <2> QED  BY <1>6, <2>2 DEF AppendSample, Handle
<1>7. CASE Release
  BY <1>0, <1>7 DEF Release, Give
<1> QED  BY <1>1, <1>2, <1>3, <1>4, <1>5, <1>6, <1>7 DEF WriteStep

LEMMA WriterKeepsOwnership ==
  ASSUME WriterTypeOK, IsrOwnership, WriteStep
  PROVE  IsrOwnership'
<1>0. /\ Target \in Buffers
      /\ mutex \in [Buffers -> {"free", "isr", "task"}]
      /\ MutexHolder \in [Buffers -> BOOLEAN]
      /\ lastBufferWritten \in Buffers
  BY TargetInBuffers DEF WriterTypeOK
<1> USE <1>0 DEF IsrOwnership, Target
<1>1. CASE Alarm
  BY <1>1 DEF Alarm
<1>2. CASE TakeFromISR
  BY <1>2 DEF TakeFromISR, Take
<1>3. CASE TakeFails
  BY <1>3 DEF TakeFails
<1>4. CASE WriteFirst
  BY <1>4 DEF WriteFirst
<1>5. CASE BackOff
  BY <1>5 DEF BackOff, Give
<1>6. CASE AppendSample
  BY <1>6 DEF AppendSample
<1>7. CASE Release
  <2>1. \A b \in Buffers :
          /\ mutex'[b] = (IF b = Target THEN "free" ELSE mutex[b])
          /\ MutexHolder'[b] = (IF b = Target THEN FALSE ELSE MutexHolder[b])
    BY <1>7 DEF Release, Give
  <2>2. \A b \in Buffers : ~MutexHolder'[b] /\ mutex'[b] # "isr"
    BY <2>1
  <2>3. isr' = "idle"
    BY <1>7 DEF Release
  <2> QED  BY <2>1, <2>2, <2>3
<1> QED  BY <1>1, <1>2, <1>3, <1>4, <1>5, <1>6, <1>7 DEF WriteStep

(* The callback takes and gives no mutex but that of its target, and none  *)
(* that the task has.                                                      *)
LEMMA WriterLeavesMutexes ==
  ASSUME WriterInv, WriteStep, NEW b \in Buffers
  PROVE  /\ b # Target => mutex'[b] = mutex[b]
         /\ mutex'[b] = "task" <=> mutex[b] = "task"
<1>1. /\ Target \in Buffers /\ IsrOwnership
      /\ mutex \in [Buffers -> {"free", "isr", "task"}]
  BY TargetInBuffers DEF WriterInv, WriterTypeOK
<1>2. b # Target => mutex'[b] = mutex[b]
  BY <1>1 DEF WriteStep, Alarm, TakeFromISR, TakeFails, WriteFirst, BackOff,
              AppendSample, Release, Take, Give
<1>3. mutex'[Target] = "task" <=> mutex[Target] = "task"
  BY <1>1 DEF IsrOwnership, WriteStep, Alarm, TakeFromISR, TakeFails, WriteFirst,
              BackOff, AppendSample, Release, Take, Give
<1> QED  BY <1>2, <1>3

(* The callback touches no buffer but the one whose mutex it holds.        *)
LEMMA WriterLeavesOthers ==
  ASSUME WriterInv, WriteStep
  PROVE  \A b \in Buffers : mutex[b] # "isr" => ringbuffer'[b] = ringbuffer[b]
<1>0. /\ IsrOwnership /\ Target \in Buffers
      /\ ringbuffer \in [Buffers -> Handle]
  BY TargetInBuffers DEF WriterInv, WriterTypeOK, Handle
<1>1. CASE isr \in {"first", "append", "release"}
  <2>1. mutex[Target] = "isr"
    BY <1>0, <1>1 DEF IsrOwnership
  <2>2. \A b \in Buffers : b # Target => ringbuffer'[b] = ringbuffer[b]
    BY <1>0 DEF WriteStep, Alarm, TakeFromISR, TakeFails, WriteFirst, BackOff,
                AppendSample, Release
  <2> QED  BY <2>1, <2>2
<1>2. CASE isr \notin {"first", "append", "release"}
  BY <1>2 DEF WriteStep, Alarm, TakeFromISR, TakeFails, WriteFirst, BackOff,
              AppendSample, Release
<1> QED  BY <1>1, <1>2

(* The first sample of a chunk.                                            *)
LEMMA FirstSample ==
  ASSUME WriterInv, WriteFirst
  PROVE  /\ FillShape(Target)'
         /\ ringbuffer'[Target].timestamp = now
         /\ ringbuffer'[Target].writeIndex = 1
         /\ ringbuffer'[Target].sensValue[0] = testVar
<1> DEFINE b == Target
           old == ringbuffer[b]
           stamped == write_timestamp_to_buffer(old, now)
           new == write_to_buffer(stamped, testVar)
<1>0. /\ FillShape(b) /\ b \in Buffers
      /\ ringbuffer \in [Buffers -> Handle] /\ now \in Time /\ testVar \in Sample
      /\ mutex[b] = "isr"
  BY TargetInBuffers DEF WriterInv, WriterTypeOK, Handle, WriteFirst, IsrOwnership
<1>1. /\ Target' = b /\ ringbuffer'[b] = new /\ isr' = "idle"
      /\ UNCHANGED <<mutex, testVar>>
  BY <1>0 DEF WriteFirst, Target
<1>2. /\ old.writeIndex = 0 /\ old.readIndex = 0 /\ ~is_full(old)
  BY <1>0 DEF WriteFirst, FillShape, IndexShape
<1>3. /\ stamped \in Handle /\ stamped.timestamp = now /\ ~is_full(stamped)
      /\ stamped.writeIndex = 0 /\ stamped.readIndex = 0
  BY <1>0, <1>2, WriteTimestamp
<1>4. /\ 0 \in Index /\ NextIndex(0) = 1
  BY TwoSlots, SizeAssumption, NextIndexValue DEF Index
<1>5. /\ new.timestamp = now /\ new.writeIndex = 1 /\ new.readIndex = 0
      /\ ~is_full(new)
      /\ new.sensValue = [stamped.sensValue EXCEPT ![0] = testVar]
  BY <1>0, <1>3, <1>4, WriteToBuffer
<1>6. new.sensValue[0] = testVar
  BY <1>3, <1>4, <1>5 DEF Handle, ringbuffer_handle
<1>7. PartShape(b)'
  BY <1>0, <1>1, <1>5, <1>6 DEF PartShape, GapFree
<1> HIDE DEF new
<1>8. FullShape(b)' /\ IndexShape(b)'
  BY <1>0, <1>1, <1>5 DEF FullShape, IndexShape
<1> QED  BY <1>1, <1>5, <1>6, <1>7, <1>8 DEF FillShape

(* The next sample of a chunk, the last one included.                      *)
LEMMA NextSampleOfChunk ==
  ASSUME WriterInv, AppendSample
  PROVE  LET old == ringbuffer[Target]
             new == ringbuffer'[Target]
             w   == old.writeIndex
         IN  /\ FillShape(Target)'
             /\ PartShape(Target) /\ w \in Index
             /\ old.sensValue \in [Index -> Sample \cup {Garbage}]
             /\ new.timestamp = old.timestamp
             /\ new.sensValue = [old.sensValue EXCEPT ![w] = testVar]
             /\ new.writeIndex = IF w = Size - 1 THEN 0 ELSE w + 1
             /\ is_full(new) <=> w = Size - 1
<1> DEFINE b == Target
           old == ringbuffer[b]
           new == write_to_buffer(old, testVar)
           w == old.writeIndex
<1>0. /\ FillShape(b) /\ b \in Buffers
      /\ ringbuffer \in [Buffers -> Handle] /\ testVar \in Sample
      /\ mutex[b] = "isr"
  BY TargetInBuffers DEF WriterInv, WriterTypeOK, Handle, AppendSample, IsrOwnership
<1>1. /\ Target' = b /\ ringbuffer'[b] = new
      /\ isr' = IF is_full(new) THEN "release" ELSE "idle"
      /\ UNCHANGED <<mutex, testVar>>
  BY <1>0 DEF AppendSample, Target
<1>2. PartShape(b) /\ old.readIndex = 0 /\ isr = "append"
  BY <1>0 DEF AppendSample, FillShape, IndexShape
<1>3. /\ old \in Handle /\ w \in Index /\ w # 0 /\ ~is_full(old)
      /\ old.sensValue \in [Index -> Sample \cup {Garbage}]
  BY <1>0, <1>2 DEF PartShape, Handle, ringbuffer_handle
<1>4. /\ new.timestamp = old.timestamp /\ new.timestamp \in Time
      /\ new.writeIndex = NextIndex(w) /\ new.readIndex = 0
      /\ is_full(new) <=> NextIndex(w) = 0
      /\ new.sensValue = [old.sensValue EXCEPT ![w] = testVar]
  BY <1>0, <1>2, <1>3, WriteToBuffer DEF PartShape
<1>5. NextIndex(w) = IF w = Size - 1 THEN 0 ELSE w + 1
  BY <1>3, NextIndexValue
<1>6. /\ \A i \in 0 .. w - 1 : old.sensValue[i] \in Sample
      /\ GapFree(old.sensValue, 0, w)
      /\ testVar = NextSample(old.sensValue[w - 1])
  BY <1>2 DEF PartShape
<1>7. \A i \in 0 .. w : new.sensValue[i] \in Sample
  <2> TAKE i \in 0 .. w
  <2>1. i \in Index /\ (i = w \/ i \in 0 .. w - 1)
    BY <1>3, SizeAssumption DEF Index
  <2> QED  BY <1>0, <1>3, <1>4, <1>6, <2>1
<1>8. GapFree(new.sensValue, 0, w + 1)
  <2>1. \A v \in [Index -> Sample \cup {Garbage}], n \in Index :
          n # 0 /\ GapFree(v, 0, n) /\ testVar = NextSample(v[n - 1])
            => GapFree([v EXCEPT ![n] = testVar], 0, n + 1)
    BY GapFreeAppend
  <2> HIDE DEF w, old, new
  <2>2. GapFree([old.sensValue EXCEPT ![w] = testVar], 0, w + 1)
    BY <1>3, <1>6, <2>1
  <2> QED  BY <1>4, <2>2
<1>9. new.sensValue[w] = testVar
  BY <1>3, <1>4
<1>10. new \in Handle
  BY <1>0, <1>3, WriteToBuffer
<1> HIDE DEF new
<1>11. ASSUME w = Size - 1 PROVE FillShape(b)'
  <2>1. is_full(new) /\ new.writeIndex = 0 /\ isr' = "release"
    BY <1>1, <1>4, <1>5, <1>11
  <2>2. new.sensValue \in [Index -> Sample]
    BY <1>7, <1>10, <1>11 DEF Handle, ringbuffer_handle, Index
  <2>3. FullShape(b)'
    BY <1>1, <1>4, <1>8, <1>11, <2>2, SizeAssumption DEF FullShape
  <2>4. IndexShape(b)'
    BY <1>1, <1>4, <2>1 DEF IndexShape
  <2> QED  BY <1>1, <2>1, <2>3, <2>4 DEF FillShape
<1>12. ASSUME w # Size - 1 PROVE FillShape(b)'
  <2>1. ~is_full(new) /\ new.writeIndex = w + 1 /\ isr' = "idle"
    BY <1>1, <1>3, <1>4, <1>5, <1>12 DEF Index
  <2>2. PartShape(b)'
    BY <1>1, <1>3, <1>4, <1>7, <1>8, <1>9, <2>1 DEF PartShape, Index
  <2>3. FullShape(b)' /\ IndexShape(b)'
    BY <1>0, <1>1, <1>4, <2>1 DEF FullShape, IndexShape
  <2> QED  BY <1>1, <2>1, <2>2, <2>3 DEF FillShape
<1>13. is_full(new) <=> w = Size - 1
  BY <1>3, <1>4, <1>5, SizeAssumption DEF Index
<1> QED  BY <1>1, <1>2, <1>3, <1>4, <1>5, <1>11, <1>12, <1>13

(* A buffer whose mutex the callback neither has nor gets nor gives keeps  *)
(* its shape.                                                              *)
LEMMA OthersKeepShape ==
  ASSUME WriterInv, WriteStep,
         NEW b \in Buffers, mutex[b] # "isr", mutex'[b] = mutex[b]
  PROVE  FillShape(b)'
<1>1. FillShape(b) /\ ringbuffer'[b] = ringbuffer[b]
  BY WriterLeavesOthers DEF WriterInv
<1> QED  BY <1>1 DEF FillShape, FullShape, IndexShape

LEMMA WriterKeepsShape ==
  ASSUME WriterInv, WriteStep
  PROVE  \A b \in Buffers : FillShape(b)'
<1>0. /\ IsrOwnership /\ Target \in Buffers
      /\ \A b \in Buffers : FillShape(b)
      /\ mutex \in [Buffers -> {"free", "isr", "task"}]
      /\ \A b \in Buffers : b # Target => mutex[b] # "isr"
  BY TargetInBuffers DEF WriterInv, WriterTypeOK, IsrOwnership
<1>1. \A b \in Buffers : b # Target => FillShape(b)'
  <2> SUFFICES ASSUME NEW b \in Buffers, b # Target PROVE FillShape(b)'
    OBVIOUS
  <2> QED  BY <1>0, WriterLeavesMutexes, OthersKeepShape
<1>2. ASSUME NEW b \in Buffers, b = Target PROVE FillShape(b)'
  <2>0. FillShape(b) /\ mutex[b] \in {"free", "isr", "task"} /\ (mutex[b] = "isr" <=> MutexHolder[b])
    BY <1>0, <1>2 DEF IsrOwnership
  <2>1. CASE Alarm
    <3>1. CASE mutex[b] = "isr"
      <4>1. PartShape(b) /\ isr = "idle" /\ isr' = "append"
            /\ testVar' = NextSample(testVar) /\ UNCHANGED <<ringbuffer, mutex>>
        BY <1>2, <2>0, <2>1, <3>1 DEF Alarm, FillShape
      <4>2. PartShape(b)'
        BY <4>1 DEF PartShape
      <4> QED  BY <2>0, <4>1, <4>2 DEF FillShape, FullShape, IndexShape
    <3>2. CASE mutex[b] # "isr"
      BY <2>1, <3>2, OthersKeepShape DEF Alarm
    <3> QED  BY <3>1, <3>2
  <2>2. CASE TakeFromISR
    <3>1. /\ isr' = "first" /\ mutex[b] = "free" /\ UNCHANGED ringbuffer
      BY <1>2, <2>2 DEF TakeFromISR, Take
    <3> QED  BY <2>0, <3>1 DEF FillShape, FullShape, IndexShape
  <2>3. CASE TakeFails
    <3>1. mutex[b] # "isr" /\ mutex' = mutex
      BY <1>0, <1>2, <2>0, <2>3 DEF TakeFails, IsrOwnership
    <3> QED  BY <3>1, OthersKeepShape
  <2>4. CASE WriteFirst
    <3>1. Target' = Target
      BY <2>4 DEF WriteFirst, Target
    <3> QED  BY <1>2, <2>4, <3>1, FirstSample DEF FillShape, FullShape, IndexShape, PartShape
  <2>5. CASE BackOff
    <3>1. /\ isr = "first" /\ mutex[b] = "isr" /\ mutex'[b] = "free" /\ UNCHANGED ringbuffer
      BY <1>0, <1>2, <2>0, <2>5 DEF BackOff, Give, IsrOwnership
    <3> QED  BY <2>0, <3>1 DEF FillShape, FullShape, IndexShape
  <2>6. CASE AppendSample
    <3>1. Target' = Target
      BY <2>6 DEF AppendSample, Target
    <3> QED  BY <1>2, <2>6, <3>1, NextSampleOfChunk DEF FillShape, FullShape, IndexShape, PartShape
  <2>7. CASE Release
    <3>1. /\ isr = "release" /\ mutex[b] = "isr" /\ mutex'[b] = "free" /\ UNCHANGED ringbuffer
      BY <1>0, <1>2, <2>0, <2>7 DEF Release, Give, IsrOwnership
    <3> QED  BY <2>0, <3>1 DEF FillShape, FullShape, IndexShape
  <2> QED  BY <2>1, <2>2, <2>3, <2>4, <2>5, <2>6, <2>7 DEF WriteStep
<1> QED  BY <1>1, <1>2

(* The callback keeps its invariant at every step.                         *)
LEMMA WriterKeepsWriterInv ==
  ASSUME WriterInv, WriteStep
  PROVE  WriterInv'
BY WriterKeepsType, WriterKeepsOwnership, WriterKeepsShape DEF WriterInv

-----------------------------------------------------------------------------
(* The callback as one side of a double buffer.                            *)

(* Its first sample of a chunk begins to fill the slot whose turn it is,   *)
(* its release ends that; its other steps change no slot.                  *)
LEMMA WriterMovesSlot ==
  ASSUME WriterInv, WriteStep, NEW draining \in BOOLEAN, NEW b \in Buffers, b = Target
  PROVE  /\ \A c \in Buffers : c # b => SlotOf(c, draining)' = SlotOf(c, draining)
         /\ \/ SlotOf(b, draining)' = SlotOf(b, draining) /\ Target' = Target
            \/ SlotOf(b, draining) = "empty" /\ SlotOf(b, draining)' = "filling"
               /\ Target' = Target
            \/ SlotOf(b, draining) = "filling" /\ SlotOf(b, draining)' = "full"
               /\ Target' = 3 - Target
<1> DEFINE before == SlotOf(b, draining)
           after == SlotOf(b, draining)'
<1>0. /\ IsrOwnership /\ FullShape(b) /\ IndexShape(b)
      /\ mutex[b] = "isr" /\ isr \in {"idle", "append"} => PartShape(b)
      /\ ringbuffer \in [Buffers -> Handle]
      /\ mutex \in [Buffers -> {"free", "isr", "task"}]
      /\ lastBufferWritten \in Buffers
  BY DEF WriterInv, WriterTypeOK, Handle, FillShape
<1>1. \A c \in Buffers : c # b => SlotOf(c, draining)' = SlotOf(c, draining)
  <2> SUFFICES ASSUME NEW c \in Buffers, c # b
               PROVE  SlotOf(c, draining)' = SlotOf(c, draining)
    OBVIOUS
  <2>1. mutex[c] # "isr"
    BY <1>0 DEF IsrOwnership
  <2>2. mutex'[c] = mutex[c] /\ ringbuffer'[c] = ringbuffer[c]
    BY <2>1, WriterLeavesOthers, WriterLeavesMutexes
  <2> QED  BY <2>1, <2>2 DEF SlotOf
<1>3. CASE Alarm
  <2>1. after = before /\ Target' = Target
    BY <1>0, <1>3 DEF Alarm, Target, SlotOf
  <2> QED  BY <1>1, <2>1
<1>4. CASE TakeFromISR
  <2>1. mutex[b] = "free" /\ mutex'[b] = "isr" /\ isr' = "first" /\ UNCHANGED ringbuffer
    BY <1>0, <1>4 DEF TakeFromISR, Take
  <2>2. ringbuffer[b].writeIndex = 0
    BY <1>0, <2>1 DEF IndexShape
  <2>3. after = before /\ Target' = Target
    BY <1>4, <2>1, <2>2 DEF TakeFromISR, Target, SlotOf
  <2> QED  BY <1>1, <2>3
<1>5. CASE TakeFails
  <2>1. mutex[b] # "isr"
    BY <1>0, <1>5 DEF TakeFails, IsrOwnership
  <2>2. after = before /\ Target' = Target
    BY <1>0, <1>5, <2>1 DEF TakeFails, Target, SlotOf
  <2> QED  BY <1>1, <2>2
<1>6. CASE WriteFirst
  <2>1. mutex[b] = "isr" /\ isr = "first" /\ ~is_full(ringbuffer[b])
        /\ isr' = "idle" /\ UNCHANGED <<mutex, lastBufferWritten>>
    BY <1>0, <1>6 DEF WriteFirst, IsrOwnership
  <2>2. ringbuffer[b].writeIndex = 0 /\ ringbuffer'[b].writeIndex # 0
    <3>1. Target' = b
      BY <2>1 DEF Target
    <3>2. PartShape(b)'
      BY <1>6, <2>1, <3>1, FirstSample DEF FillShape, PartShape
    <3> QED  BY <1>0, <2>1, <3>2 DEF IndexShape, PartShape
  <2>3. before = "empty" /\ after = "filling" /\ Target' = Target
    BY <2>1, <2>2 DEF SlotOf, Target
  <2> QED  BY <1>1, <2>3
<1>7. CASE BackOff
  <2>1. mutex[b] = "isr" /\ isr = "first" /\ mutex'[b] = "free" /\ UNCHANGED ringbuffer
    BY <1>0, <1>7 DEF BackOff, Give, IsrOwnership
  <2>2. ringbuffer[b].writeIndex = 0
    BY <1>0, <2>1 DEF IndexShape
  <2>3. after = before /\ Target' = Target
    BY <1>7, <2>1, <2>2 DEF BackOff, Target, SlotOf
  <2> QED  BY <1>1, <2>3
<1>8. CASE AppendSample
  <2>1. mutex[b] = "isr" /\ isr = "append" /\ UNCHANGED <<mutex, lastBufferWritten>>
        /\ isr' \in {"idle", "release"}
    BY <1>0, <1>8 DEF AppendSample, IsrOwnership
  <2>2. ringbuffer[b].writeIndex # 0
    BY <1>0, <2>1 DEF PartShape
  <2>3. isr' = "release" \/ ringbuffer'[b].writeIndex # 0
    <3>1. Target' = b
      BY <2>1 DEF Target
    <3>2. isr' = "idle" => PartShape(b)'
      BY <1>8, <2>1, <3>1, NextSampleOfChunk DEF FillShape, PartShape
    <3> QED  BY <2>1, <3>2 DEF PartShape
  <2>4. before = "filling" /\ after = "filling" /\ Target' = Target
    BY <2>1, <2>2, <2>3 DEF SlotOf, Target
  <2> QED  BY <1>1, <2>4
<1>9. CASE Release
  <2>1. mutex[b] = "isr" /\ isr = "release" /\ mutex'[b] = "free"
        /\ is_full(ringbuffer[b]) /\ UNCHANGED ringbuffer /\ lastBufferWritten' = b
    BY <1>0, <1>9 DEF Release, Give, IsrOwnership, WriterInv, FillShape
  <2>2. before = "filling" /\ after = "full" /\ Target' = 3 - b
    BY <2>1 DEF SlotOf, Target, Other
  <2> QED  BY <1>1, <2>2
<1> QED  BY <1>3, <1>4, <1>5, <1>6, <1>7, <1>8, <1>9 DEF WriteStep

-----------------------------------------------------------------------------
(* The other side.                                                         *)

(* One read of a buffer that is being drained: its index moves on, and     *)
(* with the last value back to 0, where the flag falls.                    *)
LEMMA DrainOne ==
  ASSUME NEW old \in Handle, old.writeIndex = 0, is_full(old)
  PROVE  LET new == read_from_buffer(old) IN
         /\ new \in Handle
         /\ new.writeIndex = 0
         /\ new.timestamp = old.timestamp
         /\ new.sensValue = old.sensValue
         /\ old.readIndex \in Index
         /\ is_full(new) <=> old.readIndex # Size - 1
         /\ new.readIndex = IF is_full(new) THEN old.readIndex + 1 ELSE 0
<1> DEFINE new == read_from_buffer(old)
<1>1. /\ new \in Handle /\ new.timestamp = old.timestamp
      /\ new.writeIndex = 0 /\ new.sensValue = old.sensValue
      /\ new.readIndex = NextIndex(old.readIndex)
      /\ is_full(new) <=> is_full(old) /\ NextIndex(old.readIndex) # 0
  BY ReadFromBuffer
<1>2. old.readIndex \in Index
  BY DEF Handle, ringbuffer_handle
<1>3. NextIndex(old.readIndex) = IF old.readIndex = Size - 1 THEN 0 ELSE old.readIndex + 1
  BY <1>2, NextIndexValue
<1> HIDE DEF new
<1>4. /\ is_full(new) <=> old.readIndex # Size - 1
      /\ new.readIndex = IF is_full(new) THEN old.readIndex + 1 ELSE 0
  BY <1>1, <1>2, <1>3 DEF Index
<1> QED  BY <1>1, <1>2, <1>4 DEF new
=============================================================================
