----------------------------- MODULE PacedProofs ----------------------------
(***************************************************************************)
(* Proofs about the measurement at the speed it is built for, module       *)
(* PacedMeasurement: under the assumption made there, no visit of the task *)
(* is in vain, chunks are drained in their order, and samples are lost     *)
(* only when both buffers are taken.                                       *)
(***************************************************************************)
EXTENDS PacedMeasurement, SendTaskUdpProofs, SequenceTheorems

(* Every paced step is a step of the measurement.                          *)
LEMMA PacedIsMeasurement == PacedSpec => Spec
<1>1. PacedInit => Init
  BY DEF PacedInit
<1>2. [PacedNext]_pacedVars => [Next]_vars
  BY DEF PacedNext, PacedWrite, PacedTake, PacedRest, Next, SendStep, pacedVars
<1> QED  BY <1>1, <1>2, PTL DEF PacedSpec, Spec

(* The paced measurement keeps the invariant of the measurement.           *)
LEMMA PacedKeepsIInv == PacedSpec => []IInv
BY PacedIsMeasurement, Invariance, PTL

(* What PacedInv says at the start: both sides are at buffer 1, nothing is *)
(* full, no alarm has been served.                                         *)
LEMMA PacedInitEstablishes == PacedInit => PacedInv
BY InitBuffer DEF PacedInit, Init, WriterInit, SenderInit, PacedInv, TaskBehind,
   SameBuffer, TargetComplete, Inside, Full, Source, Target, Other, Buffers,
   HalvesInTurn, HalfOf

(* The order of the two sides outlasts a step of the callback ...          *)
LEMMA PacedWritePreserves ==
  ASSUME IInv, PacedInv, PacedWrite
  PROVE  TaskBehind' /\ SameBuffer'
<1>0. /\ Ownership /\ Target \in Buffers /\ Source \in Buffers
      /\ Source = Target \/ Source = lastBufferWritten
      /\ lastBufferWritten \in Buffers /\ lastBufferWritten # Target
      /\ MutexHolder \in [Buffers -> BOOLEAN]
      /\ ringbuffer \in [Buffers -> Handle]
      /\ UNCHANGED <<pc, Source>>
  BY TargetAndSource, OtherBuffer
     DEF IInv, TypeOK, WriterTypeOK, Handle, PacedWrite, senderVars, Source, Target
<1>1. Inside => mutex[Source] = "task" /\ ~MutexHolder[Source]
  BY <1>0 DEF Ownership, IsrOwnership, Inside, TaskInside
<1>2. ringbuffer'[lastBufferWritten] = ringbuffer[lastBufferWritten]
  <2>1. WriteStep /\ mutex[lastBufferWritten] # "isr"
    BY <1>0 DEF PacedWrite, Ownership, IsrOwnership
  <2> QED  BY <1>0, <2>1, IInvHasWriterInv, WriterLeavesOthers DEF PacedWrite
<1> USE <1>0, <1>1, <1>2 DEF PacedInv, TaskBehind, SameBuffer, TargetComplete, Inside, Full
<1>3. CASE Alarm
  <2>1. /\ isr = "idle" /\ isr' \in {"append", "take"} /\ (served' <=> served)
        /\ UNCHANGED <<lastBufferWritten, Target, MutexHolder, ringbuffer>>
    BY <1>3 DEF Alarm, PacedWrite, Target
  <2> QED  BY <2>1
<1>4. CASE TakeFromISR
  <2>1. /\ isr = "take" /\ isr' = "first" /\ (served' <=> served) /\ MutexHolder'[Target]
        /\ UNCHANGED <<lastBufferWritten, Target, ringbuffer>>
    BY <1>4 DEF TakeFromISR, PacedWrite, Target
  <2> QED  BY <2>1
<1>5. CASE TakeFails
  <2>1. /\ isr = "take" /\ isr' = "idle" /\ mutex[Target] # "free" /\ ~MutexHolder[Target]
        /\ UNCHANGED <<lastBufferWritten, Target, MutexHolder, ringbuffer>>
    BY <1>5 DEF TakeFails, Target, Ownership, IsrOwnership
  <2>2. Source = Target /\ Inside
    BY <2>1 DEF Ownership, IsrOwnership, TaskInside, IInv, TypeOK, WriterTypeOK
  <2> QED  BY <2>1, <2>2
<1>6. CASE WriteFirst
  <2>1. /\ isr = "first" /\ isr' = "idle" /\ ~Full(Target) /\ MutexHolder[Target]
        /\ mutex[Target] = "isr"
        /\ UNCHANGED <<lastBufferWritten, Target, MutexHolder, mutex>>
    BY <1>6 DEF WriteFirst, Target, Ownership, IsrOwnership
  <2>2. ~Full(Target)'
    BY <1>6, <2>1, IInvHasWriterInv, FirstSample DEF FillShape, PartShape
  <2> QED  BY <2>1, <2>2
<1>7. CASE BackOff
  <2>1. /\ isr = "first" /\ isr' = "idle" /\ Full(Target) /\ MutexHolder[Target]
        /\ UNCHANGED <<lastBufferWritten, Target, ringbuffer>>
    BY <1>7 DEF BackOff, Target, Ownership, IsrOwnership
  <2>2. Source = Target
    BY <2>1
  <2> QED  BY <2>1, <2>2
<1>8. CASE AppendSample
  <2>1. /\ isr = "append" /\ isr' \in {"idle", "release"} /\ MutexHolder[Target]
        /\ mutex[Target] = "isr"
        /\ UNCHANGED <<lastBufferWritten, Target, MutexHolder, mutex>>
    BY <1>8 DEF AppendSample, Target, Ownership, IsrOwnership
  <2>2. ~Full(Target)
    BY <2>1 DEF IInv, BufferShape, Shape, FillShape, PartShape
  <2>3. isr' = "idle" => ~Full(Target)'
    BY <1>8, <2>1, IInvHasWriterInv, NextSampleOfChunk DEF FillShape, PartShape
  <2> QED  BY <2>1, <2>2, <2>3
<1>9. CASE Release
  <2>1. /\ isr = "release" /\ isr' = "idle" /\ MutexHolder[Target]
        /\ lastBufferWritten' = Target /\ Target' = lastBufferWritten
        /\ UNCHANGED ringbuffer
    BY <1>9, OtherBuffer DEF Release, Target, Ownership, IsrOwnership
  <2>2. Full(Target)
    BY <2>1 DEF IInv, BufferShape, Shape, FillShape, Ownership, IsrOwnership
  <2>3. CASE Source = Target
    BY <2>1, <2>2, <2>3
  <2>4. CASE Source # Target
    BY <2>1, <2>2, <2>4
  <2> QED  BY <2>3, <2>4
<1> QED  BY <1>3, <1>4, <1>5, <1>6, <1>7, <1>8, <1>9 DEF PacedWrite, WriteStep

(* ... and a step of the task.                                             *)
LEMMA PacedTaskPreserves ==
  ASSUME IInv, PacedInv, PacedTake \/ PacedRest
  PROVE  TaskBehind' /\ SameBuffer'
<1>0. /\ Ownership /\ Target \in Buffers /\ Source \in Buffers
      /\ Source = Target \/ Source = lastBufferWritten
      /\ lastBufferWritten \in Buffers /\ lastBufferWritten # Target
      /\ ringbuffer \in [Buffers -> Handle]
  BY TargetAndSource, OtherBuffer
     DEF IInv, TypeOK, WriterTypeOK, Handle, Source, Target
<1>1. UNCHANGED <<isr, lastBufferWritten, MutexHolder, Target>>
  BY DEF PacedTake, PacedRest, TakeMutex, Header, ReadOne, Leave, SendDue, SendSkipped,
         Send, writerVars, Target
<1> USE <1>0, <1>1 DEF PacedInv, TaskBehind, SameBuffer, TargetComplete, Inside, Full
<1>2. CASE PacedTake
  <2>1. /\ served /\ ~served' /\ pc = "take" /\ pc' = "check" /\ mutex[Source] = "free"
        /\ UNCHANGED <<Source, ringbuffer>>
    BY <1>2 DEF PacedTake, TakeMutex, Take, Source
  <2>2. ~MutexHolder[Source]
    BY <2>1 DEF Ownership, IsrOwnership
  <2> QED  BY <2>1, <2>2
<1>3. CASE Header /\ UNCHANGED served
  <2>1. /\ pc = "check" /\ pc' = "drain" /\ UNCHANGED <<Source, ringbuffer>>
    BY <1>3 DEF Header, Source, writerVars
  <2> QED  BY <1>3, <2>1
<1>4. CASE ReadOne /\ UNCHANGED served
  <2>1. /\ pc = "drain" /\ pc' = "drain" /\ UNCHANGED Source
        /\ \A b \in Buffers : b # Source => ringbuffer'[b] = ringbuffer[b]
    BY <1>4 DEF ReadOne, Source
  <2> QED  BY <1>4, <2>1
<1>5. CASE Leave /\ UNCHANGED served
  <2>1. /\ Inside /\ ~Inside' /\ ~Full(Source) /\ UNCHANGED ringbuffer
        /\ Source' = Other(Source) /\ pc' \in {"take", "gap"}
    BY <1>5 DEF Leave, Source
  <2>2. Source' = IF Source = Target THEN lastBufferWritten ELSE Target
    BY <2>1, OtherBuffer DEF Target
  <2>3. CASE Source = Target
    BY <1>5, <2>1, <2>2, <2>3
  <2>4. CASE Source # Target
    BY <1>5, <2>1, <2>2, <2>4
  <2> QED  BY <2>3, <2>4
<1>6. CASE (SendDue \/ SendSkipped \/ Send) /\ UNCHANGED served
  <2>1. /\ ~Inside /\ ~Inside' /\ pc' \in {"send", "take"} /\ UNCHANGED <<Source, ringbuffer>>
    BY <1>6 DEF SendDue, SendSkipped, Send, Source, writerVars
  <2> QED  BY <1>6, <2>1
<1> QED  BY <1>2, <1>3, <1>4, <1>5, <1>6 DEF PacedRest

(* Whatever the task has taken with an alarm in between is full.           *)
LEMMA NoVisitInVain == IInv /\ PacedInv => NeverIdleVisit
BY TargetAndSource DEF PacedInv, TaskBehind, SameBuffer, NeverIdleVisit, Full

(* Where the task writes does not depend on the callback.                  *)
LEMMA WriterKeepsHalves ==
  ASSUME IInv, PacedInv, WriteStep, UNCHANGED senderVars
  PROVE  HalvesInTurn'
<1>1. UNCHANGED <<pc, counter, Source>>
  BY DEF senderVars, Source
<1>2. ASSUME pc = "drain" PROVE Base' = Base
  <2>1. Source \in Buffers /\ mutex[Source] = "task"
    BY <1>2, SourceShape
  <2>2. ringbuffer'[Source] = ringbuffer[Source]
    BY <2>1, IInvHasWriterInv, WriterLeavesOthers
  <2> QED  BY <1>1, <2>2 DEF Base, Copied
<1> QED  BY <1>1, <1>2 DEF PacedInv, HalvesInTurn

(* Each visit fills the half of its buffer and leaves counter at the half  *)
(* of the other one.                                                       *)
LEMMA TaskKeepsHalfOrder ==
  ASSUME IInv, PacedInv, SendStep
  PROVE  HalvesInTurn'
<1>0. /\ HalvesInTurn /\ NeverIdleVisit /\ counter \in Nat /\ CounterShape
      /\ lastBufferRead \in {1, 2} /\ Source = IF lastBufferRead = 1 THEN 2 ELSE 1
  BY NoVisitInVain DEF PacedInv, IInv, TypeOK, Buffers, Source, Other
<1>1. CASE TakeMutex
  <2>1. pc = "take" /\ pc' = "check" /\ counter' = counter /\ Source' = Source
    BY <1>1 DEF TakeMutex, Source
  <2> QED  BY <1>0, <2>1 DEF HalvesInTurn
<1>2. CASE Header
  <2>1. /\ pc = "check" /\ pc' = "drain" /\ counter' = counter + 2
        /\ is_full(ringbuffer[Source]) /\ UNCHANGED <<ringbuffer, Source>>
    BY <1>2 DEF Header, Source, writerVars
  <2>2. ringbuffer[Source].readIndex = 0
    BY <2>1, SourceShape
  <2>3. Copied' = 0
    BY <2>1, <2>2 DEF Copied
  <2>4. Base' = counter
    BY <1>0, <2>1, <2>3 DEF Base
  <2> QED  BY <1>0, <2>1, <2>4 DEF HalvesInTurn
<1>3. CASE ReadOne
  <2>1. pc = "drain" /\ pc' = "drain" /\ Base' = Base /\ Source' = Source
    BY <1>3, OneRead DEF ReadOne
  <2> QED  BY <1>0, <2>1 DEF HalvesInTurn
<1>4. CASE Leave
  <2>1. /\ pc = "drain" /\ ~is_full(ringbuffer[Source])
        /\ lastBufferRead' = Source
        /\ pc' = (IF Source = 2 THEN "gap" ELSE "take")
        /\ counter' = (IF Source = 2 THEN 0 ELSE counter)
    BY <1>0, <1>4 DEF Leave, NeverIdleVisit
  <2>2. CASE Source = 2
    BY <2>1, <2>2 DEF HalvesInTurn
  <2>3. CASE Source = 1
    <3>1. counter = Base + 2 + Size /\ Base = 0
      BY <1>0, <2>1, <2>3, CounterRange DEF HalvesInTurn, HalfOf
    <3>2. counter' = Size + 2 /\ Source' = 2 /\ pc' = "take"
      BY <2>1, <2>3, <3>1, SizeAssumption DEF Source, Other
    <3> QED  BY <3>2 DEF HalvesInTurn, HalfOf
  <2> QED  BY <1>0, <2>2, <2>3
<1>5. CASE SendDue \/ SendSkipped \/ Send
  <2>1. /\ pc \in {"gap", "send"} /\ pc' \in {"send", "take"}
        /\ UNCHANGED <<counter, Source>>
    BY <1>5 DEF SendDue, SendSkipped, Send, Source
  <2>2. Source = 1 /\ counter = 0
    BY <1>0, <2>1 DEF CounterShape
  <2> QED  BY <2>1, <2>2 DEF HalvesInTurn, HalfOf
<1> QED  BY <1>1, <1>2, <1>3, <1>4, <1>5 DEF SendStep

(* PacedInv holds in every state of the paced measurement.                 *)
THEOREM PacedInvariance == PacedSpec => []PacedInv
<1>1. IInv /\ PacedInv /\ [PacedNext]_pacedVars => PacedInv'
  <2> SUFFICES ASSUME IInv, PacedInv, [PacedNext]_pacedVars PROVE PacedInv'
    OBVIOUS
  <2>1. CASE UNCHANGED pacedVars
    <3>1. UNCHANGED <<pc, counter, ringbuffer, lastBufferRead, lastBufferWritten, isr,
                      MutexHolder, served>>
      BY <2>1 DEF pacedVars, vars, writerVars, senderVars
    <3>2. TaskBehind' /\ SameBuffer'
      BY <3>1 DEF PacedInv, TaskBehind, SameBuffer, TargetComplete, Inside, Full,
                  Source, Target
    <3>3. HalvesInTurn'
      BY <3>1 DEF PacedInv, HalvesInTurn, Base, Copied, Source
    <3> QED  BY <3>2, <3>3 DEF PacedInv
  <2>2. CASE PacedWrite
    BY <2>2, PacedWritePreserves, WriterKeepsHalves DEF PacedWrite, PacedInv
  <2>3. CASE PacedTake \/ PacedRest
    <3>1. SendStep
      BY <2>3 DEF PacedTake, PacedRest, SendStep
    <3> QED  BY <2>3, <3>1, PacedTaskPreserves, TaskKeepsHalfOrder DEF PacedInv
  <2> QED  BY <2>1, <2>2, <2>3 DEF PacedNext
<1> QED  BY <1>1, PacedInitEstablishes, PacedKeepsIInv, PTL DEF PacedSpec

(* The task never visits a buffer in vain.                                 *)
THEOREM NoIdleVisits == PacedSpec => []NeverIdleVisit
BY NoVisitInVain, PacedInvariance, PacedKeepsIInv, PTL

(* With both buffers full the task is at the older chunk.                  *)
THEOREM OldestChunkFirst == PacedSpec => []OldestFirst
<1>1. IInv /\ PacedInv => OldestFirst
  BY TargetAndSource DEF IInv, PacedInv, TaskBehind, TargetComplete, OldestFirst, Full
<1> QED  BY <1>1, PacedInvariance, PacedKeepsIInv, PTL

(* A sample is dropped only when both buffers hold a chunk that waits or   *)
(* is being drained.                                                       *)
THEOREM LossAtCapacityOnly == PacedSpec => LossOnlyAtCapacity
<1>1. ASSUME IInv, PacedInv, TakeFails \/ BackOff, NEW b \in Buffers
      PROVE  is_full(ringbuffer[b]) \/ TaskInside(b)
  <2>0. /\ Ownership /\ Target \in Buffers /\ Source \in Buffers
        /\ b = Target \/ b = lastBufferWritten
        /\ mutex \in [Buffers -> {"free", "isr", "task"}]
    BY <1>1, TargetAndSource, OtherBuffer DEF IInv, TypeOK, WriterTypeOK, Target
  <2>1. CASE TakeFails
    <3>1. mutex[Target] = "task"
      BY <2>0, <2>1 DEF TakeFails, Ownership, IsrOwnership
    <3>2. TaskInside(Target)
      BY <2>0, <3>1 DEF Ownership, IsrOwnership
    <3>3. Full(lastBufferWritten)
      BY <1>1, <3>2 DEF PacedInv, SameBuffer, TaskInside, Inside
    <3> QED  BY <2>0, <3>2, <3>3 DEF Full
  <2>2. CASE BackOff
    <3>1. TargetComplete
      BY <2>2 DEF BackOff, TargetComplete, Full
    <3>2. Full(lastBufferWritten)
      BY <1>1, <3>1 DEF PacedInv, TaskBehind, SameBuffer
    <3> QED  BY <2>0, <3>1, <3>2 DEF TargetComplete, Full
  <2> QED  BY <1>1, <2>1, <2>2
<1>2. IInv /\ PacedInv /\ [PacedNext]_pacedVars =>
        [(TakeFails \/ BackOff) =>
           \A b \in Buffers : is_full(ringbuffer[b]) \/ TaskInside(b)]_pacedVars
  BY <1>1
<1> QED  BY <1>2, PacedInvariance, PacedKeepsIInv, PTL DEF PacedSpec, LossOnlyAtCapacity

-----------------------------------------------------------------------------
(* The measurement as a queue of chunks.                                   *)

(* Queues of at most two chunks.                                           *)
LEMMA ShortQueues ==
  ASSUME NEW c, NEW d
  PROVE  /\ << >> \o << >> = << >>
         /\ <<c>> \o << >> = <<c>>
         /\ << >> \o <<c>> = <<c>>
         /\ <<c>> \o <<d>> = <<c, d>>
         /\ Append(<< >>, c) = <<c>>
         /\ Append(<<c>>, d) = <<c, d>>
         /\ Head(<<c>>) = c /\ Tail(<<c>>) = << >>
         /\ Head(<<c, d>>) = c /\ Tail(<<c, d>>) = <<d>>
         /\ Len(<< >>) = 0 /\ Len(<<c>>) = 1
         /\ <<c>> # << >> /\ <<c, d>> # << >>
<1> DEFINE S == {c, d}
<1>1. /\ << >> \in Seq(S) /\ <<c>> \in Seq(S) /\ <<d>> \in Seq(S)
      /\ <<c, d>> \in Seq(S) /\ c \in S /\ d \in S
  OBVIOUS
<1>2. << >> \o << >> = << >> /\ <<c>> \o << >> = <<c>> /\ << >> \o <<c>> = <<c>>
  BY <1>1, ConcatEmptySeq
<1>3. /\ Head(<<c>>) = c /\ Head(<<c, d>>) = c
      /\ Tail(<<c>>) = << >> /\ Tail(<<c, d>>) = <<d>>
      /\ Len(<< >>) = 0 /\ Len(<<c>>) = 1 /\ Len(<<d>>) = 1 /\ Len(<<c, d>>) = 2
      /\ <<c>> # << >> /\ <<c, d>> # << >>
  OBVIOUS
<1>4. \A s \in Seq(S) : Len(s) = 2 /\ s[1] = c /\ s[2] = d => s = <<c, d>>
  <2> SUFFICES ASSUME NEW s \in Seq(S), Len(s) = 2, s[1] = c, s[2] = d
               PROVE  s = <<c, d>>
    OBVIOUS
  <2>1. \A i \in 1 .. Len(s) : s[i] = <<c, d>>[i]
    OBVIOUS
  <2> QED  BY <1>1, <1>3, <2>1, SeqEqual
<1> HIDE DEF S
<1>5. /\ <<c>> \o <<d>> \in Seq(S) /\ Len(<<c>> \o <<d>>) = 2
      /\ (<<c>> \o <<d>>)[1] = c /\ (<<c>> \o <<d>>)[2] = d
  BY <1>1, <1>3, ConcatProperties
<1>6. /\ Append(<<c>>, d) \in Seq(S) /\ Len(Append(<<c>>, d)) = 2
      /\ Append(<<c>>, d)[1] = c /\ Append(<<c>>, d)[2] = d
  BY <1>1, <1>3, AppendProperties
<1>7. Append(<< >>, c) = <<c>>
  BY <1>1, <1>2, AppendIsConcat
<1> QED  BY <1>2, <1>3, <1>4, <1>5, <1>6, <1>7

(* A sequence that has one element more than another one.                  *)
LEMMA OneLonger ==
  ASSUME NEW S, NEW s \in Seq(S), NEW t \in Seq(S), NEW x,
         Len(t) = Len(s) + 1, t[Len(s) + 1] = x,
         \A i \in 1 .. Len(s) : t[i] = s[i]
  PROVE  t = Append(s, x)
<1>1. Len(s) \in Nat /\ x \in S
  BY LenProperties, ElementOfSeq
<1>2. /\ Append(s, x) \in Seq(S) /\ Len(Append(s, x)) = Len(s) + 1
      /\ \A i \in 1 .. Len(s) : Append(s, x)[i] = s[i]
      /\ Append(s, x)[Len(s) + 1] = x
  BY <1>1, AppendProperties
<1>3. \A i \in 1 .. Len(t) : t[i] = Append(s, x)[i]
  BY <1>1, <1>2
<1> QED  BY <1>2, <1>3, SeqEqual

(* A chunk is a sequence of its time and n samples.                        *)
LEMMA ChunkSequence ==
  ASSUME NEW b, NEW n \in Nat
  PROVE  /\ Len(Chunk(b, n)) = n + 1
         /\ Chunk(b, n) # << >>
<1>1. Len(Chunk(b, n)) = n + 1
  BY DEF Chunk
<1> QED  BY <1>1

(* Time and samples decide what a chunk is.                                *)
LEMMA ChunkStays ==
  ASSUME NEW b, NEW n \in Nat,
         ringbuffer'[b].timestamp = ringbuffer[b].timestamp,
         \A i \in 0 .. n - 1 : ringbuffer'[b].sensValue[i] = ringbuffer[b].sensValue[i]
  PROVE  Chunk(b, n)' = Chunk(b, n)
<1>1. ChunkTime(b)' = ChunkTime(b)
  BY DEF ChunkTime
<1>2. \A i \in 1 .. n + 1 : i # 1 => i - 2 \in 0 .. n - 1
  OBVIOUS
<1> QED  BY <1>1, <1>2 DEF Chunk

(* The abstract queue in terms of the two sides: b is the buffer that the  *)
(* callback fills next, c the other one.                                   *)
OpenView(b) ==
  /\ isr = "release" => OpenChunk = Chunk(b, Size)
  /\ isr # "release" => \A n \in Index : n = ringbuffer[b].writeIndex =>
       OpenChunk = IF n = 0 THEN << >> ELSE Chunk(b, n)

PendingView(b, c) ==
  /\ TargetComplete /\ Full(c) => PendingChunks = <<Chunk(b, Size), Chunk(c, Size)>>
  /\ TargetComplete /\ ~Full(c) => PendingChunks = <<Chunk(b, Size)>>
  /\ ~TargetComplete /\ Full(c) => PendingChunks = <<Chunk(c, Size)>>
  /\ ~TargetComplete /\ ~Full(c) => PendingChunks = << >>

QueueView(b, c) ==
  b = Target /\ c = lastBufferWritten => OpenView(b) /\ PendingView(b, c)

(* Only the buffer the callback fills has an open chunk, and a full buffer *)
(* waits as soon as it is handed over.                                     *)
LEMMA QueueViewHolds ==
  IInv => \A b, c \in Buffers : QueueView(b, c)
<1> SUFFICES ASSUME IInv, NEW b \in Buffers, NEW c \in Buffers,
                    b = Target, c = lastBufferWritten
             PROVE  QueueView(b, c)
  BY DEF QueueView
<1>0. /\ IsrOwnership /\ c # b /\ FillShape(b) /\ IndexShape(b)
      /\ MutexHolder \in [Buffers -> BOOLEAN] /\ ringbuffer \in [Buffers -> Handle]
  BY OtherBuffer DEF IInv, TypeOK, WriterTypeOK, Ownership, BufferShape, Shape, FillShape,
                     Handle, Target
<1>1. Waiting(c) <=> Full(c)
  BY <1>0 DEF Waiting, Filling, IsrOwnership
<1>2. Filling(b) <=> isr = "release" \/ ringbuffer[b].writeIndex # 0
  BY <1>0 DEF Filling, IsrOwnership, IndexShape
<1>3. /\ isr = "release" => Full(b)
      /\ isr # "release" /\ ringbuffer[b].writeIndex # 0 => ~Full(b)
  BY <1>0 DEF Full, IsrOwnership, FillShape, IndexShape, PartShape
<1>4. Waiting(b) <=> TargetComplete
  BY <1>2, <1>3 DEF Waiting, TargetComplete
<1>5. /\ isr = "release" => OpenChunk = Chunk(b, Size)
      /\ isr # "release" => \A n \in Index : n = ringbuffer[b].writeIndex =>
           OpenChunk = IF n = 0 THEN << >> ELSE Chunk(b, n)
  BY <1>2, <1>3 DEF OpenChunk
<1>6. PendingChunks = (IF TargetComplete THEN <<Chunk(b, Size)>> ELSE << >>)
                        \o (IF Full(c) THEN <<Chunk(c, Size)>> ELSE << >>)
  BY <1>1, <1>4 DEF PendingChunks
<1> QED  BY <1>5, <1>6, ShortQueues DEF QueueView, OpenView, PendingView

(* Steps that keep indices, flags and the contents keep both chunks.       *)
LEMMA SameBuffers ==
  ASSUME NEW b \in Buffers, NEW c \in Buffers, b = Target, c = lastBufferWritten,
         QueueView(b, c), QueueView(b, c)',
         ringbuffer \in [Buffers -> Handle],
         UNCHANGED <<ringbuffer, lastBufferWritten>>,
         isr = "release" <=> isr' = "release"
  PROVE  OpenChunk' = OpenChunk /\ PendingChunks' = PendingChunks
<1>1. /\ \A n \in Nat : Chunk(b, n)' = Chunk(b, n) /\ Chunk(c, n)' = Chunk(c, n)
  BY ChunkStays
<1>2. /\ b = Target' /\ c = lastBufferWritten'
      /\ (TargetComplete' <=> TargetComplete) /\ (Full(c)' <=> Full(c))
  BY DEF Target, TargetComplete, Full
<1>3. /\ Size \in Nat /\ ringbuffer[b].writeIndex \in Index /\ Index \subseteq Nat
      /\ ringbuffer'[b].writeIndex = ringbuffer[b].writeIndex
  BY SizeAssumption DEF Handle, ringbuffer_handle, Index
<1>4. OpenChunk' = OpenChunk
  <2> DEFINE n == ringbuffer[b].writeIndex
  <2>1. CASE isr = "release"
    BY <1>1, <1>2, <1>3, <2>1 DEF QueueView, OpenView
  <2>2. CASE isr # "release"
    <3>1. OpenChunk = IF n = 0 THEN << >> ELSE Chunk(b, n)
      BY <1>3, <2>2 DEF QueueView, OpenView
    <3>2. PICK m \in Index : m = n
      BY <1>3
    <3>3. OpenChunk' = IF m = 0 THEN << >> ELSE Chunk(b, m)'
      BY <1>2, <1>3, <2>2, <3>2 DEF QueueView, OpenView
    <3> QED  BY <1>1, <1>3, <3>1, <3>2, <3>3
  <2> QED  BY <2>1, <2>2
<1>5. PendingChunks' = PendingChunks
  BY <1>1, <1>2, <1>3 DEF QueueView, PendingView
<1> QED  BY <1>4, <1>5

(* A half of the array that nobody writes still holds its chunk.           *)
LEMMA SameHalf ==
  ASSUME NEW b,
         \A i \in 1 .. Size + 1 : buffer_array'[HalfOf(b) + i] = buffer_array[HalfOf(b) + i]
  PROVE  HalfChunk(b)' = HalfChunk(b)
BY DEF HalfChunk, HostWord, HalfOf

(* The callback's steps: the first sample opens a chunk, each further one  *)
(* extends it, and the give closes it.                                     *)
LEMMA WriterGathers ==
  ASSUME IInv, WriteStep, UNCHANGED senderVars,
         NEW b \in Buffers, NEW c \in Buffers, b = Target, c = lastBufferWritten,
         QueueView(b, c), QueueView(b, c)', QueueView(c, b)'
  PROVE  [Queue!Next]_<<Queue!gathering, Queue!leaving>>
<1>0. /\ WriterInv /\ IsrOwnership /\ FillShape(b) /\ IndexShape(b) /\ b # c
      /\ c = Other(b) /\ b = Other(c)
      /\ ringbuffer \in [Buffers -> Handle] /\ Source \in Buffers
      /\ testVar \in Sample /\ now \in Time /\ lastBufferRead \in Buffers
  BY IInvHasWriterInv, TargetAndSource, OtherBuffer
     DEF IInv, TypeOK, WriterTypeOK, WriterInv, FillShape, Handle, Target
<1>a. Size \in Nat /\ Size >= 2 /\ Index = 0 .. Size - 1
  BY SizeAssumption, TwoSlots DEF Index
<1>b. OpenView(b) /\ PendingView(b, c)
  BY DEF QueueView
<1>1. Datagram' = Datagram /\ Sending' = Sending
  <2>1. pc = "drain" => ringbuffer'[Source] = ringbuffer[Source]
    BY <1>0, SourceShape, WriterLeavesOthers
  <2>2. /\ UNCHANGED <<pc, lastBufferRead, Source, buffer_array>>
        /\ (Drained' <=> Drained)
    BY <2>1 DEF senderVars, Source, Drained, Full
  <2>3. HalfChunk(1)' = HalfChunk(1) /\ HalfChunk(2)' = HalfChunk(2)
    BY <2>2, SameHalf
  <2> QED  BY <2>2, <2>3 DEF Datagram, Sending, BothHalves
<1>2. CASE Alarm \/ TakeFromISR \/ TakeFails \/ BackOff
  <2>1. /\ UNCHANGED <<ringbuffer, lastBufferWritten>>
        /\ isr # "release" /\ isr' # "release"
    BY <1>2 DEF Alarm, TakeFromISR, TakeFails, BackOff
  <2> QED  BY <1>0, <1>1, <2>1, SameBuffers DEF Queue!gathering, Queue!leaving
<1>3. ASSUME ringbuffer'[c] = ringbuffer[c], UNCHANGED lastBufferWritten,
             ~TargetComplete, ~TargetComplete'
      PROVE  /\ PendingChunks' = PendingChunks
             /\ Len(PendingChunks) < 2
  <2>1. Chunk(c, Size)' = Chunk(c, Size) /\ (Full(c)' <=> Full(c))
    BY <1>a, <1>3, ChunkStays DEF Full
  <2>2. PendingView(b, c)'
    BY <1>3 DEF Target, QueueView
  <2>3. CASE Full(c)
    <3>1. PendingChunks = <<Chunk(c, Size)>> /\ PendingChunks' = <<Chunk(c, Size)'>>
      BY <1>b, <1>3, <2>1, <2>2, <2>3 DEF PendingView
    <3> QED  BY <2>1, <3>1
  <2>4. CASE ~Full(c)
    <3>1. PendingChunks = << >> /\ PendingChunks' = << >>
      BY <1>b, <1>3, <2>1, <2>2, <2>4 DEF PendingView
    <3> QED  BY <3>1
  <2> QED  BY <2>3, <2>4
<1>4. CASE WriteFirst
  <2> DEFINE time == ChunkTime(b)'
  <2>1. /\ isr = "first" /\ isr' = "idle" /\ ~Full(b)
        /\ UNCHANGED lastBufferWritten /\ ringbuffer'[c] = ringbuffer[c]
        /\ b = Target'
    BY <1>0, <1>4 DEF WriteFirst, Full, Target
  <2>2. /\ ringbuffer'[b].timestamp = now /\ ringbuffer'[b].writeIndex = 1
        /\ ringbuffer'[b].sensValue[0] = testVar
        /\ ~Full(b)'
    BY <1>0, <1>4, <2>1, FirstSample DEF FillShape, PartShape, Full, IsrOwnership, WriteFirst
  <2>3. ringbuffer[b].writeIndex = 0
    BY <1>0, <2>1 DEF IndexShape
  <2>4. OpenChunk = << >>
    BY <1>a, <1>b, <2>1, <2>3 DEF OpenView
  <2>5. OpenChunk' = Chunk(b, 1)'
    <3>1. OpenView(b)' /\ 1 \in Index /\ 1 = ringbuffer'[b].writeIndex
      BY <1>a, <2>1, <2>2 DEF QueueView
    <3> QED  BY <2>1, <3>1 DEF OpenView
  <2>6. time \in Time
    BY <1>0, <2>2, TimediffType, MeasuringStartAssumption DEF ChunkTime
  <2>7. Chunk(b, 1)' = <<time, testVar>>
    BY <2>2 DEF Chunk
  <2>8. PendingChunks' = PendingChunks /\ Len(PendingChunks) < 2
    BY <1>3, <2>1, <2>2 DEF TargetComplete, Full
  <2> HIDE DEF time
  <2>9. Queue!Open(time, testVar)
    BY <1>1, <2>4, <2>5, <2>7, <2>8 DEF Queue!Open, Queue!leaving
  <2> QED  BY <1>0, <2>6, <2>9 DEF Queue!Next
<1>5. CASE AppendSample
  <2> DEFINE old == ringbuffer[b]
             new == ringbuffer'[b]
             w == old.writeIndex
  <2>1. /\ isr = "append" /\ UNCHANGED lastBufferWritten
        /\ ringbuffer'[c] = ringbuffer[c] /\ b = Target'
        /\ isr' = IF is_full(new) THEN "release" ELSE "idle"
    BY <1>0, <1>5 DEF AppendSample, Target
  <2>2. /\ PartShape(b) /\ w \in Index
        /\ old.sensValue \in [Index -> Sample \cup {Garbage}]
        /\ new.timestamp = old.timestamp
        /\ new.sensValue = [old.sensValue EXCEPT ![w] = testVar]
        /\ new.writeIndex = IF w = Size - 1 THEN 0 ELSE w + 1
        /\ is_full(new) <=> w = Size - 1
    BY <1>0, <1>5, NextSampleOfChunk
  <2>3. /\ w # 0 /\ ~Full(b) /\ old.timestamp \in Time
        /\ \A i \in 0 .. w - 1 : old.sensValue[i] \in Sample
        /\ testVar = NextSample(old.sensValue[w - 1])
    BY <2>1, <2>2 DEF PartShape, Full
  <2>4. PICK n \in Index : n = w /\ n # 0
    BY <2>2, <2>3
  <2>a. n \in Nat /\ n >= 1 /\ n <= Size - 1 /\ n - 1 \in Nat
    BY <1>a, <2>4
  <2>b. OpenView(b)'
    BY <2>1 DEF QueueView
  <2>5. OpenChunk = Chunk(b, n)
    BY <1>b, <2>1, <2>4 DEF OpenView
  <2>6. OpenChunk' = Chunk(b, n + 1)'
    <3>1. CASE n = Size - 1
      <4>1. isr' = "release" /\ n + 1 = Size
        BY <1>a, <2>1, <2>2, <2>4, <3>1
      <4>2. OpenChunk' = Chunk(b, Size)'
        BY <2>b, <4>1 DEF OpenView
      <4> QED  BY <4>1, <4>2
    <3>2. CASE n # Size - 1
      <4>1. /\ isr' # "release" /\ n + 1 \in Index /\ n + 1 # 0
            /\ new.writeIndex = n + 1
        BY <1>a, <2>1, <2>2, <2>4, <2>a, <3>2
      <4> QED  BY <2>b, <4>1 DEF OpenView
    <3> QED  BY <3>1, <3>2
  <2>7. /\ Len(Chunk(b, n)) = n + 1 /\ Chunk(b, n)[n + 1] = old.sensValue[n - 1]
        /\ Chunk(b, n) # << >>
    <3>1. n + 1 \in 1 .. n + 1 /\ n + 1 # 1 /\ n + 1 - 2 = n - 1
      BY <2>a
    <3> QED  BY <2>a, <3>1, ChunkSequence DEF Chunk
  <2>8. Chunk(b, n + 1)' = Append(Chunk(b, n), testVar)
    <3> DEFINE S == Time \cup Sample
    <3>1. ChunkTime(b) \in Time /\ ChunkTime(b)' = ChunkTime(b)
      BY <2>2, <2>3, TimediffType, MeasuringStartAssumption DEF ChunkTime
    <3>2. /\ \A i \in 0 .. n - 1 : new.sensValue[i] = old.sensValue[i]
          /\ new.sensValue[n] = testVar
      <4>1. \A i \in 0 .. n - 1 : i \in Index /\ i # n
        BY <1>a, <2>a
      <4> QED  BY <2>2, <2>4, <4>1
    <3>3. Chunk(b, n) \in [1 .. n + 1 -> S]
      <4>1. \A i \in 1 .. n + 1 : i # 1 => i - 2 \in 0 .. n - 1
        BY <2>a
      <4> QED  BY <2>3, <2>4, <3>1, <4>1 DEF Chunk
    <3> DEFINE u == Chunk(b, n)
               v == Chunk(b, n + 1)'
    <3>4. v = [i \in 1 .. n + 2 |-> IF i = 1 THEN ChunkTime(b) ELSE new.sensValue[i - 2]]
      <4>1. n + 1 + 1 = n + 2
        BY <2>a
      <4>2. v = [i \in 1 .. n + 1 + 1 |->
                   IF i = 1 THEN ChunkTime(b) ELSE new.sensValue[i - 2]]
        BY <3>1 DEF Chunk
      <4> QED  BY <4>1, <4>2
    <3>5. u = [i \in 1 .. n + 1 |-> IF i = 1 THEN ChunkTime(b) ELSE old.sensValue[i - 2]]
      BY DEF Chunk
    <3> HIDE DEF S, u, v
    <3>6. v[n + 2] = testVar
      <4>1. PICK m \in 1 .. n + 2 : m = n + 2 /\ m # 1 /\ m - 2 = n
        BY <2>a
      <4>2. v[m] = new.sensValue[m - 2]
        BY <3>4, <4>1
      <4> QED  BY <3>2, <4>1, <4>2
    <3>7. \A i \in 1 .. n + 1 : v[i] = u[i]
      <4>1. \A i \in 1 .. n + 1 : i \in 1 .. n + 2 /\ (i # 1 => i - 2 \in 0 .. n - 1)
        BY <2>a
      <4> QED  BY <3>2, <3>4, <3>5, <4>1
    <3>8. u \in Seq(S) /\ Len(u) = n + 1
      BY <2>7, <2>a, <3>3, SeqDef DEF u
    <3>9. v \in [1 .. n + 2 -> S]
      <4>1. \A i \in 1 .. n + 2 : i = n + 2 \/ i \in 1 .. n + 1
        BY <2>a
      <4>2. \A i \in 1 .. n + 2 : v[i] \in S
        BY <1>0, <3>3, <3>6, <3>7, <4>1 DEF S, u
      <4> QED  BY <3>4, <4>2
    <3>10. v \in Seq(S) /\ Len(v) = n + 2
      <4>1. n + 2 \in Nat
        BY <2>a
      <4>2. v \in Seq(S)
        BY <3>9, <4>1, SeqDef
      <4> QED  BY <3>9, <4>1, <4>2, LenProperties
    <3>11. Len(v) = Len(u) + 1 /\ v[Len(u) + 1] = testVar
           /\ \A i \in 1 .. Len(u) : v[i] = u[i]
      <4>1. n + 2 = n + 1 + 1
        BY <2>a
      <4> QED  BY <3>6, <3>7, <3>8, <3>10, <4>1
    <3>12. v = Append(u, testVar)
      BY <3>8, <3>10, <3>11, OneLonger
    <3> QED  BY <3>12 DEF u, v
  <2>9. PendingChunks' = PendingChunks
    BY <1>3, <2>1, <2>3 DEF TargetComplete, Full
  <2>10. Queue!Extend
    <3>1. Len(OpenChunk) \in 2 .. Size
      BY <1>a, <2>a, <2>5, <2>7
    <3>2. NextSample(OpenChunk[Len(OpenChunk)]) = testVar
      BY <2>3, <2>4, <2>5, <2>7
    <3> QED  BY <1>1, <2>5, <2>6, <2>8, <2>9, <3>1, <3>2 DEF Queue!Extend, Queue!leaving
  <2> QED  BY <2>10 DEF Queue!Next
<1>6. CASE Release
  <2>1. /\ isr = "release" /\ isr' = "idle" /\ UNCHANGED ringbuffer
        /\ b = lastBufferWritten' /\ c = Target'
        /\ Full(b) /\ ~TargetComplete
    BY <1>0, <1>6 DEF Release, Target, IsrOwnership, FillShape, Full, TargetComplete
  <2>2. ringbuffer[c].writeIndex = 0 /\ ringbuffer'[c].writeIndex = 0
    <3>1. mutex[c] # "isr" /\ IndexShape(c)
      BY <1>0 DEF IsrOwnership, WriterInv, FillShape
    <3> QED  BY <2>1, <3>1 DEF IndexShape
  <2>3. /\ OpenChunk = Chunk(b, Size) /\ OpenChunk # << >>
        /\ Len(OpenChunk) = Size + 1
    BY <1>a, <1>b, <2>1, ChunkSequence DEF OpenView
  <2>4. OpenChunk' = << >>
    <3>1. OpenView(c)' /\ 0 \in Index
      BY <1>a, <2>1 DEF QueueView
    <3> QED  BY <2>1, <2>2, <3>1 DEF OpenView
  <2>5. /\ Chunk(b, Size)' = Chunk(b, Size) /\ Chunk(c, Size)' = Chunk(c, Size)
        /\ Full(b)' /\ (TargetComplete' <=> Full(c))
    BY <1>a, <2>1, ChunkStays DEF Full, TargetComplete
  <2>6. PendingChunks' = Append(PendingChunks, OpenChunk)
    <3>1. PendingView(c, b)'
      BY <2>1 DEF QueueView
    <3>2. CASE Full(c)
      <4>1. PendingChunks = <<Chunk(c, Size)>>
        BY <1>b, <2>1, <3>2 DEF PendingView
      <4>2. PendingChunks' = <<Chunk(c, Size)', Chunk(b, Size)'>>
        BY <2>5, <3>1, <3>2 DEF PendingView
      <4> QED  BY <2>3, <2>5, <4>1, <4>2, ShortQueues
    <3>3. CASE ~Full(c)
      <4>1. PendingChunks = << >>
        BY <1>b, <2>1, <3>3 DEF PendingView
      <4>2. PendingChunks' = <<Chunk(b, Size)'>>
        BY <2>5, <3>1, <3>3 DEF PendingView
      <4> QED  BY <2>3, <2>5, <4>1, <4>2, ShortQueues
    <3> QED  BY <3>2, <3>3
  <2>7. Queue!Close
    BY <1>1, <2>3, <2>4, <2>6 DEF Queue!Close, Queue!leaving
  <2> QED  BY <2>7 DEF Queue!Next
<1> QED  BY <1>2, <1>4, <1>5, <1>6 DEF WriteStep

(* The task's steps but the copying of a value.  The last datagram is over *)
(* with the test or the sendto after a visit of buffer 2, and the header   *)
(* of a chunk does not touch the chunk that is in the datagram already.    *)
LEMMA TaskSends ==
  ASSUME IInv, PacedInv, SendStep, ~ReadOne,
         NEW b \in Buffers, NEW c \in Buffers, b = Target, c = lastBufferWritten,
         QueueView(b, c), QueueView(b, c)'
  PROVE  /\ [Queue!Next]_<<Queue!gathering, Queue!leaving>>
         /\ Send => Queue!Transmit
<1>0. /\ ringbuffer \in [Buffers -> Handle] /\ Source \in {1, 2} /\ counter \in Nat
      /\ lastBufferRead \in {1, 2} /\ Source = IF lastBufferRead = 1 THEN 2 ELSE 1
      /\ NeverIdleVisit /\ HalvesInTurn /\ CounterShape
  BY NoVisitInVain
     DEF IInv, PacedInv, TypeOK, WriterTypeOK, Handle, Source, Other, Buffers
<1>a. Size \in Nat /\ Size >= 2
  BY SizeAssumption, TwoSlots
<1>1. /\ UNCHANGED <<isr, lastBufferWritten, ringbuffer>>
  BY DEF SendStep, TakeMutex, Header, ReadOne, Leave, SendDue, SendSkipped, Send,
         writerVars
<1>2. Queue!gathering' = Queue!gathering
  BY <1>0, <1>1, SameBuffers DEF Queue!gathering
<1>3. ASSUME UNCHANGED buffer_array
      PROVE  /\ HalfChunk(1)' = HalfChunk(1) /\ HalfChunk(2)' = HalfChunk(2)
             /\ BothHalves' = BothHalves
  BY <1>3, SameHalf DEF BothHalves
<1>4. Len(BothHalves) = 2 /\ BothHalves # << >>
  BY DEF BothHalves
<1>5. CASE TakeMutex
  <2>1. /\ pc = "take" /\ pc' = "check" /\ UNCHANGED <<lastBufferRead, buffer_array>>
    BY <1>5 DEF TakeMutex
  <2>2. Datagram' = Datagram /\ Sending' = Sending
    BY <1>3, <2>1 DEF Datagram, Sending, Drained
  <2> QED  BY <1>2, <2>1, <2>2 DEF Queue!leaving, Send
<1>6. CASE Header
  <2>1. /\ pc = "check" /\ pc' = "drain" /\ UNCHANGED <<lastBufferRead, Source>>
        /\ Full(Source) /\ Full(Source)'
        /\ \A k \in Cells : k # counter /\ k # counter + 1 =>
             buffer_array'[k] = buffer_array[k]
    BY <1>1, <1>6 DEF Header, Source, Full, IInv, TypeOK
  <2>2. ASSUME lastBufferRead = 1 PROVE HalfChunk(1)' = HalfChunk(1)
    <3>1. counter = Size + 2
      BY <1>0, <2>1, <2>2 DEF HalvesInTurn, HalfOf
    <3>2. \A i \in 1 .. Size + 1 :
            LET k == HalfOf(1) + i IN k \in Cells /\ k # counter /\ k # counter + 1
      BY <1>a, <3>1 DEF HalfOf, Cells, ArrayLength
    <3> QED  BY <2>1, <3>2, SameHalf
  <2>3. Datagram' = Datagram /\ Sending' = Sending
    BY <2>1, <2>2 DEF Datagram, Sending, Drained
  <2> QED  BY <1>2, <2>1, <2>3 DEF Queue!leaving, Send
<1>7. CASE Leave
  <2>1. /\ pc = "drain" /\ Drained /\ lastBufferRead' = Source
        /\ pc' = (IF Source = 2 THEN "gap" ELSE "take") /\ UNCHANGED buffer_array
    BY <1>0, <1>7 DEF Leave, NeverIdleVisit, Drained, Full
  <2>2. ~Drained' /\ (pc' = "gap" <=> Source = 2) /\ pc' # "send"
    BY <1>0, <2>1 DEF Drained
  <2>3. Datagram' = Datagram /\ Sending' = Sending
    BY <1>0, <1>3, <2>1, <2>2 DEF Datagram, Sending
  <2> QED  BY <1>2, <2>1, <2>3 DEF Queue!leaving, Send
<1>8. CASE SendDue
  <2>1. /\ pc = "gap" /\ pc' = "send" /\ lastBufferRead' = 2 /\ UNCHANGED buffer_array
    BY <1>0, <1>8 DEF SendDue, CounterShape
  <2>2. /\ Datagram = BothHalves /\ Datagram' = << >> /\ Sending' = BothHalves
    BY <1>3, <2>1 DEF Datagram, Sending, Drained
  <2>3. Queue!HandOver
    BY <1>2, <1>4, <2>2 DEF Queue!HandOver
  <2> QED  BY <2>1, <2>3 DEF Queue!Next, Send
<1>9. CASE SendSkipped
  <2>1. /\ pc = "gap" /\ pc' = "take" /\ lastBufferRead' = 2 /\ UNCHANGED buffer_array
    BY <1>0, <1>9 DEF SendSkipped, CounterShape
  <2>2. Datagram = BothHalves /\ Datagram' = << >> /\ Sending' = Sending
    BY <2>1 DEF Datagram, Sending, Drained
  <2>3. Queue!Drop
    BY <1>2, <1>4, <2>2 DEF Queue!Drop
  <2> QED  BY <2>1, <2>3 DEF Queue!Next, Send
<1>10. CASE Send
  <2>1. /\ pc = "send" /\ pc' = "take" /\ lastBufferRead = 2 /\ lastBufferRead' = 2
    BY <1>0, <1>10 DEF Send, CounterShape
  <2>2. Sending = BothHalves /\ Sending' = << >> /\ Datagram' = Datagram
    BY <2>1 DEF Datagram, Sending, Drained
  <2>3. Queue!Transmit
    BY <1>2, <1>4, <2>2 DEF Queue!Transmit
  <2> QED  BY <2>3 DEF Queue!Next
<1> QED  BY <1>5, <1>6, <1>7, <1>8, <1>9, <1>10 DEF SendStep

(* The copying of a value: the last one puts the oldest chunk into the     *)
(* datagram; none touches the other half of the array.                     *)
LEMMA CopyPacks ==
  ASSUME IInv, PacedInv, ReadOne, CopyShape',
         NEW b \in Buffers, NEW c \in Buffers, b = Target, c = lastBufferWritten,
         QueueView(b, c), QueueView(b, c)'
  PROVE  [Queue!Next]_<<Queue!gathering, Queue!leaving>>
<1>0. /\ b # c /\ ringbuffer \in [Buffers -> Handle] /\ IsrOwnership /\ Ownership
      /\ Source \in Buffers /\ lastBufferRead \in Buffers /\ Source # lastBufferRead
      /\ (Source = b \/ Source = c) /\ counter \in Nat
      /\ HalvesInTurn
  BY TargetAndSource, OtherBuffer
     DEF IInv, PacedInv, TypeOK, WriterTypeOK, Ownership, Handle, Target, Source
<1>a. Size \in Nat /\ Size >= 2 /\ Index = 0 .. Size - 1
  BY SizeAssumption, TwoSlots DEF Index
<1>b. HalfOf(Source) \in {0, Size + 2} /\ HalfOf(lastBufferRead) \in {0, Size + 2}
      /\ HalfOf(Source) # HalfOf(lastBufferRead)
  BY <1>0, <1>a DEF HalfOf, Buffers
<1>1. UNCHANGED <<isr, lastBufferWritten>> /\ b = Target'
  BY DEF ReadOne, Target
<1> DEFINE old == ringbuffer[Source]
           new == ringbuffer'[Source]
<1>2. /\ pc = "drain" /\ pc' = "drain" /\ lastBufferRead' = lastBufferRead
      /\ Source' = Source /\ Full(Source)
      /\ \A x \in Buffers : x # Source => ringbuffer'[x] = ringbuffer[x]
      /\ \A k \in Cells : k # counter => buffer_array'[k] = buffer_array[k]
  BY <1>0 DEF ReadOne, Source, Full, IInv, TypeOK
<1>3. /\ new.timestamp = old.timestamp /\ new.sensValue = old.sensValue
      /\ old.readIndex \in Index /\ new.writeIndex = 0 /\ old.writeIndex = 0
      /\ Base' = Base /\ Copied' = old.readIndex + 1
      /\ is_full(new) <=> old.readIndex # Size - 1
  BY <1>2, OneRead, SourceShape DEF Handle, ringbuffer_handle
<1>4. /\ Base = HalfOf(Source) /\ counter = Base + 2 + old.readIndex
  BY <1>0, <1>2, CounterRange DEF HalvesInTurn, Full
<1>5. \A x \in Buffers, n \in Nat : Chunk(x, n)' = Chunk(x, n)
  <2>1. \A x \in Buffers : /\ ringbuffer'[x].timestamp = ringbuffer[x].timestamp
                           /\ ringbuffer'[x].sensValue = ringbuffer[x].sensValue
    BY <1>2, <1>3
  <2> QED  BY <2>1, ChunkStays
<1>6. /\ OpenView(b) /\ OpenView(b)' /\ PendingView(b, c) /\ PendingView(b, c)'
  BY <1>1 DEF QueueView
<1>7. OpenChunk' = OpenChunk
  <2>1. ringbuffer'[b].writeIndex = ringbuffer[b].writeIndex
    BY <1>2, <1>3
  <2>2. PICK n \in Index : n = ringbuffer[b].writeIndex
    BY <1>0 DEF Handle, ringbuffer_handle
  <2>3. Size \in Nat /\ n \in Nat /\ Chunk(b, n)' = Chunk(b, n)
        /\ Chunk(b, Size)' = Chunk(b, Size)
    BY <1>a, <1>5
  <2>4. CASE isr = "release"
    BY <1>1, <1>6, <2>3, <2>4 DEF OpenView
  <2>5. CASE isr # "release"
    <3>1. OpenChunk = IF n = 0 THEN << >> ELSE Chunk(b, n)
      BY <1>6, <2>2, <2>5 DEF OpenView
    <3>2. OpenChunk' = IF n = 0 THEN << >> ELSE Chunk(b, n)'
      BY <1>1, <1>6, <2>1, <2>2, <2>5 DEF OpenView
    <3> QED  BY <2>3, <3>1, <3>2
  <2> QED  BY <2>4, <2>5
<1>8. /\ Chunk(b, Size)' = Chunk(b, Size) /\ Chunk(c, Size)' = Chunk(c, Size)
      /\ (TargetComplete <=> Full(b) /\ isr # "release")
      /\ (TargetComplete' <=> Full(b)' /\ isr # "release")
  BY <1>1, <1>a, <1>5 DEF TargetComplete, Full
<1>c. /\ Source = IF lastBufferRead = 1 THEN 2 ELSE 1
      /\ Source' = 2 <=> lastBufferRead = 1
      /\ pc # "send" /\ pc' # "send" /\ pc' # "gap" /\ ~Drained
  BY <1>0, <1>2 DEF Source, Other, Buffers, Drained
<1>d. ASSUME lastBufferRead = 1 PROVE HalfChunk(1)' = HalfChunk(1)
  <2>1. counter = Size + 4 + old.readIndex /\ old.readIndex \in Nat
    BY <1>a, <1>c, <1>d, <1>3, <1>4 DEF HalfOf
  <2>2. \A i \in 1 .. Size + 1 :
          LET k == HalfOf(1) + i IN k \in Cells /\ k # counter
    BY <1>a, <2>1 DEF HalfOf, Cells, ArrayLength
  <2> QED  BY <1>2, <2>2, SameHalf
<1>9. CASE Full(Source)'
  <2>1. (Full(b)' <=> Full(b)) /\ (Full(c)' <=> Full(c))
    BY <1>0, <1>2, <1>9 DEF Full
  <2>2. PendingChunks' = PendingChunks
    BY <1>6, <1>8, <2>1 DEF PendingView
  <2>3. ~Drained'
    BY <1>2, <1>9 DEF Drained
  <2>4. Datagram' = Datagram /\ Sending' = Sending
    BY <1>2, <1>c, <1>d, <2>3 DEF Datagram, Sending
  <2> QED  BY <1>7, <2>2, <2>4 DEF Queue!gathering, Queue!leaving
<1>10. CASE ~Full(Source)'
  <2>1. Drained' /\ Copied' = Size
    BY <1>a, <1>2, <1>3, <1>10 DEF Drained, Full
  <2>2. \A s \in Buffers : s = Source => HalfChunk(s)' = Chunk(s, Size)
    <3> SUFFICES ASSUME NEW s \in Buffers, s = Source PROVE HalfChunk(s)' = Chunk(s, Size)
      OBVIOUS
    <3> DEFINE h == HalfOf(s)
    <3>1. /\ h \in Nat /\ Base' = h
      BY <1>a, <1>b, <1>3, <1>4
    <3>2. /\ buffer_array'[h + 1] = htonl(ChunkTime(s))
          /\ \A i \in 0 .. Size - 1 : buffer_array'[h + 2 + i] = htonl(old.sensValue[i])
      BY <1>2, <1>3, <2>1, <3>1 DEF CopyShape, ChunkTime
    <3>3. HalfChunk(s)' = [i \in 1 .. Size + 1 |-> buffer_array'[h + i].net]
      BY DEF HalfChunk, HostWord, HalfOf
    <3> HIDE DEF h
    <3>4. buffer_array'[h + 1].net = ChunkTime(s)
      BY <3>2 DEF htonl
    <3>5. ASSUME NEW i \in 1 .. Size + 1, i # 1
          PROVE  buffer_array'[h + i].net = old.sensValue[i - 2]
      <4>1. i - 2 \in 0 .. Size - 1 /\ h + 2 + (i - 2) = h + i
        BY <1>a, <3>1, <3>5
      <4>2. buffer_array'[h + 2 + (i - 2)] = htonl(old.sensValue[i - 2])
        BY <3>2, <4>1
      <4> QED  BY <4>1, <4>2 DEF htonl
    <3> QED  BY <3>3, <3>4, <3>5 DEF Chunk
  <2>a. /\ Datagram' = Append(Datagram, Chunk(Source, Size)) /\ Len(Datagram) < 2
        /\ Sending = << >> /\ Sending' = << >>
    <3>1. Sending = << >> /\ Sending' = << >>
      BY <1>c DEF Sending
    <3>2. CASE lastBufferRead = 1
      <4>1. Datagram = <<HalfChunk(1)>>
        BY <1>2, <1>c, <3>2 DEF Datagram
      <4>2. Datagram' = <<HalfChunk(1)', HalfChunk(2)'>>
        BY <1>c, <2>1, <3>2 DEF Datagram, BothHalves
      <4>3. HalfChunk(1)' = HalfChunk(1) /\ HalfChunk(2)' = Chunk(Source, Size)
        BY <1>0, <1>c, <1>d, <2>2, <3>2
      <4> QED  BY <3>1, <4>1, <4>2, <4>3, ShortQueues
    <3>3. CASE lastBufferRead # 1
      <4>1. Datagram = << >>
        BY <1>2, <1>c, <3>3 DEF Datagram
      <4>2. Datagram' = <<HalfChunk(1)'>>
        BY <1>c, <2>1, <3>3 DEF Datagram
      <4>3. HalfChunk(1)' = Chunk(Source, Size)
        BY <1>0, <1>c, <2>2, <3>3
      <4> QED  BY <3>1, <4>1, <4>2, <4>3, ShortQueues
    <3> QED  BY <3>2, <3>3
  <2>3. isr = "release" => Source # b
    BY <1>0, <1>2 DEF IsrOwnership, Ownership, TaskInside
  <2>4. CASE Source = b
    <3>1. TargetComplete /\ ~TargetComplete' /\ (Full(c)' <=> Full(c))
      BY <1>0, <1>2, <1>8, <1>10, <2>3, <2>4 DEF Full
    <3>2. CASE Full(c)
      <4>1. PendingChunks = <<Chunk(b, Size), Chunk(c, Size)>>
        BY <1>6, <3>1, <3>2 DEF PendingView
      <4>2. PendingChunks' = <<Chunk(c, Size)>>
        BY <1>6, <1>8, <3>1, <3>2 DEF PendingView
      <4> QED  BY <1>7, <2>a, <2>4, <4>1, <4>2, ShortQueues DEF Queue!Pack, Queue!Next
    <3>3. CASE ~Full(c)
      <4>1. PendingChunks = <<Chunk(b, Size)>>
        BY <1>6, <3>1, <3>3 DEF PendingView
      <4>2. PendingChunks' = << >>
        BY <1>6, <3>1, <3>3 DEF PendingView
      <4> QED  BY <1>7, <2>a, <2>4, <4>1, <4>2, ShortQueues DEF Queue!Pack, Queue!Next
    <3> QED  BY <3>2, <3>3
  <2>5. CASE Source = c
    <3>1. ~TargetComplete /\ ~TargetComplete' /\ Full(c) /\ ~Full(c)'
      BY <1>0, <1>2, <1>8, <1>10, <2>5 DEF PacedInv, TaskBehind, Full
    <3>2. PendingChunks = <<Chunk(c, Size)>>
      BY <1>6, <3>1 DEF PendingView
    <3>3. PendingChunks' = << >>
      BY <1>6, <3>1 DEF PendingView
    <3> QED  BY <1>7, <2>a, <2>5, <3>2, <3>3, ShortQueues DEF Queue!Pack, Queue!Next
  <2> QED  BY <1>0, <2>4, <2>5
<1> QED  BY <1>9, <1>10

(* Nothing is under construction, nothing waits, nothing is packed.        *)
LEMMA PacedInitIsQueueInit == PacedInit => Queue!Init
<1> SUFFICES ASSUME PacedInit PROVE Queue!Init
  OBVIOUS
<1>0. /\ lastBufferWritten = 2 /\ lastBufferRead = 2 /\ pc = "take" /\ isr = "idle"
      /\ Target = 1 /\ MutexHolder = [b \in Buffers |-> FALSE]
      /\ ringbuffer = [b \in Buffers |-> init_buffer]
  BY DEF PacedInit, Init, WriterInit, SenderInit, Target, Other
<1>1. \A b \in Buffers : ~Filling(b) /\ ~Waiting(b)
  BY <1>0, InitBuffer DEF Filling, Waiting, Full
<1>2. OpenChunk = << >>
  BY <1>0, <1>1 DEF OpenChunk, Buffers
<1>3. PendingChunks = << >>
  BY <1>0, <1>1, ShortQueues DEF PendingChunks, Buffers
<1>4. Datagram = << >> /\ Sending = << >>
  BY <1>0 DEF Datagram, Sending, Drained
<1> QED  BY <1>2, <1>3, <1>4 DEF Queue!Init

(* Every chunk gets, dated and gap-free, into one datagram, in the order   *)
(* in which the chunks were measured, whatever the clock does; a datagram  *)
(* of two chunks is given to sendto once, unaltered, or dropped whole by   *)
(* the test before it; and sendto is given nothing else.                   *)
THEOREM ChunksInOrder == PacedSpec => ImplementsChunkQueue
<1> DEFINE View == \A b, c \in Buffers : QueueView(b, c)
<1>1. IInv => View
  BY QueueViewHolds
<1>2. ASSUME IInv, IInv', PacedInv, View, View', [PacedNext]_pacedVars
      PROVE  /\ [Queue!Next]_<<Queue!gathering, Queue!leaving>>
             /\ [Send => Queue!Transmit]_pacedVars
  <2>1. PICK b \in Buffers : b = Target
    BY <1>2, TargetAndSource DEF IInv
  <2>2. PICK c \in Buffers : c = lastBufferWritten
    BY <1>2 DEF IInv, TypeOK, WriterTypeOK
  <2>3. QueueView(b, c) /\ QueueView(b, c)' /\ QueueView(c, b)'
    BY <1>2
  <2>4. CASE PacedWrite
    <3>1. ~Send
      BY <2>4 DEF PacedWrite, Send, senderVars
    <3> QED  BY <1>2, <2>1, <2>2, <2>3, <2>4, <3>1, WriterGathers DEF PacedWrite
  <2>5. CASE PacedTake \/ PacedRest
    <3>1. SendStep /\ CopyShape'
      BY <1>2, <2>5 DEF PacedTake, PacedRest, SendStep, IInv
    <3>2. CASE ReadOne
      <4>1. ~Send
        BY <3>2 DEF ReadOne, Send
      <4> QED  BY <1>2, <2>1, <2>2, <2>3, <3>1, <3>2, <4>1, CopyPacks
    <3>3. CASE ~ReadOne
      BY <1>2, <2>1, <2>2, <2>3, <3>1, <3>3, TaskSends
    <3> QED  BY <3>2, <3>3
  <2>6. CASE UNCHANGED pacedVars
    <3>1. UNCHANGED <<ringbuffer, MutexHolder, lastBufferWritten, isr, pc, lastBufferRead,
                      buffer_array>>
      BY <2>6 DEF pacedVars, vars, writerVars, senderVars
    <3>2. /\ HalfChunk(1)' = HalfChunk(1) /\ HalfChunk(2)' = HalfChunk(2)
          /\ (Drained' <=> Drained) /\ Source' = Source
      BY <3>1, SameHalf DEF Drained, Full, Source
    <3>3. UNCHANGED Queue!gathering
      BY <3>1 DEF Queue!gathering, OpenChunk, PendingChunks, Filling, Waiting, Full, Target,
                  Chunk, ChunkTime
    <3>4. UNCHANGED Queue!leaving
      BY <3>1, <3>2 DEF Queue!leaving, Datagram, Sending, BothHalves
    <3> QED  BY <2>6, <3>3, <3>4
  <2> QED  BY <1>2, <2>4, <2>5, <2>6 DEF PacedNext
<1> HIDE DEF View
<1>3. IInv /\ IInv' /\ PacedInv /\ View /\ View' /\ [PacedNext]_pacedVars =>
        /\ [Queue!Next]_<<Queue!gathering, Queue!leaving>>
        /\ [Send => Queue!Transmit]_pacedVars
  BY <1>2
<1> QED  BY <1>1, <1>3, PacedInitIsQueueInit, PacedKeepsIInv, PacedInvariance, PTL
         DEF PacedSpec, ImplementsChunkQueue, Queue!Spec
=============================================================================
