-------------------------- MODULE SendTaskUdpProofs -------------------------
(***************************************************************************)
(* Proofs about the running measurement, for every buffer size of at least *)
(* two slots, every range of the samples and the clock, every sensor ID    *)
(* and every start time.  Modules SendTaskUdp and SendPause state what is   *)
(* proved.                                                                 *)
(***************************************************************************)
EXTENDS SendPause, WriteTaskProofs

-----------------------------------------------------------------------------
(* What the helpers return.                                                *)

(* Every difference of two times is a time again.                          *)
LEMMA TimediffType ==
  ASSUME NEW e \in Time, NEW s \in Time
  PROVE  get_timediff_us(e, s) \in Time
BY WordRangeAssumption, SMT DEF Time, get_timediff_us

(* Both sides always have a buffer to turn to.                             *)
LEMMA TargetAndSource ==
  ASSUME TypeOK
  PROVE  Target \in Buffers /\ Source \in Buffers
BY OtherBuffer DEF TypeOK, WriterTypeOK, Target, Source

-----------------------------------------------------------------------------
(* The initial states.                                                     *)

(* The array is untouched at the start.                                    *)
LEMMA NothingWritten == Init => \A half \in Halves : ~Written(half)
<1> SUFFICES ASSUME Init, NEW half \in Halves PROVE ~Written(half)
  OBVIOUS
<1>1. \A c \in half .. half + Size + 1 : c \in Cells
  BY SizeAssumption DEF Halves, Cells, ArrayLength
<1> QED  BY <1>1 DEF Written, Init, SenderInit

(* Nothing is held, stored or copied then.                                 *)
LEMMA InitEstablishesIInv == Init => IInv
<1> SUFFICES ASSUME Init PROVE IInv
  OBVIOUS
<1> USE DEF Init, WriterInit, SenderInit
<1>0. WriterInv
  BY WriterInitEstablishes
<1>1. TypeOK
  <2>1. WriterTypeOK
    BY <1>0 DEF WriterInv
  <2>2. 0 \in Time
    BY WordRangeAssumption DEF Time
  <2>3. lastBufferRead \in Buffers /\ counter \in 0 .. ArrayLength
    BY SizeAssumption DEF Buffers, ArrayLength
  <2>4. buffer_array \in [Cells -> {htonl(w) : w \in Word}]
    BY DEF Word
  <2> QED  BY <2>1, <2>2, <2>3, <2>4 DEF TypeOK
<1>2. \A b \in Buffers :
        /\ ringbuffer[b].writeIndex = 0
        /\ ringbuffer[b].readIndex = 0
        /\ ~is_full(ringbuffer[b])
        /\ mutex[b] = "free"
        /\ ~MutexHolder[b]
  BY InitBuffer
<1>3. Ownership
  BY <1>0, <1>2 DEF WriterInv, Ownership, TaskInside
<1>4. BufferShape
  BY <1>0, <1>2 DEF WriterInv, BufferShape, Shape
<1>5. CounterShape
  BY DEF CounterShape, Starts, Halves, Source, Other
<1>6. CopyShape
  BY DEF CopyShape
<1>7. HalvesShape
  BY NothingWritten DEF Init, HalvesShape, HalfWhole
<1> QED  BY <1>1, <1>3, <1>4, <1>5, <1>6, <1>7 DEF IInv

-----------------------------------------------------------------------------
(* A step of the callback.                                                 *)

(* The invariant of the measurement contains that of the callback.         *)
LEMMA IInvHasWriterInv == IInv => WriterInv
BY DEF IInv, TypeOK, Ownership, BufferShape, Shape, WriterInv

(* What the task has done so far stays valid while the callback runs.      *)
LEMMA WriterKeepsCopy ==
  ASSUME IInv, WriteStep, UNCHANGED senderVars
  PROVE  CounterShape' /\ CopyShape' /\ HalvesShape'
<1>0. TypeOK /\ Ownership /\ CounterShape /\ CopyShape /\ HalvesShape
  BY DEF IInv
<1>1. UNCHANGED <<pc, lastBufferRead, counter, buffer_array, Source>>
  BY DEF senderVars, Source
<1>2. CASE pc = "drain"
  <2>1. mutex[Source] # "isr" /\ Source \in Buffers
    BY <1>0, <1>2, TargetAndSource DEF Ownership, IsrOwnership, TaskInside
  <2>2. UNCHANGED ringbuffer[Source]
    BY <1>1, <2>1, IInvHasWriterInv, WriterLeavesOthers
  <2>3. UNCHANGED <<Copied, Base>>
    BY <1>1, <2>2 DEF Copied, Base
  <2>4. CounterShape'
    BY <1>0, <1>1, <1>2, <2>3 DEF CounterShape
  <2>5. CopyShape'
    BY <1>0, <1>1, <2>2, <2>3 DEF CopyShape
  <2>6. HalvesShape'
    BY <1>0, <1>1, <2>2, <2>3 DEF HalvesShape, HalfWhole, Written, HostWord
  <2> QED  BY <2>4, <2>5, <2>6
<1>3. CASE pc # "drain"
  <2>1. CounterShape'
    BY <1>0, <1>1, <1>3 DEF CounterShape
  <2>2. CopyShape'
    BY <1>1, <1>3 DEF CopyShape
  <2>3. HalvesShape'
    BY <1>0, <1>1, <1>3 DEF HalvesShape, HalfWhole, Written, HostWord
  <2> QED  BY <2>1, <2>2, <2>3
<1> QED  BY <1>2, <1>3

(* A step of the callback preserves the invariant.                         *)
LEMMA WriterPreservesIInv ==
  ASSUME IInv, WriteStep, UNCHANGED senderVars
  PROVE  IInv'
<1>1. WriterInv /\ WriterInv'
  BY IInvHasWriterInv, WriterKeepsWriterInv
<1>2. TypeOK'
  BY <1>1 DEF IInv, TypeOK, WriterInv, senderVars
<1>3. Ownership'
  BY <1>1, WriterLeavesMutexes
     DEF IInv, Ownership, IsrOwnership, WriterInv, TaskInside, Source, senderVars
<1>4. BufferShape'
  <2> SUFFICES ASSUME NEW b \in Buffers, ringbuffer'[b].readIndex # 0
               PROVE  pc' = "drain" /\ is_full(ringbuffer'[b])
    BY <1>1 DEF BufferShape, Shape, FillShape, WriterInv
  <2>1. mutex[b] = "task"
    BY <1>1, WriterLeavesMutexes DEF WriterInv, FillShape, IndexShape
  <2>2. ringbuffer'[b] = ringbuffer[b]
    BY <1>1, <2>1, WriterLeavesOthers
  <2> QED  BY <2>2 DEF IInv, BufferShape, Shape, FillShape, senderVars
<1> QED  BY <1>2, <1>3, <1>4, WriterKeepsCopy DEF IInv

-----------------------------------------------------------------------------
(* A step of the task.                                                     *)

(* Where the task stands in buffer_array while it is in a buffer.          *)
LEMMA CounterRange ==
  ASSUME IInv
  PROVE  /\ pc = "check" => counter \in {0, Size + 2}
         /\ pc = "drain" /\ is_full(ringbuffer[Source]) =>
              /\ ringbuffer[Source].readIndex \in Index
              /\ Base \in {0, Size + 2}
              /\ counter = Base + 2 + ringbuffer[Source].readIndex
         /\ pc = "drain" /\ ~is_full(ringbuffer[Source]) =>
              /\ Base \in {0, Size + 2}
              /\ counter = Base + 2 + Size
<1>0. /\ TypeOK /\ CounterShape /\ Source \in Buffers
      /\ ringbuffer[Source] \in Handle /\ counter \in Nat
      /\ \A b \in Buffers : Starts(b) \subseteq {0, Size + 2}
  BY TargetAndSource DEF IInv, TypeOK, WriterTypeOK, Handle, Starts, Halves
<1>1. ringbuffer[Source].readIndex \in Index
  BY <1>0 DEF Handle, ringbuffer_handle
<1> QED  BY <1>0, <1>1, SizeAssumption DEF CounterShape, Base, Copied, Index

(* What the task may rely on in the buffer it has.                         *)
LEMMA SourceShape ==
  ASSUME IInv, pc \in {"check", "drain"}
  PROVE  /\ Source \in Buffers /\ ringbuffer[Source] \in Handle
         /\ mutex[Source] = "task"
         /\ ringbuffer[Source].writeIndex = 0
         /\ pc = "check" => ringbuffer[Source].readIndex = 0
         /\ FullShape(Source)
<1>0. /\ TypeOK /\ Ownership /\ BufferShape /\ Source \in Buffers
  BY TargetAndSource DEF IInv
<1>1. mutex[Source] = "task"
  BY <1>0 DEF Ownership, IsrOwnership, TaskInside
<1>2. Shape(Source) /\ FullShape(Source) /\ IndexShape(Source)
  BY <1>0 DEF BufferShape, Shape, FillShape
<1> QED  BY <1>0, <1>1, <1>2 DEF TypeOK, WriterTypeOK, Handle, Shape, IndexShape

(* What the round of the loop does to the buffer: r + 1 values are copied  *)
(* then, and the flag falls with the last one.                             *)
LEMMA OneRead ==
  ASSUME IInv, ReadOne
  PROVE  LET old == ringbuffer[Source]
             new == ringbuffer'[Source]
         IN  /\ old \in Handle /\ new \in Handle
             /\ new = read_from_buffer(old)
             /\ new.writeIndex = 0
             /\ new.timestamp = old.timestamp
             /\ new.sensValue = old.sensValue
             /\ is_full(old) /\ FullShape(Source)
             /\ is_full(new) <=> old.readIndex # Size - 1
             /\ new.readIndex = IF is_full(new) THEN old.readIndex + 1 ELSE 0
             /\ Copied = old.readIndex
             /\ Copied' = Copied + 1
             /\ Base' = Base
             /\ Source' = Source
<1> DEFINE old == ringbuffer[Source]
           new == ringbuffer'[Source]
<1>0. /\ Source \in Buffers /\ old \in Handle /\ old.writeIndex = 0
      /\ FullShape(Source) /\ is_full(old)
      /\ ringbuffer \in [Buffers -> Handle]
  BY SourceShape DEF ReadOne, IInv, TypeOK, WriterTypeOK, Handle
<1>1. new = read_from_buffer(old) /\ Source' = Source
  BY <1>0 DEF ReadOne, Source
<1>2. /\ new \in Handle /\ new.timestamp = old.timestamp
      /\ new.writeIndex = 0 /\ new.sensValue = old.sensValue
      /\ old.readIndex \in Index
      /\ is_full(new) <=> old.readIndex # Size - 1
      /\ new.readIndex = IF is_full(new) THEN old.readIndex + 1 ELSE 0
  BY <1>0, <1>1, DrainOne
<1>3. Copied' = IF is_full(new) THEN new.readIndex ELSE Size
  BY <1>1 DEF Copied
<1>4. Copied' = old.readIndex + 1
  BY <1>2, <1>3, SizeAssumption DEF Index
<1>5. Copied = old.readIndex /\ Copied \in Nat
  BY <1>0, <1>2 DEF Copied, Index
<1>6. Base' = Base
  <2>1. counter' = counter + 1 /\ counter \in Nat /\ Copied' = Copied + 1
    BY <1>4, <1>5 DEF ReadOne, IInv, TypeOK
  <2> QED  BY <1>5, <2>1 DEF Base
<1> QED  BY <1>0, <1>1, <1>2, <1>4, <1>5, <1>6

LEMMA TaskKeepsType ==
  ASSUME IInv, SendStep
  PROVE  TypeOK'
<1>0. /\ TypeOK /\ WriterTypeOK /\ Source \in Buffers
      /\ mutex \in [Buffers -> {"free", "isr", "task"}]
      /\ ringbuffer \in [Buffers -> Handle]
      /\ counter \in Nat /\ counter \in 0 .. ArrayLength
      /\ now \in Time
      /\ buffer_array \in [Cells -> {htonl(w) : w \in Word}]
  BY TargetAndSource, SizeAssumption DEF IInv, TypeOK, WriterTypeOK, Handle, ArrayLength
<1>1. CASE TakeMutex
  <2>1. WriterTypeOK'
    BY <1>0, <1>1 DEF TakeMutex, Take, WriterTypeOK
  <2> QED  BY <1>0, <1>1, <2>1 DEF TakeMutex, TypeOK
<1>2. CASE Header
  <2>1. WriterTypeOK'
    BY <1>0, <1>2 DEF Header, WriterTypeOK, writerVars
  <2>2. counter \in {0, Size + 2}
    BY <1>2, CounterRange DEF Header
  <2>3. counter' \in 0 .. ArrayLength
    BY <1>2, <2>2, SizeAssumption DEF Header, ArrayLength
  <2>4. sensorID \in Word /\ get_timediff_us(ringbuffer[Source].timestamp, measuringStart) \in Word
    BY <1>2, SourceShape, TimediffType, MeasuringStartAssumption
       DEF Header, FullShape, Word
  <2>5. buffer_array' \in [Cells -> {htonl(w) : w \in Word}]
    BY <1>0, <1>2, <2>4 DEF Header
  <2> QED  BY <1>0, <1>2, <2>1, <2>3, <2>5 DEF Header, TypeOK
<1>3. CASE ReadOne
  <2>1. ringbuffer'[Source] \in Handle
    BY <1>3, OneRead
  <2>2. ringbuffer' \in [Buffers -> Handle]
    BY <1>0, <1>3, <2>1 DEF ReadOne
  <2>3. WriterTypeOK'
    BY <1>0, <1>3, <2>2 DEF ReadOne, WriterTypeOK, Handle
  <2>4. counter' \in 0 .. ArrayLength
    <3>1. /\ ringbuffer[Source].readIndex \in Index /\ Base \in {0, Size + 2}
          /\ counter = Base + 2 + ringbuffer[Source].readIndex /\ counter' = counter + 1
      BY <1>3, CounterRange DEF ReadOne
    <3> HIDE DEF Base
    <3> QED  BY <3>1, SizeAssumption DEF Index, ArrayLength
  <2>5. ReadValue(ringbuffer[Source]) \in Word
    <3>1. ringbuffer[Source].readIndex \in Index /\ ringbuffer[Source].sensValue \in [Index -> Sample]
      BY <1>3, CounterRange, OneRead DEF ReadOne, FullShape
    <3> QED  BY <3>1 DEF ReadValue, Word
  <2>6. buffer_array' \in [Cells -> {htonl(w) : w \in Word}]
    BY <1>0, <1>3, <2>5 DEF ReadOne
  <2> QED  BY <1>0, <1>3, <2>3, <2>4, <2>6 DEF ReadOne, TypeOK
<1>4. CASE Leave
  <2>1. WriterTypeOK'
    BY <1>0, <1>4 DEF Leave, Give, WriterTypeOK
  <2>2. counter' \in 0 .. ArrayLength
    BY <1>0, <1>4, SizeAssumption DEF Leave, ArrayLength
  <2> QED  BY <1>0, <1>4, <2>1, <2>2 DEF Leave, TypeOK
<1>5. CASE SendDue
  BY <1>0, <1>5 DEF SendDue, TypeOK, WriterTypeOK, writerVars
<1>6. CASE SendSkipped
  BY <1>0, <1>6 DEF SendSkipped, TypeOK, WriterTypeOK, writerVars
<1>7. CASE Send
  BY <1>0, <1>7 DEF Send, TypeOK, WriterTypeOK, writerVars
<1> QED  BY <1>1, <1>2, <1>3, <1>4, <1>5, <1>6, <1>7 DEF SendStep

LEMMA TaskKeepsOwnership ==
  ASSUME IInv, SendStep
  PROVE  Ownership'
<1>0. /\ Ownership /\ Source \in Buffers /\ Target \in Buffers
      /\ mutex \in [Buffers -> {"free", "isr", "task"}]
      /\ lastBufferRead \in Buffers
  BY TargetAndSource DEF IInv, TypeOK, WriterTypeOK
<1>1. UNCHANGED <<MutexHolder, isr, Target>>
  BY DEF SendStep, TakeMutex, Header, ReadOne, Leave, SendDue, SendSkipped, Send,
         writerVars, Target
<1> USE <1>0, <1>1 DEF Ownership, IsrOwnership, TaskInside
<1>2. CASE TakeMutex
  BY <1>2 DEF TakeMutex, Take, Source
<1>3. CASE Header
  BY <1>3 DEF Header, writerVars, Source
<1>4. CASE ReadOne
  BY <1>4 DEF ReadOne, Source
<1>5. CASE Leave
  BY <1>5 DEF Leave, Give
<1>6. CASE SendDue \/ SendSkipped \/ Send
  BY <1>6 DEF SendDue, SendSkipped, Send, writerVars, Source
<1> QED  BY <1>2, <1>3, <1>4, <1>5, <1>6 DEF SendStep

LEMMA TaskKeepsShape ==
  ASSUME IInv, SendStep
  PROVE  BufferShape'
<1>0. /\ TypeOK /\ Ownership /\ Source \in Buffers
      /\ \A b \in Buffers : Shape(b)
      /\ mutex \in [Buffers -> {"free", "isr", "task"}]
      /\ ringbuffer \in [Buffers -> Handle]
  BY TargetAndSource DEF IInv, TypeOK, WriterTypeOK, Handle, BufferShape, Shape, FillShape
<1>1. UNCHANGED <<isr, testVar>>
  BY DEF SendStep, TakeMutex, Header, ReadOne, Leave, SendDue, SendSkipped, Send,
         writerVars
<1> USE <1>0, <1>1
<1> SUFFICES ASSUME NEW b \in Buffers PROVE Shape(b)'
  BY DEF BufferShape, Shape, FillShape
<1>2. CASE b = Source /\ SendStep
  <2>1. CASE TakeMutex
    BY <1>2, <2>1 DEF TakeMutex, Take, Shape, FillShape, FullShape, IndexShape
  <2>2. CASE Header
    BY <1>2, <2>2, SourceShape DEF Header, writerVars, Shape, FillShape, FullShape, IndexShape
  <2>3. CASE ReadOne
    <3>1. FullShape(b)'
      BY <1>2, <2>3, OneRead DEF FullShape
    <3>2. mutex'[b] = "task" /\ pc' = "drain"
      BY <1>2, <2>3, SourceShape DEF ReadOne
    <3>3. IndexShape(b)'
      BY <1>2, <2>3, <3>2, OneRead DEF IndexShape
    <3>4. ringbuffer'[b].readIndex # 0 => is_full(ringbuffer'[b])
      BY <1>2, <2>3, OneRead
    <3> QED  BY <3>1, <3>2, <3>3, <3>4 DEF Shape, FillShape
  <2>4. CASE Leave
    <3>1. mutex'[b] = "free" /\ UNCHANGED ringbuffer /\ ~is_full(ringbuffer[b])
      BY <1>2, <2>4 DEF Leave, Give
    <3>2. ringbuffer[b].writeIndex = 0 /\ ringbuffer[b].readIndex = 0
      BY <1>2, <2>4, <3>1, SourceShape DEF Leave, Shape, FillShape, IndexShape
    <3> QED  BY <3>1, <3>2 DEF Shape, FillShape, FullShape, IndexShape
  <2>5. CASE SendDue \/ SendSkipped \/ Send
    BY <2>5 DEF SendDue, SendSkipped, Send, writerVars, Shape, FillShape, FullShape,
                IndexShape,
                PartShape
  <2> QED  BY <1>2, <2>1, <2>2, <2>3, <2>4, <2>5 DEF SendStep
<1>3. CASE b # Source
  <2>1. mutex'[b] = mutex[b] /\ ringbuffer'[b] = ringbuffer[b]
    BY <1>3 DEF SendStep, TakeMutex, Header, ReadOne, Leave, SendDue, SendSkipped, Send,
                writerVars, Take, Give
  <2>2. mutex[b] # "task"
    BY <1>3 DEF Ownership, IsrOwnership, TaskInside
  <2> QED  BY <2>1, <2>2 DEF Shape, FillShape, FullShape, IndexShape, PartShape
<1> QED  BY <1>2, <1>3

(* counter points behind what was copied, and back to the start of a half  *)
(* between two buffers.                                                    *)
LEMMA TaskKeepsCounter ==
  ASSUME IInv, SendStep
  PROVE  CounterShape'
<1>0. /\ CounterShape /\ TypeOK /\ lastBufferRead \in {1, 2} /\ counter \in Nat
      /\ Source = IF lastBufferRead = 1 THEN 2 ELSE 1
  BY DEF IInv, TypeOK, Buffers, Source, Other
<1> USE <1>0
<1>1. CASE TakeMutex
  BY <1>1 DEF TakeMutex, CounterShape, Source
<1>2. CASE Header
  <2>1. /\ Source' = Source /\ pc = "check" /\ pc' = "drain" /\ counter' = counter + 2
        /\ counter \in Starts(Source) /\ UNCHANGED ringbuffer
    BY <1>2 DEF Header, CounterShape, Source, writerVars
  <2>2. Copied' = 0
    BY <1>2, <2>1, SourceShape DEF Copied, Header
  <2>3. Base' = counter
    BY <2>1, <2>2 DEF Base
  <2> QED  BY <2>1, <2>3 DEF CounterShape
<1>3. CASE ReadOne
  <2>1. /\ Source' = Source /\ pc = "drain" /\ pc' = "drain" /\ counter' = counter + 1
        /\ Base \in Starts(Source)
    BY <1>3 DEF ReadOne, CounterShape, Source
  <2>2. Base' = Base
    BY <1>3, OneRead
  <2> QED  BY <2>1, <2>2 DEF CounterShape
<1>4. CASE Leave
  <2>1. CASE Source = 2
    BY <1>4, <2>1 DEF Leave, CounterShape
  <2>2. CASE Source = 1
    <3>1. pc' = "take" /\ counter' = counter /\ Source' = 2
      BY <1>4, <2>2 DEF Leave, Source, Other
    <3>2. counter \in Halves
      <4>1. CASE pc = "check"
        BY <2>2, <4>1 DEF CounterShape, Starts, Halves
      <4>2. CASE pc = "drain"
        BY <1>4, <2>2, <4>2, CounterRange, SizeAssumption
           DEF Leave, CounterShape, Starts, Halves
      <4> QED  BY <1>4, <4>1, <4>2 DEF Leave
    <3> QED  BY <3>1, <3>2 DEF CounterShape, Starts
  <2> QED  BY <2>1, <2>2
<1>5. CASE SendDue \/ SendSkipped \/ Send
  <2>1. lastBufferRead = 2 /\ counter = 0
    BY <1>5 DEF SendDue, SendSkipped, Send, CounterShape
  <2>2. /\ UNCHANGED <<lastBufferRead, counter>> /\ pc' \in {"send", "take"}
        /\ Source' = 1
    BY <1>5, <2>1 DEF SendDue, SendSkipped, Send, Source, Other
  <2> QED  BY <2>1, <2>2 DEF CounterShape, Starts
<1> QED  BY <1>1, <1>2, <1>3, <1>4, <1>5 DEF SendStep

(* The cells behind Base are the header and the values read so far.        *)
LEMMA TaskKeepsCopy ==
  ASSUME IInv, SendStep
  PROVE  CopyShape'
<1>0. /\ CopyShape /\ TypeOK /\ counter \in Nat
      /\ buffer_array \in [Cells -> {htonl(w) : w \in Word}]
  BY DEF IInv, TypeOK
<1>1. CASE Header
  <2>1. /\ counter \in {0, Size + 2} /\ counter' = counter + 2
        /\ Source' = Source /\ UNCHANGED ringbuffer
    BY <1>1, CounterRange DEF Header, Source, writerVars
  <2>2. Copied' = 0 /\ Base' = counter
    <3>1. Copied' = 0
      BY <1>1, <2>1, SourceShape DEF Copied, Header
    <3> QED  BY <2>1, <3>1 DEF Base
  <2>3. counter \in Cells /\ counter + 1 \in Cells /\ counter # counter + 1
    BY <2>1, SizeAssumption DEF Cells, ArrayLength
  <2>4. /\ buffer_array'[counter] = htonl(sensorID)
        /\ buffer_array'[counter + 1] =
             htonl(get_timediff_us(ringbuffer[Source].timestamp, measuringStart))
    BY <1>0, <1>1, <2>3 DEF Header
  <2> QED  BY <2>1, <2>2, <2>4 DEF CopyShape
<1>2. CASE ReadOne
  <2> DEFINE r == ringbuffer[Source].readIndex
             v == ringbuffer[Source].sensValue
  <2>1. /\ r \in Index /\ Base \in {0, Size + 2} /\ counter = Base + 2 + r
        /\ counter' = counter + 1 /\ Copied = r /\ Copied' = r + 1
        /\ Source' = Source /\ pc = "drain"
        /\ ringbuffer'[Source].sensValue = v
        /\ ringbuffer'[Source].timestamp = ringbuffer[Source].timestamp
    BY <1>2, CounterRange, OneRead DEF ReadOne
  <2>2. Base' = Base
    BY <1>2, OneRead
  <2> HIDE DEF Base, r, v
  <2>3. counter \in Cells /\ Base \in Cells /\ Base + 1 \in Cells
        /\ \A i \in 0 .. r : Base + 2 + i \in Cells
    BY <2>1, SizeAssumption DEF Cells, ArrayLength, Index
  <2>4. \A c \in Cells : buffer_array'[c] = IF c = counter THEN htonl(v[r]) ELSE buffer_array[c]
    BY <1>0, <1>2 DEF ReadOne, ReadValue, r, v
  <2>5. Base # counter /\ Base + 1 # counter
    BY <2>1 DEF Index
  <2>6. /\ buffer_array'[Base] = htonl(sensorID)
        /\ buffer_array'[Base + 1] =
             htonl(get_timediff_us(ringbuffer[Source].timestamp, measuringStart))
    BY <1>0, <2>1, <2>3, <2>4, <2>5 DEF CopyShape
  <2>7. \A i \in 0 .. r : buffer_array'[Base + 2 + i] = htonl(v[i])
    <3> TAKE i \in 0 .. r
    <3>1. CASE i = r
      BY <2>1, <2>3, <2>4, <3>1
    <3>2. CASE i # r
      <4>1. i \in 0 .. Copied - 1 /\ Base + 2 + i # counter /\ Base + 2 + i \in Cells
        BY <2>1, <2>3, <3>2 DEF Index
      <4> QED  BY <1>0, <2>1, <2>4, <4>1 DEF CopyShape, v
    <3> QED  BY <3>1, <3>2
  <2> QED  BY <2>1, <2>2, <2>6, <2>7 DEF CopyShape, Index, r, v
<1>3. CASE ~(Header \/ ReadOne)
  <2>1. pc' # "drain"
    BY <1>3 DEF SendStep, TakeMutex, Leave, SendDue, SendSkipped, Send
  <2> QED  BY <2>1 DEF CopyShape
<1> QED  BY <1>1, <1>2, <1>3

(* A half stays whole, or untouched, while none of its cells is written.   *)
LEMMA HalfStays ==
  ASSUME NEW half \in Halves, HalfWhole(half),
         \A c \in half .. half + Size + 1 : buffer_array'[c] = buffer_array[c]
  PROVE  HalfWhole(half)'
<1>1. half \in Nat
  BY SizeAssumption DEF Halves
<1>2. \A c \in half .. half + Size + 1 : HostWord(c)' = HostWord(c)
  BY DEF HostWord
<1>3. Written(half)' => Written(half)
  BY DEF Written
<1>4. half \in half .. half + Size + 1
      /\ \A c \in half + 2 .. half + Size :
           c \in half .. half + Size + 1 /\ c + 1 \in half .. half + Size + 1
  BY <1>1, SizeAssumption
<1> QED  BY <1>2, <1>3, <1>4 DEF HalfWhole

(* When a drain ends, its half is whole.                                   *)
LEMMA DrainedHalf ==
  ASSUME IInv, pc = "drain", ~is_full(ringbuffer[Source])
  PROVE  Base \in Halves /\ HalfWhole(Base)
<1> DEFINE v == ringbuffer[Source].sensValue
<1>0. /\ CopyShape /\ HalvesShape /\ Base \in {0, Size + 2} /\ Copied = Size
  BY CounterRange DEF IInv, Copied
<1>1. /\ buffer_array[Base] = htonl(sensorID)
      /\ \A i \in 0 .. Size - 1 : buffer_array[Base + 2 + i] = htonl(v[i])
  BY <1>0 DEF CopyShape
<1>2. GapFree(v, 0, Size)
  BY <1>0 DEF HalvesShape
<1>3. HostWord(Base) = sensorID
  BY <1>1 DEF HostWord, htonl
<1> HIDE DEF v
<1>4. \A i \in 0 .. Size - 1 : HostWord(Base + 2 + i) = v[i]
  <2> TAKE i \in 0 .. Size - 1
  <2>1. buffer_array[Base + 2 + i] = [net |-> v[i]]
    BY <1>1 DEF htonl
  <2>2. [net |-> v[i]].net = v[i]
    OBVIOUS
  <2> QED  BY <2>1, <2>2 DEF HostWord
<1>5. ASSUME NEW c \in Base + 2 .. Base + Size
      PROVE  HostWord(c + 1) = NextSample(HostWord(c))
  <2> DEFINE i == c - Base - 2
  <2>1. /\ i \in 0 .. 0 + Size - 2 /\ i \in 0 .. Size - 1 /\ i + 1 \in 0 .. Size - 1
        /\ Base + 2 + i = c /\ Base + 2 + (i + 1) = c + 1
    BY <1>0, SizeAssumption
  <2>2. HostWord(c) = v[i] /\ HostWord(c + 1) = v[i + 1]
    <3>1. HostWord(Base + 2 + i) = v[i] /\ HostWord(Base + 2 + (i + 1)) = v[i + 1]
      BY <1>4, <2>1
    <3> QED  BY <2>1, <3>1
  <2>3. v[i + 1] = NextSample(v[i])
    BY <1>2, <2>1 DEF GapFree
  <2> QED  BY <2>2, <2>3
<1> QED  BY <1>0, <1>3, <1>5 DEF HalfWhole, Halves

(* The task writes in the half it is filling only.                         *)
LEMMA OnlyBaseWritten ==
  ASSUME IInv, SendStep, NEW half \in Halves, ~(pc' = "drain" /\ half = Base')
  PROVE  /\ \A c \in half .. half + Size + 1 : buffer_array'[c] = buffer_array[c]
         /\ pc = "drain" /\ half = Base => Leave
<1>0. buffer_array \in [Cells -> {htonl(w) : w \in Word}]
  BY DEF IInv, TypeOK
<1>1. CASE Header
  <2>1. /\ counter \in {0, Size + 2} /\ counter' = counter + 2
        /\ pc = "check" /\ pc' = "drain" /\ Source' = Source /\ UNCHANGED ringbuffer
    BY <1>1, CounterRange DEF Header, Source, writerVars
  <2>2. Copied' = 0
    BY <1>1, <2>1, SourceShape DEF Copied, Header
  <2>3. half # counter
    BY <2>1, <2>2 DEF Base
  <2>4. \A c \in half .. half + Size + 1 : c \in Cells /\ c # counter /\ c # counter + 1
    BY <2>1, <2>3, SizeAssumption DEF Halves, Cells, ArrayLength
  <2> QED  BY <1>0, <1>1, <2>1, <2>4 DEF Header
<1>2. CASE ReadOne
  <2>1. /\ ringbuffer[Source].readIndex \in Index /\ Base \in {0, Size + 2}
        /\ counter = Base + 2 + ringbuffer[Source].readIndex
        /\ pc' = "drain" /\ Base' = Base
    BY <1>2, CounterRange, OneRead DEF ReadOne
  <2> HIDE DEF Base
  <2>2. \A c \in half .. half + Size + 1 : c \in Cells /\ c # counter
    BY <2>1, SizeAssumption DEF Halves, Cells, ArrayLength, Index
  <2> QED  BY <1>0, <1>2, <2>1, <2>2 DEF ReadOne
<1>3. CASE TakeMutex \/ Leave \/ SendDue \/ SendSkipped \/ Send
  BY <1>3 DEF TakeMutex, Leave, SendDue, SendSkipped, Send
<1> QED  BY <1>1, <1>2, <1>3 DEF SendStep

LEMMA TaskKeepsHalves ==
  ASSUME IInv, SendStep
  PROVE  HalvesShape'
<1>0. HalvesShape
  BY DEF IInv
<1>1. ASSUME NEW half \in Halves, ~(pc' = "drain" /\ half = Base')
      PROVE  HalfWhole(half)'
  <2>1. HalfWhole(half)
    <3>1. CASE pc = "drain" /\ half = Base
      BY <1>1, <3>1, OnlyBaseWritten, DrainedHalf DEF Leave
    <3>2. CASE ~(pc = "drain" /\ half = Base)
      BY <1>0, <3>2 DEF HalvesShape
    <3> QED  BY <3>1, <3>2
  <2> QED  BY <1>1, <2>1, OnlyBaseWritten, HalfStays
<1>2. ASSUME pc' = "drain", ~is_full(ringbuffer'[Source'])
      PROVE  /\ ringbuffer'[Source'].sensValue \in [Index -> Sample]
             /\ GapFree(ringbuffer'[Source'].sensValue, 0, Size)
  <2>1. ReadOne
    BY <1>2 DEF SendStep, TakeMutex, Header, Leave, SendDue, SendSkipped, Send,
                Source, writerVars
  <2> QED  BY <2>1, OneRead DEF FullShape
<1> QED  BY <1>1, <1>2 DEF HalvesShape

(* A step of the task preserves the invariant.                             *)
LEMMA TaskPreservesIInv ==
  ASSUME IInv, SendStep
  PROVE  IInv'
BY TaskKeepsType, TaskKeepsOwnership, TaskKeepsShape, TaskKeepsCounter,
   TaskKeepsCopy, TaskKeepsHalves DEF IInv

-----------------------------------------------------------------------------
(* The theorems.                                                           *)

(* IInv holds in every state of the running measurement.                   *)
THEOREM Invariance == Spec => []IInv
<1>1. IInv /\ [Next]_vars => IInv'
  <2> SUFFICES ASSUME IInv, [Next]_vars PROVE IInv'
    OBVIOUS
  <2>1. CASE WriteStep /\ UNCHANGED senderVars
    BY <2>1, WriterPreservesIInv
  <2>2. CASE SendStep
    BY <2>2, TaskPreservesIInv
  <2>3. CASE UNCHANGED vars
    BY <2>3 DEF IInv, TypeOK, WriterTypeOK, Ownership, IsrOwnership, BufferShape, Shape,
                FillShape, FullShape,
                IndexShape, PartShape, CounterShape, CopyShape, HalvesShape, HalfWhole,
                Written, HostWord, Copied, Base, Source, Target, TaskInside,
                vars, writerVars, senderVars
  <2> QED  BY <2>1, <2>2, <2>3 DEF Next
<1> QED  BY <1>1, InitEstablishesIInv, PTL DEF Spec

(* Every variable keeps its type: the wrap of testVar, of the indices and  *)
(* of the clock, and the cells of the datagram, included.                  *)
THEOREM TypeCorrectness == Spec => []TypeOK
BY Invariance, PTL DEF IInv

(* The callback and the task are never in the same buffer.                 *)
THEOREM Exclusion == Spec => []MutualExclusion
<1>1. IInv => MutualExclusion
  <2> SUFFICES ASSUME IInv, NEW b \in Buffers
               PROVE  /\ ~(IsrInside(b) /\ TaskInside(b))
                      /\ MutexHolder[b] => mutex[b] = "isr"
                      /\ TaskInside(b) => mutex[b] = "task"
    BY DEF MutualExclusion
  <2> QED  BY DEF IInv, Ownership, IsrOwnership, IsrInside
<1> QED  BY <1>1, Invariance, PTL

(* A buffer between two users is empty or holds one gap-free chunk.        *)
THEOREM WholeChunks == Spec => []WholeChunk
<1>1. IInv => WholeChunk
  BY DEF IInv, BufferShape, Shape, FillShape, IndexShape, FullShape, WholeChunk
<1> QED  BY <1>1, Invariance, PTL

(* buffer_array is never written outside its bounds.                       *)
THEOREM InBounds == Spec => []ArrayInBounds
<1>1. ASSUME IInv PROVE ArrayInBounds
  <2>1. CASE pc = "check"
    BY <1>1, <2>1, CounterRange, SizeAssumption DEF ArrayInBounds, ArrayLength
  <2>2. CASE pc = "drain" /\ is_full(ringbuffer[Source])
    <3>1. counter < ArrayLength
      BY <1>1, <2>2, CounterRange, SizeAssumption DEF ArrayLength, Index
    <3> QED  BY <2>2, <3>1 DEF ArrayInBounds
  <2> QED  BY <2>1, <2>2 DEF ArrayInBounds
<1> QED  BY <1>1, Invariance, PTL

(* A finished drain has copied its buffer exactly, behind the header.      *)
THEOREM ExactCopies == Spec => []CopyExact
<1>1. ASSUME IInv, pc = "drain", ~is_full(ringbuffer[Source]) PROVE CopyExact
  <2>1. /\ CopyShape /\ Copied = Size
        /\ Base \in {0, Size + 2} /\ counter = Base + 2 + Size
    BY <1>1, CounterRange DEF IInv, Copied
  <2>2. counter - Size - 2 = Base /\ counter - Size - 1 = Base + 1
        /\ counter - Size = Base + 2
    BY <2>1, SizeAssumption
  <2> HIDE DEF Base
  <2> QED  BY <1>1, <2>1, <2>2 DEF CopyShape, CopyExact, Index
<1>2. ASSUME ~(pc = "drain" /\ ~is_full(ringbuffer[Source])) PROVE CopyExact
  BY <1>2 DEF CopyExact
<1>3. IInv => CopyExact
  BY <1>1, <1>2
<1> QED  BY <1>3, Invariance, PTL

(* Each half of a datagram handed to sendto is untouched or one whole      *)
(* gap-free chunk of this sensor.                                          *)
THEOREM WholeDatagrams == Spec => []DatagramWhole
<1>1. ASSUME IInv, pc = "send", NEW half \in Halves, Written(half)
      PROVE  /\ HostWord(half) = sensorID
             /\ GapFree([c \in Cells |-> HostWord(c)], half + 2, Size)
  <2> DEFINE words == [c \in Cells |-> HostWord(c)]
  <2>1. /\ HostWord(half) = sensorID
        /\ \A c \in half + 2 .. half + Size : HostWord(c + 1) = NextSample(HostWord(c))
    BY <1>1 DEF IInv, HalvesShape, HalfWhole
  <2>2. ASSUME NEW c \in half + 2 .. half + 2 + Size - 2
        PROVE  words[c + 1] = NextSample(words[c])
    <3>1. c \in half + 2 .. half + Size /\ c \in Cells /\ c + 1 \in Cells
      BY SizeAssumption DEF Halves, Cells, ArrayLength
    <3> QED  BY <2>1, <3>1
  <2> QED  BY <2>1, <2>2 DEF GapFree
<1>2. IInv => DatagramWhole
  BY <1>1 DEF DatagramWhole
<1> QED  BY <1>2, Invariance, PTL

(* A chunk is neither overwritten nor re-dated until it has been read.     *)
THEOREM UnreadSamplesKept == Spec => UnreadKept
<1>1. ASSUME IInv, Next, NEW b \in Buffers, is_full(ringbuffer[b])
      PROVE  /\ ringbuffer'[b].sensValue = ringbuffer[b].sensValue
             /\ ringbuffer'[b].timestamp = ringbuffer[b].timestamp
  <2>0. /\ Target \in Buffers /\ Source \in Buffers
        /\ ringbuffer \in [Buffers -> Handle] /\ Ownership /\ BufferShape
    BY <1>1, TargetAndSource DEF IInv, TypeOK, WriterTypeOK, Handle
  <2>1. CASE WriteStep
    <3>1. CASE mutex[b] # "isr"
      BY <1>1, <2>1, <3>1, IInvHasWriterInv, WriterLeavesOthers
    <3>2. CASE mutex[b] = "isr"
      <4>1. b = Target /\ (isr \in {"idle", "append"} => ~is_full(ringbuffer[b]))
        BY <2>0, <3>2 DEF Ownership, IsrOwnership, BufferShape, Shape, FillShape, PartShape
      <4>2. ~WriteFirst /\ ~AppendSample
        BY <1>1, <4>1 DEF WriteFirst, AppendSample
      <4> QED  BY <2>1, <4>2 DEF WriteStep, Alarm, TakeFromISR, TakeFails, BackOff, Release
    <3> QED  BY <3>1, <3>2
  <2>2. CASE ReadOne
    <3>1. CASE b = Source
      BY <1>1, <2>2, <3>1, OneRead
    <3>2. CASE b # Source
      BY <2>0, <2>2, <3>2 DEF ReadOne
    <3> QED  BY <3>1, <3>2
  <2>3. CASE SendStep /\ ~ReadOne
    BY <2>3 DEF SendStep, TakeMutex, Header, Leave, SendDue, SendSkipped, Send, writerVars
  <2> QED  BY <1>1, <2>1, <2>2, <2>3 DEF Next
<1>2. IInv /\ [Next]_vars => [\A b \in Buffers : is_full(ringbuffer[b]) =>
         /\ ringbuffer'[b].sensValue = ringbuffer[b].sensValue
         /\ ringbuffer'[b].timestamp = ringbuffer[b].timestamp]_vars
  BY <1>1
<1> QED  BY <1>2, Invariance, PTL DEF Spec, UnreadKept

-----------------------------------------------------------------------------
(* The stamp of a chunk and its first sample, on a clock that runs evenly. *)

(* Quotient and remainder.                                                 *)
LEMMA DivMod ==
  ASSUME NEW a \in Int, NEW n \in Nat \ {0}
  PROVE  a % n \in 0 .. n - 1 /\ a \div n \in Int /\ a = n * (a \div n) + (a % n)
OBVIOUS

(* Multiples of n are at least n apart.                                    *)
LEMMA MultiplesApart ==
  ASSUME NEW n \in Nat \ {0}, NEW p \in Int, NEW q \in Int, p > q
  PROVE  n * p >= n * q + n
OBVIOUS

(* There is one remainder only.                                            *)
LEMMA OneRemainder ==
  ASSUME NEW n \in Nat \ {0}, NEW q \in Int, NEW r \in 0 .. n - 1,
         NEW a \in Int, a = n * q + r
  PROVE  a % n = r
<1> DEFINE d == a \div n
           m == a % n
<1>1. m \in 0 .. n - 1 /\ d \in Int /\ a = n * d + m
  BY DivMod
<1> HIDE DEF d, m
<1>2. n * d \in Int /\ n * q \in Int
  BY <1>1
<1>3. ASSUME d > q PROVE m = r
  <2>1. n * d >= n * q + n
    BY <1>1, <1>3, MultiplesApart
  <2> QED  BY <1>1, <1>2, <2>1
<1>4. ASSUME q > d PROVE m = r
  <2>1. n * q >= n * d + n
    BY <1>1, <1>4, MultiplesApart
  <2> QED  BY <1>1, <1>2, <2>1
<1>5. ASSUME q = d PROVE m = r
  BY <1>1, <1>2, <1>5
<1>6. m = r
  BY <1>1, <1>3, <1>4, <1>5
<1> QED  BY <1>6 DEF m

(* A counter that wraps at n does not see a multiple of n ...              *)
LEMMA WrapsAway ==
  ASSUME NEW n \in Nat \ {0}, NEW a \in Int, NEW q \in Int
  PROVE  (a + n * q) % n = a % n
<1> DEFINE d == a \div n
           m == a % n
<1>1. m \in 0 .. n - 1 /\ d \in Int /\ a = n * d + m
  BY DivMod
<1> HIDE DEF d, m
<1>2. n * (d + q) = n * d + n * q /\ n * d \in Int /\ n * q \in Int
  BY <1>1
<1>3. a + n * q = n * (d + q) + m /\ a + n * q \in Int /\ d + q \in Int
  BY <1>1, <1>2
<1>4. (a + n * q) % n = m
  BY <1>1, <1>3, OneRemainder
<1> QED  BY <1>4 DEF m

(* ... nor whether it was wrapped before the next addition.                *)
LEMMA WrapsOnce ==
  ASSUME NEW n \in Nat \ {0}, NEW a \in Int, NEW b \in Int
  PROVE  ((a % n) + b) % n = (a + b) % n
<1> DEFINE d == a \div n
           m == a % n
<1>1. m \in 0 .. n - 1 /\ d \in Int /\ a = n * d + m
  BY DivMod
<1> HIDE DEF d, m
<1>2. n * d \in Int /\ m + b \in Int
  BY <1>1
<1>3. (m + b + n * d) % n = (m + b) % n
  BY <1>1, <1>2, WrapsAway
<1>4. m + b + n * d = a + b
  BY <1>1, <1>2
<1> QED  BY <1>3, <1>4 DEF m

(* The bound of TakenAt costs nothing: both counters are where they were   *)
(* after WordRange * SampleRange periods.                                  *)
LEMMA AnyAge ==
  ASSUME NEW n \in Nat \ {0}, NEW p \in Nat \ {0}, NEW a \in Int, NEW k \in Int
  PROVE  (a + (k % (n * p))) % n = (a + k) % n
<1> DEFINE m == k % (n * p)
           d == k \div (n * p)
<1>1. n * p \in Nat \ {0}
  OBVIOUS
<1>2. m \in 0 .. n * p - 1 /\ d \in Int /\ k = (n * p) * d + m
  <2> HIDE DEF m, d
  <2> DEFINE l == n * p
  <2>1. l \in Nat \ {0}
    BY <1>1
  <2> HIDE DEF l
  <2>2. k % l \in 0 .. l - 1 /\ k \div l \in Int /\ k = l * (k \div l) + (k % l)
    BY <2>1, DivMod
  <2> QED  BY <2>2 DEF l, m, d
<1> HIDE DEF m, d
<1>3. (n * p) * d = n * (p * d) /\ p * d \in Int /\ m \in Int /\ a + m \in Int
  BY <1>1, <1>2
<1>4. ((a + m) + n * (p * d)) % n = (a + m) % n
  BY <1>3, WrapsAway
<1>5. (a + m) + n * (p * d) = a + k
  <2> DEFINE x == n * (p * d)
  <2>1. x \in Int
    BY <1>3
  <2>2. k = x + m
    BY <1>2, <1>3
  <2> HIDE DEF x
  <2>3. (a + m) + x = a + k
    BY <1>3, <2>1, <2>2
  <2> QED  BY <2>3 DEF x
<1> QED  BY <1>4, <1>5 DEF m

(* testVar counts as the clock does, modulo its own range.                 *)
LEMMA NextSampleWraps ==
  ASSUME NEW v \in Sample
  PROVE  NextSample(v) = (v + 1) % SampleRange
<1>1. SampleRange \in Nat \ {0} /\ v \in 0 .. SampleRange - 1
  BY SampleRangeAssumption DEF Sample
<1>2. CASE v + 1 = SampleRange
  <2>1. v + 1 = SampleRange * 1 + 0 /\ 0 \in 0 .. SampleRange - 1 /\ v + 1 \in Int
    BY <1>1, <1>2
  <2>2. (v + 1) % SampleRange = 0
    BY <1>1, <2>1, OneRemainder
  <2> QED  BY <1>2, <2>2 DEF NextSample
<1>3. CASE v + 1 # SampleRange
  <2>1. v + 1 = SampleRange * 0 + (v + 1) /\ v + 1 \in 0 .. SampleRange - 1 /\ v + 1 \in Int
    BY <1>1, <1>3
  <2>2. (v + 1) % SampleRange = v + 1
    BY <1>1, <2>1, OneRemainder
  <2> QED  BY <1>3, <2>2 DEF NextSample
<1> QED  BY <1>2, <1>3

(* A sample is one period older after the next alarm.                      *)
LEMMA OnePeriodOlder ==
  ASSUME ~ClockJumps, WriterTypeOK, Alarm, NEW v \in Int, NEW t \in Int, TakenAt(v, t)
  PROVE  TakenAt(v, t)'
<1> DEFINE W == WordRange
           S == SampleRange
<1>0. W \in Nat \ {0} /\ S \in Nat \ {0} /\ testVar \in Sample
      /\ now' = (now + 1) % W /\ testVar' = NextSample(testVar)
  BY WordRangeAssumption, SampleRangeAssumption DEF WriterTypeOK, Alarm, NextClock
<1>1. PICK k \in 0 .. W * S - 1 : (t + k) % W = now /\ (v + k) % S = testVar
  BY DEF TakenAt
<1>2. k \in Int /\ k + 1 \in Int /\ t + k \in Int /\ v + k \in Int /\ 1 \in Int
  OBVIOUS
<1> DEFINE m == (k + 1) % (W * S)
<1> HIDE DEF W, S
<1>3. m \in 0 .. W * S - 1
  <2> DEFINE l == W * S
  <2>1. l \in Nat \ {0}
    BY <1>0
  <2> HIDE DEF l
  <2>2. (k + 1) % l \in 0 .. l - 1
    BY <1>2, <2>1, DivMod
  <2> QED  BY <2>2 DEF l
<1>4. now' = (t + m) % W
  <2>1. (((t + k) % W) + 1) % W = ((t + k) + 1) % W
    BY <1>0, <1>2, WrapsOnce
  <2>2. (t + m) % W = (t + (k + 1)) % W
    BY <1>0, <1>2, AnyAge
  <2>3. (t + k) + 1 = t + (k + 1)
    BY <1>2
  <2> QED  BY <1>0, <1>1, <2>1, <2>2, <2>3
<1>5. testVar' = (v + m) % S
  <2>1. (((v + k) % S) + 1) % S = ((v + k) + 1) % S
    BY <1>0, <1>2, WrapsOnce
  <2>2. W * S = S * W
    BY <1>0
  <2>3. (v + m) % S = (v + (k + 1)) % S
    <3>1. (v + ((k + 1) % (S * W))) % S = (v + (k + 1)) % S
      BY <1>0, <1>2, AnyAge
    <3> QED  BY <2>2, <3>1
  <2>4. (v + k) + 1 = v + (k + 1)
    BY <1>2
  <2>5. testVar' = (testVar + 1) % S
    BY <1>0, NextSampleWraps DEF S
  <2> QED  BY <1>1, <2>1, <2>3, <2>4, <2>5
<1> QED  BY <1>3, <1>4, <1>5 DEF TakenAt, W, S

(* The present sample was taken at the present time.                       *)
LEMMA TakenNow ==
  ASSUME WriterTypeOK
  PROVE  TakenAt(testVar, now)
<1>1. /\ WordRange \in Nat \ {0} /\ SampleRange \in Nat \ {0}
      /\ now \in 0 .. WordRange - 1 /\ testVar \in 0 .. SampleRange - 1
  BY WordRangeAssumption, SampleRangeAssumption DEF WriterTypeOK, Sample, Time
<1>2. (now + 0) % WordRange = now
  <2>1. now + 0 = WordRange * 0 + now /\ now + 0 \in Int
    BY <1>1
  <2> QED  BY <1>1, <2>1, OneRemainder
<1>3. (testVar + 0) % SampleRange = testVar
  <2>1. testVar + 0 = SampleRange * 0 + testVar /\ testVar + 0 \in Int
    BY <1>1
  <2> QED  BY <1>1, <2>1, OneRemainder
<1>4. WordRange * SampleRange \in Nat \ {0}
  BY <1>1
<1>5. 0 \in 0 .. WordRange * SampleRange - 1
  <2> DEFINE l == WordRange * SampleRange
  <2>1. l \in Nat \ {0}
    BY <1>4
  <2> HIDE DEF l
  <2>2. 0 \in 0 .. l - 1
    BY <2>1
  <2> QED  BY <2>2 DEF l
<1> QED  BY <1>2, <1>3, <1>5 DEF TakenAt

(* No step changes when a sample was taken.                                *)
LEMMA TakenStays ==
  ASSUME ~ClockJumps, WriterTypeOK, WriteStep \/ UNCHANGED <<now, testVar>>,
         NEW v \in Int, NEW t \in Int, TakenAt(v, t)
  PROVE  TakenAt(v, t)'
<1>1. CASE Alarm
  BY <1>1, OnePeriodOlder
<1>2. CASE ~Alarm
  <2>1. UNCHANGED <<now, testVar>>
    BY <1>2 DEF WriteStep, TakeFromISR, TakeFails, WriteFirst, BackOff, AppendSample, Release
  <2> QED  BY <2>1 DEF TakenAt
<1> QED  BY <1>1, <1>2

(* Times and samples are numbers.                                          *)
LEMMA TimesAndSamples == Time \subseteq Int /\ Sample \subseteq Int /\ measuringStart \in Int
BY MeasuringStartAssumption, WordRangeAssumption, SampleRangeAssumption DEF Time, Sample

(* A dated buffer stays dated while nobody changes it.                     *)
LEMMA BufferStaysDated ==
  ASSUME ~ClockJumps, WriterTypeOK, WriteStep \/ UNCHANGED <<now, testVar>>,
         NEW b \in Buffers, BufferDated(b),
         ringbuffer'[b].timestamp = ringbuffer[b].timestamp,
         ringbuffer'[b].sensValue[0] = ringbuffer[b].sensValue[0],
         ringbuffer[b].writeIndex # 0 \/ is_full(ringbuffer[b]) \/ (pc = "drain" /\ b = Source)
  PROVE  BufferDated(b)'
<1>1. /\ ringbuffer[b].timestamp \in Time /\ ringbuffer[b].sensValue[0] \in Sample
      /\ TakenAt(ringbuffer[b].sensValue[0], ringbuffer[b].timestamp)
  BY DEF BufferDated
<1>2. PICK v \in Sample, t \in Time :
        v = ringbuffer[b].sensValue[0] /\ t = ringbuffer[b].timestamp
  BY <1>1
<1>3. TakenAt(v, t)'
  BY <1>1, <1>2, TakenStays, TimesAndSamples
<1> QED  BY <1>2, <1>3 DEF BufferDated, TakenAt

(* A dated half stays dated while none of its cells is written.            *)
LEMMA HalfStaysDated ==
  ASSUME ~ClockJumps, WriterTypeOK, WriteStep \/ UNCHANGED <<now, testVar>>,
         NEW half \in Halves, HalfDated(half), ~(pc = "drain" /\ half = Base),
         \A c \in half .. half + Size + 1 : buffer_array'[c] = buffer_array[c]
  PROVE  HalfDated(half)'
<1>1. half + 1 \in half .. half + Size + 1 /\ half + 2 \in half .. half + Size + 1
  BY SizeAssumption, TwoSlots DEF Halves
<1>2. HostWord(half + 1)' = HostWord(half + 1) /\ HostWord(half + 2)' = HostWord(half + 2)
      /\ (Written(half)' => Written(half))
  BY <1>1 DEF HostWord, Written
<1>3. SUFFICES ASSUME Written(half)
               PROVE  /\ HostWord(half + 1)' \in Time /\ HostWord(half + 2)' \in Sample
                      /\ TakenAt(HostWord(half + 2), HostWord(half + 1) + measuringStart)'
  BY <1>2 DEF HalfDated
<1>4. /\ HostWord(half + 1) \in Time /\ HostWord(half + 2) \in Sample
      /\ TakenAt(HostWord(half + 2), HostWord(half + 1) + measuringStart)
  BY <1>3 DEF HalfDated
<1>5. PICK v \in Sample, t \in Time : v = HostWord(half + 2) /\ t = HostWord(half + 1)
  BY <1>4
<1>6. t + measuringStart \in Int /\ v \in Int
  BY TimesAndSamples
<1>7. TakenAt(v, t + measuringStart)'
  BY <1>4, <1>5, <1>6, TakenStays
<1> QED  BY <1>2, <1>4, <1>5, <1>7 DEF TakenAt

(* The callback dates the chunks it begins and leaves the others alone.    *)
LEMMA WriterKeepsDated ==
  ASSUME ~ClockJumps, IInv, DatedInv, WriteStep, UNCHANGED senderVars
  PROVE  DatedInv'
<1>0. /\ WriterInv /\ WriterTypeOK /\ IsrOwnership /\ Target \in Buffers /\ Source \in Buffers
      /\ ringbuffer \in [Buffers -> Handle]
      /\ pc' = pc /\ buffer_array' = buffer_array /\ Source' = Source
  BY IInvHasWriterInv, TargetAndSource
     DEF IInv, WriterInv, WriterTypeOK, Handle, senderVars, Source
<1>1. pc = "drain" => mutex[Source] # "isr"
  BY <1>0 DEF IInv, Ownership, TaskInside
<1>2. ASSUME NEW b \in Buffers PROVE BufferDated(b)'
  <2>0. BufferDated(b)
    BY DEF DatedInv
  <2>1. CASE ringbuffer'[b] = ringbuffer[b]
    <3>1. CASE ringbuffer[b].writeIndex # 0 \/ is_full(ringbuffer[b]) \/ (pc = "drain" /\ b = Source)
      BY <1>0, <2>0, <2>1, <3>1, BufferStaysDated
    <3>2. CASE ~(ringbuffer[b].writeIndex # 0 \/ is_full(ringbuffer[b]) \/ (pc = "drain" /\ b = Source))
      BY <1>0, <2>1, <3>2 DEF BufferDated
    <3> QED  BY <3>1, <3>2
  <2>2. CASE ringbuffer'[b] # ringbuffer[b]
    <3>1. b = Target /\ (WriteFirst \/ AppendSample)
      <4>1. mutex[b] = "isr"
        BY <1>0, <2>2, WriterLeavesOthers
      <4>2. b = Target
        BY <1>0, <4>1 DEF IsrOwnership
      <4> QED  BY <2>2, <4>2
                  DEF WriteStep, Alarm, TakeFromISR, TakeFails, BackOff, Release
    <3>2. CASE WriteFirst
      <4>1. /\ ringbuffer'[b].timestamp = now /\ ringbuffer'[b].sensValue[0] = testVar
            /\ now' = now /\ testVar' = testVar
        BY <1>0, <3>1, <3>2, FirstSample DEF WriteFirst
      <4>2. TakenAt(testVar, now) /\ now \in Time /\ testVar \in Sample
        BY <1>0, TakenNow DEF WriterTypeOK
      <4> QED  BY <4>1, <4>2 DEF BufferDated, TakenAt
    <3>3. CASE AppendSample
      <4> DEFINE w == ringbuffer[b].writeIndex
      <4>1. /\ w \in Index /\ w # 0
            /\ ringbuffer'[b].timestamp = ringbuffer[b].timestamp
            /\ ringbuffer'[b].sensValue = [ringbuffer[b].sensValue EXCEPT ![w] = testVar]
            /\ ringbuffer[b].sensValue \in [Index -> Sample \cup {Garbage}]
        BY <1>0, <3>1, <3>3, NextSampleOfChunk DEF PartShape
      <4>2. ringbuffer'[b].sensValue[0] = ringbuffer[b].sensValue[0]
        <5>1. 0 \in Index
          BY SizeAssumption DEF Index
        <5> HIDE DEF w
        <5> QED  BY <4>1, <5>1
      <4> QED  BY <1>0, <2>0, <4>1, <4>2, BufferStaysDated
    <3> QED  BY <3>1, <3>2, <3>3
  <2> QED  BY <2>1, <2>2
<1>3. ASSUME NEW half \in Halves PROVE HalfDated(half)'
  <2>0. HalfDated(half)
    BY DEF DatedInv
  <2>1. pc = "drain" => Base' = Base
    <3>1. ASSUME pc = "drain" PROVE ringbuffer'[Source] = ringbuffer[Source]
      BY <1>0, <1>1, <3>1, WriterLeavesOthers
    <3> QED  BY <1>0, <3>1 DEF Base, Copied, senderVars
  <2>2. CASE pc = "drain" /\ half = Base
    BY <1>0, <2>1, <2>2 DEF HalfDated
  <2>3. CASE ~(pc = "drain" /\ half = Base)
    BY <1>0, <2>0, <2>3, HalfStaysDated
  <2> QED  BY <2>2, <2>3
<1> QED  BY <1>2, <1>3 DEF DatedInv

(* The task carries the date of a buffer over to a half.                   *)
LEMMA TaskKeepsDated ==
  ASSUME ~ClockJumps, IInv, DatedInv, SendStep
  PROVE  DatedInv'
<1>0. /\ TypeOK /\ WriterTypeOK /\ Source \in Buffers
      /\ UNCHANGED <<now, testVar>>
      /\ \A b \in Buffers : BufferDated(b)
      /\ \A half \in Halves : HalfDated(half)
  BY TargetAndSource
     DEF IInv, TypeOK, DatedInv, SendStep, TakeMutex, Header, ReadOne, Leave, SendDue,
         SendSkipped, Send, writerVars
<1>1. ASSUME NEW b \in Buffers PROVE BufferDated(b)'
  <2>1. CASE ringbuffer'[b] = ringbuffer[b]
    <3>1. pc' = "drain" /\ b = Source' => is_full(ringbuffer[b])
      BY <2>1, <1>0 DEF SendStep, TakeMutex, Header, ReadOne, Leave, SendDue, SendSkipped, Send,
                        Source
    <3> QED  BY <1>0, <2>1, <3>1 DEF BufferDated, TakenAt
  <2>2. CASE ringbuffer'[b] # ringbuffer[b]
    <3>1. ReadOne /\ b = Source
      BY <2>2, <1>0 DEF SendStep, TakeMutex, Header, ReadOne, Leave, SendDue, SendSkipped, Send,
                        writerVars, IInv, TypeOK, WriterTypeOK
    <3>2. /\ ringbuffer'[b].timestamp = ringbuffer[b].timestamp
          /\ ringbuffer'[b].sensValue = ringbuffer[b].sensValue
          /\ is_full(ringbuffer[b])
      BY <3>1, OneRead
    <3> QED  BY <1>0, <3>2, BufferStaysDated
  <2> QED  BY <2>1, <2>2
<1>2. ASSUME NEW half \in Halves, ~(pc' = "drain" /\ half = Base') PROVE HalfDated(half)'
  <2>1. CASE ~(pc = "drain" /\ half = Base)
    BY <1>0, <1>2, <2>1, OnlyBaseWritten, HalfStaysDated
  <2>2. CASE pc = "drain" /\ half = Base
    <3>1. /\ Leave /\ UNCHANGED buffer_array /\ ~is_full(ringbuffer[Source])
          /\ Copied = Size /\ CopyShape
      BY <1>2, <2>2, OnlyBaseWritten DEF Leave, Copied, IInv
    <3>2. /\ ringbuffer[Source].timestamp \in Time
          /\ ringbuffer[Source].sensValue[0] \in Sample
          /\ TakenAt(ringbuffer[Source].sensValue[0], ringbuffer[Source].timestamp)
      BY <1>0, <2>2 DEF BufferDated
    <3>3. PICK v \in Sample, t \in Time :
            /\ v = ringbuffer[Source].sensValue[0] /\ t = ringbuffer[Source].timestamp
            /\ TakenAt(v, t)
      BY <3>2
    <3>4. HostWord(half + 1) = get_timediff_us(t, measuringStart) /\ HostWord(half + 2) = v
      <4>1. 0 \in 0 .. Copied - 1
        BY <3>1, SizeAssumption
      <4>2. /\ buffer_array[half + 1] = htonl(get_timediff_us(t, measuringStart))
            /\ buffer_array[half + 2 + 0] = htonl(v)
        BY <2>2, <3>1, <3>3, <4>1 DEF CopyShape
      <4>3. half + 2 + 0 = half + 2
        BY SizeAssumption DEF Halves
      <4> QED  BY <4>2, <4>3 DEF HostWord, htonl
    <3>5. TakenAt(v, get_timediff_us(t, measuringStart) + measuringStart)
      <4>1. PICK k \in 0 .. WordRange * SampleRange - 1 :
              (t + k) % WordRange = now /\ (v + k) % SampleRange = testVar
        BY <3>3 DEF TakenAt
      <4>2. /\ k \in Int /\ t \in Int /\ measuringStart \in Int /\ WordRange \in Nat \ {0}
        BY TimesAndSamples, WordRangeAssumption
      <4> DEFINE d == (t - measuringStart) % WordRange
      <4>3. d \in Int /\ t - measuringStart \in Int /\ measuringStart + k \in Int
        BY <4>2, DivMod
      <4>4. (d + (measuringStart + k)) % WordRange
              = ((t - measuringStart) + (measuringStart + k)) % WordRange
        BY <4>2, <4>3, WrapsOnce
      <4> HIDE DEF d
      <4>5. /\ (t - measuringStart) + (measuringStart + k) = t + k
            /\ d + (measuringStart + k) = (d + measuringStart) + k
        BY <4>2, <4>3
      <4>6. ((d + measuringStart) + k) % WordRange = now
        BY <4>1, <4>4, <4>5
      <4> QED  BY <4>1, <4>6 DEF TakenAt, get_timediff_us, d
    <3>6. get_timediff_us(t, measuringStart) \in Time
      BY TimediffType, MeasuringStartAssumption
    <3> QED  BY <1>0, <3>1, <3>4, <3>5, <3>6 DEF HalfDated, HostWord, TakenAt
  <2> QED  BY <2>1, <2>2
<1>3. ASSUME NEW half \in Halves, pc' = "drain", half = Base' PROVE HalfDated(half)'
  BY <1>3 DEF HalfDated
<1> QED  BY <1>1, <1>2, <1>3 DEF DatedInv

(* The date of every chunk is that of its first sample, from the first     *)
(* write to the datagram, as long as nobody sets the clock.                *)
THEOREM StampsMatchSamples ==
  ASSUME ~ClockJumps
  PROVE  Spec => []StampMatchesSample
<1>1. Init => DatedInv
  <2> SUFFICES ASSUME Init PROVE DatedInv
    OBVIOUS
  <2>1. \A b \in Buffers : BufferDated(b)
    BY InitBuffer DEF Init, WriterInit, SenderInit, BufferDated
  <2>2. \A half \in Halves : HalfDated(half)
    BY NothingWritten DEF HalfDated
  <2> QED  BY <2>1, <2>2 DEF DatedInv
<1>2. ASSUME IInv, DatedInv, [Next]_vars PROVE DatedInv'
  <2>1. CASE WriteStep /\ UNCHANGED senderVars
    BY <1>2, <2>1, WriterKeepsDated
  <2>2. CASE SendStep
    BY <1>2, <2>2, TaskKeepsDated
  <2>3. CASE UNCHANGED vars
    BY <1>2, <2>3 DEF DatedInv, BufferDated, HalfDated, TakenAt, Written, HostWord, Copied,
                      Base, Source, vars, writerVars, senderVars
  <2> QED  BY <1>2, <2>1, <2>2, <2>3 DEF Next
<1>3. DatedInv => StampMatchesSample
  BY DEF DatedInv, HalfDated, StampMatchesSample
<1> QED  BY <1>1, <1>2, <1>3, Invariance, PTL DEF Spec

-----------------------------------------------------------------------------
(* The test before sendto.                                                 *)

(* The history variable adds no behaviour.                                 *)
LEMMA PauseIsMeasurement == PauseSpec => Spec
<1>1. PauseInit => Init
  BY DEF PauseInit
<1>2. [PauseNext]_pauseVars => [Next]_vars
  BY DEF PauseNext, PauseWrite, PauseStep, PauseTake, PauseSend, PauseRest, Next, SendStep,
         pauseVars
<1> QED  BY <1>1, <1>2, PTL DEF PauseSpec, Spec

(* Each alarm moves the clock and the count of alarms, each sendto brings  *)
(* endSend up to the clock.                                                *)
LEMMA PauseStepKeepsPauseInv ==
  ASSUME ~ClockJumps, IInv, PauseInv, PauseNext
  PROVE  PauseInv'
<1>0. /\ WordRange \in Nat \ {0} /\ LongPause \in Nat
      /\ now \in Int /\ now \in 0 .. WordRange - 1 /\ endSend \in Int
      /\ silence \in 0 .. LongPause /\ silence \in Int
      /\ silence < LongPause => (endSend + silence) % WordRange = now
  BY WordRangeAssumption, SendGapAssumption, GapBelowTurn
     DEF LongPause, PauseInv, IInv, TypeOK, WriterTypeOK, Time
<1>1. CASE PauseWrite
  <2>1. endSend' = endSend
    BY <1>1 DEF PauseWrite, senderVars
  <2>2. CASE Alarm
    <3>1. /\ now' = (now + 1) % WordRange
          /\ silence' = IF silence # LongPause THEN silence + 1 ELSE silence
      BY <1>1, <2>2 DEF PauseWrite, Alarm, NextClock
    <3>2. silence' \in 0 .. LongPause
      BY <1>0, <3>1
    <3>3. ASSUME silence' < LongPause PROVE (endSend + silence') % WordRange = now'
      <4>1. silence' = silence + 1 /\ silence < LongPause
        BY <1>0, <3>1, <3>3
      <4>2. endSend + silence \in Int /\ 1 \in Int
            /\ (endSend + silence) + 1 = endSend + silence'
        BY <1>0, <4>1
      <4>3. (((endSend + silence) % WordRange) + 1) % WordRange
              = ((endSend + silence) + 1) % WordRange
        BY <1>0, <4>2, WrapsOnce
      <4> QED  BY <1>0, <3>1, <4>1, <4>2, <4>3
    <3> QED  BY <2>1, <3>2, <3>3 DEF PauseInv, LongPause
  <2>3. CASE ~Alarm
    <3>1. isr # "idle" /\ now' = now
      BY <1>1, <2>3 DEF PauseWrite, WriteStep, TakeFromISR, TakeFails, WriteFirst, BackOff,
                        AppendSample, Release
    <3>2. silence' = silence
      BY <1>1, <3>1 DEF PauseWrite
    <3> QED  BY <2>1, <3>1, <3>2 DEF PauseInv, LongPause
  <2> QED  BY <2>2, <2>3
<1>2. CASE PauseSend
  <2>1. silence' = 0 /\ endSend' = now /\ now' = now
    BY <1>2 DEF PauseSend, Send, writerVars
  <2>2. (now + 0) % WordRange = now
    BY <1>0
  <2> QED  BY <1>0, <2>1, <2>2 DEF PauseInv, LongPause
<1>3. CASE PauseTake \/ PauseRest
  <2>1. silence' = silence /\ endSend' = endSend /\ now' = now
    BY <1>3 DEF PauseTake, PauseRest, TakeMutex, Header, ReadOne, Leave, SendDue,
                SendSkipped, writerVars
  <2> QED  BY <2>1 DEF PauseInv, LongPause
<1> QED  BY <1>1, <1>2, <1>3 DEF PauseNext, PauseStep

(* After a pause of 1 to LongPause - 1 alarms the wrapped difference is    *)
(* more than SendGap.                                                      *)
LEMMA ShortPauseIsSent ==
  ASSUME IInv, PauseInv, SendSkipped
  PROVE  silence \in {0, LongPause}
<1> SUFFICES ASSUME silence # 0, silence # LongPause PROVE FALSE
  OBVIOUS
<1>0. /\ WordRange \in Nat \ {0} /\ SendGap \in Nat /\ LongPause = WordRange - SendGap
      /\ now \in Int /\ endSend \in Int
      /\ silence \in Int /\ silence > 0 /\ silence < LongPause
      /\ (endSend + silence) % WordRange = now
  BY WordRangeAssumption, SendGapAssumption, GapBelowTurn
     DEF LongPause, PauseInv, IInv, TypeOK, WriterTypeOK, Time
<1> DEFINE q == (endSend + silence) \div WordRange
<1>1. endSend + silence \in Int /\ q \in Int /\ q - 1 \in Int
      /\ endSend + silence = WordRange * q + now
  BY <1>0, DivMod
<1> HIDE DEF q
<1>2. WordRange * q \in Int /\ WordRange * (q - 1) = WordRange * q - WordRange
  BY <1>0, <1>1
<1>3. /\ endSend - now \in Int
      /\ endSend - now = WordRange * (q - 1) + (WordRange - silence)
      /\ WordRange - silence \in 0 .. WordRange - 1
  BY <1>0, <1>1, <1>2
<1>4. (endSend - now) % WordRange = WordRange - silence
  <2> DEFINE d == endSend - now
             r == WordRange - silence
             p == q - 1
  <2>1. d \in Int /\ p \in Int /\ r \in 0 .. WordRange - 1 /\ d = WordRange * p + r
    BY <1>1, <1>3
  <2> HIDE DEF d, r, p
  <2>2. d % WordRange = r
    BY <1>0, <2>1, OneRemainder
  <2> QED  BY <2>2 DEF d, r
<1>5. (endSend - now) % WordRange <= SendGap
  BY DEF SendSkipped, get_timediff_us
<1> QED  BY <1>0, <1>4, <1>5

(* A datagram is held back only after a pause that takes the 32-bit        *)
(* difference almost once around, or none at all.                          *)
THEOREM DropsAfterSilence ==
  ASSUME ~ClockJumps
  PROVE  PauseSpec => DroppedAfterSilence
<1>1. IInv /\ PauseInit => PauseInv
  <2>1. LongPause \in Nat
    BY WordRangeAssumption, SendGapAssumption, GapBelowTurn DEF LongPause
  <2> QED  BY <2>1 DEF PauseInit, PauseInv
<1>2. IInv /\ PauseInv /\ [PauseNext]_pauseVars => PauseInv'
  <2>1. ASSUME PauseInv, UNCHANGED pauseVars PROVE PauseInv'
    BY <2>1 DEF PauseInv, LongPause, pauseVars, vars, writerVars, senderVars
  <2> QED  BY <2>1, PauseStepKeepsPauseInv
<1>3. IInv /\ PauseInv /\ [PauseNext]_pauseVars =>
        [SendSkipped => silence \in {0, LongPause}]_pauseVars
  BY ShortPauseIsSent
<1> QED  BY <1>1, <1>2, <1>3, PauseIsMeasurement, Invariance, PTL
         DEF PauseSpec, DroppedAfterSilence

-----------------------------------------------------------------------------
(* The measurement implements the double buffer.                           *)

(* A step at one buffer moves one slot, or none.                           *)
LEMMA SlotMove ==
  ASSUME NEW b \in Buffers, \A c \in Buffers : c # b => Slot(c)' = Slot(c)
  PROVE  /\ Slots' = [Slots EXCEPT ![b] = Slot(b)']
         /\ Slots[b] = Slot(b)
         /\ Slot(b)' = Slot(b) => Slots' = Slots
BY DEF Slots

(* The callback begins to fill with the first sample of a chunk and ends   *)
(* with the release; its other steps change no slot.                       *)
LEMMA WriterRefines ==
  ASSUME IInv, WriteStep, UNCHANGED senderVars, NEW b \in Buffers, b = Target
  PROVE  [Exchange!Next]_<<Slots, Target>>
<1>0. WriterInv /\ (pc = "drain") \in BOOLEAN /\ pc' = pc
  BY IInvHasWriterInv DEF senderVars
<1>1. /\ \A c \in Buffers : c # b => Slot(c)' = Slot(c)
      /\ \/ Slot(b)' = Slot(b) /\ Target' = Target
         \/ Slot(b) = "empty" /\ Slot(b)' = "filling" /\ Target' = Target
         \/ Slot(b) = "filling" /\ Slot(b)' = "full" /\ Target' = 3 - Target
  <2>1. CASE pc = "drain"
    BY <1>0, <2>1, WriterMovesSlot DEF Slot
  <2>2. CASE pc # "drain"
    BY <1>0, <2>2, WriterMovesSlot DEF Slot
  <2> QED  BY <2>1, <2>2
<1>2. /\ Slots' = [Slots EXCEPT ![b] = Slot(b)'] /\ Slots[b] = Slot(b)
      /\ Slot(b)' = Slot(b) => Slots' = Slots
  BY <1>1, SlotMove
<1>3. CASE Slot(b)' = Slot(b) /\ Target' = Target
  BY <1>2, <1>3
<1>4. CASE Slot(b) = "empty" /\ Slot(b)' = "filling" /\ Target' = Target
  <2>1. Exchange!BeginFill
    BY <1>2, <1>4 DEF Exchange!BeginFill, Exchange!Move
  <2> QED  BY <2>1 DEF Exchange!Next
<1>5. CASE Slot(b) = "filling" /\ Slot(b)' = "full" /\ Target' = 3 - Target
  <2>1. Exchange!EndFill
    BY <1>2, <1>5 DEF Exchange!EndFill, Exchange!Move
  <2> QED  BY <2>1 DEF Exchange!Next
<1> QED  BY <1>1, <1>3, <1>4, <1>5

(* The task begins to drain when it has found the buffer full and ends     *)
(* when it gives the buffer back.                                          *)
LEMMA TaskRefines ==
  ASSUME IInv, SendStep, NEW b \in Buffers, b = Source
  PROVE  [Exchange!Next]_<<Slots, Target>>
<1>0. /\ Ownership /\ ringbuffer \in [Buffers -> Handle]
      /\ mutex \in [Buffers -> {"free", "isr", "task"}]
  BY DEF IInv, TypeOK, WriterTypeOK, Handle
<1>1. UNCHANGED <<isr, Target>>
  BY DEF SendStep, TakeMutex, Header, ReadOne, Leave, SendDue, SendSkipped, Send,
         writerVars, Target
<1>2. \A c \in Buffers : c # b => mutex[c] # "task" /\ Slot(c)' = Slot(c)
  <2> SUFFICES ASSUME NEW c \in Buffers, c # b
               PROVE  mutex[c] # "task" /\ Slot(c)' = Slot(c)
    OBVIOUS
  <2>1. mutex[c] # "task"
    BY <1>0 DEF Ownership, IsrOwnership, TaskInside
  <2>2. mutex'[c] = mutex[c] /\ ringbuffer'[c] = ringbuffer[c]
    BY <1>0 DEF SendStep, TakeMutex, Header, ReadOne, Leave, SendDue, SendSkipped, Send,
                writerVars, Take, Give
  <2> QED  BY <1>1, <2>1, <2>2 DEF Slot, SlotOf
<1>3. /\ Slots' = [Slots EXCEPT ![b] = Slot(b)'] /\ Slots[b] = Slot(b)
      /\ Slot(b)' = Slot(b) => Slots' = Slots
  BY <1>2, SlotMove
<1>4. CASE TakeMutex
  <2>1. mutex[b] = "free" /\ mutex'[b] = "task" /\ pc' = "check" /\ UNCHANGED ringbuffer
    BY <1>0, <1>4 DEF TakeMutex, Take
  <2>2. Slot(b)' = Slot(b)
    BY <2>1 DEF Slot, SlotOf
  <2> QED  BY <1>1, <1>3, <2>2
<1>5. CASE Header
  <2>1. mutex[b] = "task" /\ pc = "check" /\ pc' = "drain" /\ is_full(ringbuffer[b])
        /\ UNCHANGED <<mutex, ringbuffer>>
    BY <1>5, SourceShape DEF Header, writerVars
  <2>2. Slot(b) = "full" /\ Slot(b)' = "draining"
    BY <2>1 DEF Slot, SlotOf
  <2>3. \A c \in Buffers : Slots[c] # "draining"
    BY <1>2, <2>2 DEF Slots, Slot, SlotOf
  <2>4. Exchange!BeginDrain(b)
    BY <1>1, <1>3, <2>2, <2>3 DEF Exchange!BeginDrain, Exchange!Move, Exchange!Buffers, Buffers
  <2> QED  BY <2>4 DEF Exchange!Next, Exchange!Buffers, Buffers
<1>6. CASE ReadOne
  <2>1. mutex[b] = "task" /\ pc = "drain" /\ UNCHANGED <<mutex, pc>>
    BY <1>6, SourceShape DEF ReadOne
  <2>2. Slot(b)' = Slot(b)
    BY <2>1 DEF Slot, SlotOf
  <2> QED  BY <1>1, <1>3, <2>2
<1>7. CASE Leave
  <2>1. mutex[b] = "task" /\ mutex'[b] = "free" /\ ~is_full(ringbuffer[b])
        /\ UNCHANGED ringbuffer /\ pc \in {"check", "drain"}
    BY <1>0, <1>7, SourceShape DEF Leave, Give
  <2>2. Slot(b)' = "empty"
    BY <2>1 DEF Slot, SlotOf
  <2>3. CASE pc = "check"
    BY <1>1, <1>3, <2>1, <2>2, <2>3 DEF Slot, SlotOf
  <2>4. CASE pc = "drain"
    <3>1. Slot(b) = "draining"
      BY <2>1, <2>4 DEF Slot, SlotOf
    <3>2. Exchange!EndDrain(b)
      BY <1>1, <1>3, <2>2, <3>1 DEF Exchange!EndDrain, Exchange!Move
    <3> QED  BY <3>2 DEF Exchange!Next, Exchange!Buffers, Buffers
  <2> QED  BY <2>1, <2>3, <2>4
<1>8. CASE SendDue \/ SendSkipped \/ Send
  <2>1. UNCHANGED <<mutex, ringbuffer>> /\ pc # "drain" /\ pc' # "drain"
    BY <1>8 DEF SendDue, SendSkipped, Send, writerVars
  <2>2. Slot(b)' = Slot(b)
    BY <1>1, <2>1 DEF Slot, SlotOf
  <2> QED  BY <1>1, <1>3, <2>2
<1> QED  BY <1>4, <1>5, <1>6, <1>7, <1>8 DEF SendStep

(* Every behaviour of the measurement is one of the double buffer: neither *)
(* side ever works on a buffer out of turn, half-filled or half-drained.   *)
THEOREM DoubleBuffering == Spec => ImplementsDoubleBuffer
<1>1. Init => Exchange!Init
  <2> SUFFICES ASSUME Init PROVE Exchange!Init
    OBVIOUS
  <2>1. \A b \in Buffers : Slot(b) = "empty"
    BY InitBuffer DEF Init, WriterInit, Slot, SlotOf
  <2>2. Target = 1
    BY DEF Init, WriterInit, Target, Other
  <2> QED  BY <2>1, <2>2 DEF Exchange!Init, Exchange!Buffers, Buffers, Slots
<1>2. ASSUME IInv, [Next]_vars PROVE [Exchange!Next]_<<Slots, Target>>
  <2>0. Target \in Buffers /\ Source \in Buffers
    BY <1>2, TargetAndSource DEF IInv
  <2>1. CASE WriteStep /\ UNCHANGED senderVars
    BY <1>2, <2>0, <2>1, WriterRefines
  <2>2. CASE SendStep
    BY <1>2, <2>0, <2>2, TaskRefines
  <2>3. CASE UNCHANGED vars
    BY <2>3 DEF vars, writerVars, senderVars, Slots, Slot, SlotOf, Target
  <2> QED  BY <1>2, <2>1, <2>2, <2>3 DEF Next
<1> QED  BY <1>1, <1>2, Invariance, PTL DEF Spec, ImplementsDoubleBuffer, Exchange!Spec
=============================================================================
