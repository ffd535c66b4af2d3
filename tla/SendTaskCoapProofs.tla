-------------------------- MODULE SendTaskCoapProofs ------------------------
(***************************************************************************)
(* Proofs about send_task_coap beside the callback, for every buffer size  *)
(* of at least two slots and every size of a message that has room for the *)
(* option.  What the callback does is proved in module WriteTaskProofs.    *)
(***************************************************************************)
EXTENDS SendTaskCoap, WriteTaskProofs

(* Both sides always have a buffer to turn to.                             *)
LEMMA TargetAndSource ==
  ASSUME TypeOK
  PROVE  Target \in Buffers /\ Source \in Buffers
BY OtherBuffer DEF TypeOK, WriterTypeOK, Target, Source

-----------------------------------------------------------------------------
(* The message.                                                            *)

(* The option takes two bytes.                                             *)
LEMMA OptionIsTwoBytes == OptionSize = 2
BY DEF OptionSize, coap_opt_encode_size, Extra, COAP_OPTION_CONTENT_TYPE, ContentTypeLength

(* A new message is empty and has at least one byte.                       *)
LEMMA NewPdu ==
  /\ Sound(coap_new_pdu)
  /\ coap_new_pdu.used_size = 0
  /\ coap_new_pdu.max_opt = 0
  /\ coap_new_pdu.data = NoData
  /\ coap_new_pdu.max_size >= 2
  /\ coap_new_pdu.alloc_size >= 1
  /\ coap_new_pdu.alloc_size = 1 => AllocUnit = 1
<1>1. NoData \in Seq([Index -> Sample])
  BY DEF NoData
<1> HIDE DEF NoData
<1> QED  BY <1>1, PduAssumption, MtuAssumption
            DEF Sound, Pdu, coap_new_pdu, coap_pdu_init, coap_session_max_pdu_size, Least

(* The first option always finds room, if need be by growing the message.  *)
LEMMA OptionAdded ==
  LET pdu == coap_add_option(coap_new_pdu, COAP_OPTION_CONTENT_TYPE, ContentTypeLength)
  IN  /\ Sound(pdu)
      /\ pdu.used_size = OptionSize
      /\ pdu.data = NoData
<1> DEFINE new == coap_new_pdu
           grown == coap_pdu_check_resize(new, 2)
<1>1. /\ Sound(new) /\ new.used_size = 0 /\ new.max_opt = 0 /\ new.data = NoData
      /\ new.max_size >= 2 /\ new.alloc_size >= 1
      /\ new.alloc_size = 1 => AllocUnit = 1
  BY NewPdu
<1> HIDE DEF new
<1>2. /\ Sound(grown) /\ grown.alloc_size >= 2 /\ grown.data = NoData
  <2>1. CASE new.alloc_size >= 2
    <3>1. new.alloc_size \in Nat /\ 2 <= new.alloc_size
      BY <1>1, <2>1 DEF Sound, Pdu
    <3>2. grown = new
      BY <3>1 DEF coap_pdu_check_resize
    <3> QED  BY <1>1, <3>1, <3>2
  <2>2. CASE new.alloc_size = 1
    <3>1. Doubled(new.alloc_size, 2) = 2
      BY <1>1, <2>2 DEF Doubled, Most
    <3>2. grown = [new EXCEPT !.alloc_size = 2]
      BY <1>1, <2>2, <3>1 DEF coap_pdu_check_resize, coap_pdu_resize, MayResize, Sound, Pdu
    <3> QED  BY <1>1, <3>2 DEF Sound, Pdu
  <2> QED  BY <1>1, <2>1, <2>2 DEF Sound, Pdu
<1>3. coap_opt_encode_size(COAP_OPTION_CONTENT_TYPE - new.max_opt, ContentTypeLength) = 2
  <2>1. COAP_OPTION_CONTENT_TYPE - new.max_opt = COAP_OPTION_CONTENT_TYPE
    BY <1>1 DEF COAP_OPTION_CONTENT_TYPE
  <2> QED  BY <2>1, OptionIsTwoBytes DEF OptionSize
<1>4. coap_add_option(new, COAP_OPTION_CONTENT_TYPE, ContentTypeLength) =
        [grown EXCEPT !.used_size = 2, !.max_opt = COAP_OPTION_CONTENT_TYPE]
  <2>1. new.used_size
          + coap_opt_encode_size(COAP_OPTION_CONTENT_TYPE - new.max_opt, ContentTypeLength) = 2
    BY <1>1, <1>3
  <2>2. ~(2 > grown.alloc_size)
    BY <1>2 DEF Sound, Pdu
  <2> QED  BY <1>1, <2>1, <2>2, Zenon DEF coap_add_option
<1> HIDE DEF grown
<1>5. LET pdu == coap_add_option(new, COAP_OPTION_CONTENT_TYPE, ContentTypeLength)
      IN  Sound(pdu) /\ pdu.used_size = 2 /\ pdu.data = NoData
  <2> DEFINE pdu == coap_add_option(new, COAP_OPTION_CONTENT_TYPE, ContentTypeLength)
  <2>1. /\ pdu \in Pdu /\ pdu.used_size = 2 /\ pdu.data = grown.data
        /\ pdu.alloc_size = grown.alloc_size /\ pdu.max_size = grown.max_size
    <3>1. pdu = [grown EXCEPT !.used_size = 2, !.max_opt = COAP_OPTION_CONTENT_TYPE]
      BY <1>4
    <3>2. grown \in Pdu /\ COAP_OPTION_CONTENT_TYPE \in Nat
      BY <1>2 DEF Sound, COAP_OPTION_CONTENT_TYPE
    <3> HIDE DEF pdu
    <3> QED  BY <3>1, <3>2 DEF Pdu
  <2> HIDE DEF pdu
  <2>2. Sound(pdu) /\ pdu.used_size = 2 /\ pdu.data = NoData
    BY <1>2, <2>1 DEF Sound
  <2> QED  BY <2>2 DEF pdu
<1> QED  BY <1>5, OptionIsTwoBytes DEF new

(* Some payload.                                                           *)
LEMMA PayloadIsPositive == Size * WordBytes \in Nat \ {0}
BY SizeAssumption, WordBytesAssumption

(* The data are added in full, within the limits, or not at all.           *)
LEMMA DataAdded ==
  ASSUME NEW pdu, Sound(pdu), pdu.used_size = OptionSize, pdu.data = NoData,
         NEW data \in [Index -> Sample]
  PROVE  LET after == coap_add_data(pdu, Size * WordBytes, data) IN
         /\ Sound(after)
         /\ after.used_size = OptionSize + PayloadSize(after)
<1> DEFINE len == Size * WordBytes
           used == pdu.used_size + len + 1
           after == coap_add_data(pdu, len, data)
<1>1. len \in Nat \ {0}
  BY PayloadIsPositive
<1> HIDE DEF len
<1>2. CASE MayResize(pdu, used)
  <2>1. after = [pdu EXCEPT !.alloc_size = used, !.used_size = used, !.data = <<data>>]
    BY <1>1, <1>2 DEF coap_add_data, coap_pdu_resize, Sound, Pdu
  <2>2. used \in Nat /\ used <= pdu.max_size
    <3>1. used \in Nat /\ used # 0 /\ pdu.max_size \in Nat /\ pdu.alloc_size \in Nat
          /\ pdu.alloc_size <= pdu.max_size
      BY <1>1, OptionIsTwoBytes DEF Sound, Pdu
    <3>2. pdu.max_size # 0
      BY <3>1, OptionIsTwoBytes DEF Sound, Pdu
    <3> HIDE DEF used
    <3> QED  BY <1>2, <3>1, <3>2 DEF MayResize
  <2>3. <<data>> \in Seq([Index -> Sample]) /\ <<data>> # NoData
    BY DEF NoData
  <2> HIDE DEF used
  <2>4. /\ after \in Pdu /\ after.used_size = used /\ after.alloc_size = used
        /\ after.max_size = pdu.max_size /\ after.data = <<data>>
    BY <2>1, <2>2, <2>3 DEF Sound, Pdu
  <2>5. PayloadSize(after) = 1 + len
    BY <2>3, <2>4 DEF PayloadSize, len
  <2> HIDE DEF after
  <2>6. Sound(after)
    BY <2>2, <2>4 DEF Sound
  <2>7. after.used_size = OptionSize + PayloadSize(after)
    BY <1>1, <2>4, <2>5, OptionIsTwoBytes DEF used
  <2> QED  BY <2>6, <2>7 DEF after, len
<1>3. CASE ~MayResize(pdu, used)
  <2>1. after = pdu
    BY <1>3 DEF coap_add_data
  <2>2. PayloadSize(pdu) = 0
    BY DEF PayloadSize
  <2> QED  BY <2>1, <2>2, OptionIsTwoBytes DEF len
<1> QED  BY <1>2, <1>3

-----------------------------------------------------------------------------
(* The initial states.                                                     *)

LEMMA InitEstablishesCoapInv == Init => CoapInv
<1> SUFFICES ASSUME Init PROVE CoapInv
  OBVIOUS
<1> USE DEF Init, SenderInit
<1>1. WriterInv
  BY WriterInitEstablishes
<1>2. TypeOK
  <2>1. 0 \in Sample /\ 0 \in 0 .. Size
    BY SizeAssumption, SampleRangeAssumption DEF Sample
  <2> QED  BY <1>1, <2>1 DEF TypeOK, WriterInv, Buffers
<1>3. \A b \in Buffers : mutex[b] = "free" /\ ringbuffer[b].readIndex = 0
  BY InitBuffer DEF WriterInit
<1>4. Ownership /\ ReadShape
  BY <1>3 DEF Ownership, TaskInside, ReadShape
<1>5. CopyShape
  BY DEF CopyShape, Whole
<1>6. MessageShape
  BY NewPdu DEF MessageShape
<1> QED  BY <1>1, <1>2, <1>4, <1>5, <1>6 DEF CoapInv

-----------------------------------------------------------------------------
(* A step of the callback.                                                 *)

LEMMA WriterPreservesCoapInv ==
  ASSUME CoapInv, WriteStep, UNCHANGED senderVars
  PROVE  CoapInv'
<1>0. /\ TypeOK /\ WriterInv /\ Ownership /\ ReadShape /\ CopyShape /\ MessageShape
      /\ Source \in Buffers
      /\ UNCHANGED <<pc, lastBufferRead, counter, buffer_array, coap_message, Source>>
  BY TargetAndSource DEF CoapInv, senderVars, Source
<1>1. WriterInv'
  BY <1>0, WriterKeepsWriterInv
<1>2. TypeOK'
  BY <1>0, <1>1 DEF TypeOK, WriterInv
<1>3. Ownership'
  BY <1>0, WriterLeavesMutexes DEF Ownership, TaskInside
<1>4. ReadShape'
  <2> SUFFICES ASSUME NEW b \in Buffers, ringbuffer'[b].readIndex # 0
               PROVE  pc' = "drain" /\ is_full(ringbuffer'[b])
    BY DEF ReadShape, Full
  <2>1. mutex[b] = "task"
    BY <1>0, <1>1, WriterLeavesMutexes DEF WriterInv, FillShape, IndexShape
  <2>2. ringbuffer'[b] = ringbuffer[b]
    BY <1>0, <2>1, WriterLeavesOthers
  <2> QED  BY <1>0, <2>2 DEF ReadShape, Full
<1>5. CopyShape'
  <2>1. CASE pc = "drain"
    <3>1. mutex[Source] = "task"
      BY <1>0, <2>1 DEF Ownership, TaskInside
    <3>2. UNCHANGED ringbuffer[Source]
      BY <1>0, <3>1, WriterLeavesOthers
    <3> QED  BY <1>0, <2>1, <3>2 DEF CopyShape, Whole, Full
  <2>2. CASE pc # "drain"
    BY <1>0, <2>2 DEF CopyShape, Whole
  <2> QED  BY <2>1, <2>2
<1>6. MessageShape'
  BY <1>0 DEF MessageShape, Sound, PayloadSize
<1> QED  BY <1>1, <1>2, <1>3, <1>4, <1>5, <1>6 DEF CoapInv

-----------------------------------------------------------------------------
(* A step of the task.                                                     *)

(* What the task may rely on in the buffer it has.                         *)
LEMMA SourceShape ==
  ASSUME CoapInv, pc \in {"check", "drain"}
  PROVE  /\ Source \in Buffers /\ ringbuffer[Source] \in Handle
         /\ mutex[Source] = "task"
         /\ ringbuffer[Source].writeIndex = 0
         /\ ringbuffer[Source].readIndex \in Index
         /\ ringbuffer[Source].readIndex # 0 => pc = "drain" /\ Full(Source)
         /\ FullShape(Source)
<1>0. /\ TypeOK /\ WriterInv /\ Ownership /\ ReadShape /\ Source \in Buffers
      /\ ringbuffer \in [Buffers -> Handle]
  BY TargetAndSource DEF CoapInv, TypeOK, WriterTypeOK, Handle
<1>1. mutex[Source] = "task"
  BY <1>0 DEF Ownership, TaskInside
<1>2. FullShape(Source) /\ IndexShape(Source)
  BY <1>0 DEF WriterInv, FillShape
<1>3. ringbuffer[Source] \in Handle /\ ringbuffer[Source].readIndex \in Index
  BY <1>0 DEF Handle, ringbuffer_handle
<1> QED  BY <1>0, <1>1, <1>2, <1>3 DEF IndexShape, ReadShape

(* What a round of the loop does: the value behind those already copied    *)
(* goes to the cell behind them, and the flag falls with the last one.     *)
LEMMA OneRead ==
  ASSUME CoapInv, ReadOne
  PROVE  LET old == ringbuffer[Source]
             new == ringbuffer'[Source]
         IN  /\ old \in Handle /\ new \in Handle
             /\ is_full(old)
             /\ new.writeIndex = 0
             /\ new.timestamp = old.timestamp
             /\ new.sensValue = old.sensValue
             /\ old.sensValue \in [Index -> Sample] /\ GapFree(old.sensValue, 0, Size)
             /\ counter = old.readIndex /\ counter \in Index
             /\ counter' = IF is_full(new) THEN new.readIndex ELSE Size
             /\ new.readIndex # 0 => is_full(new)
             /\ Source' = Source
             /\ \A i \in 0 .. counter - 1 : buffer_array[i] = old.sensValue[i]
<1> DEFINE old == ringbuffer[Source]
           new == ringbuffer'[Source]
<1>0. /\ Source \in Buffers /\ old \in Handle /\ old.writeIndex = 0
      /\ FullShape(Source) /\ is_full(old) /\ old.readIndex \in Index
      /\ old.readIndex # 0 => pc = "drain"
      /\ ringbuffer \in [Buffers -> Handle] /\ CopyShape
  BY SourceShape DEF ReadOne, CoapInv, TypeOK, WriterTypeOK, Handle, Full
<1>1. new = read_from_buffer(old) /\ Source' = Source
  BY <1>0 DEF ReadOne, Source
<1>2. /\ new \in Handle /\ new.timestamp = old.timestamp
      /\ new.writeIndex = 0 /\ new.sensValue = old.sensValue
      /\ is_full(new) <=> old.readIndex # Size - 1
      /\ new.readIndex = IF is_full(new) THEN old.readIndex + 1 ELSE 0
  BY <1>0, <1>1, DrainOne
<1>3. counter = old.readIndex
      /\ \A i \in 0 .. counter - 1 : buffer_array[i] = old.sensValue[i]
  <2>1. CASE pc = "check"
    BY <1>0, <2>1 DEF CopyShape
  <2>2. CASE pc = "drain"
    BY <1>0, <2>2 DEF CopyShape, Full
  <2> QED  BY <2>1, <2>2 DEF ReadOne
<1>4. old.sensValue \in [Index -> Sample] /\ GapFree(old.sensValue, 0, Size)
  BY <1>0 DEF FullShape
<1> HIDE DEF old, new
<1>5. counter' = IF is_full(new) THEN new.readIndex ELSE Size
  BY <1>0, <1>2, <1>3, SizeAssumption DEF ReadOne, Index
<1>6. new.readIndex # 0 => is_full(new)
  BY <1>2
<1> QED  BY <1>0, <1>1, <1>2, <1>3, <1>4, <1>5, <1>6 DEF old, new

LEMMA TaskKeepsType ==
  ASSUME CoapInv, SendStep
  PROVE  TypeOK'
<1>0. /\ TypeOK /\ WriterTypeOK /\ Source \in Buffers
      /\ mutex \in [Buffers -> {"free", "isr", "task"}]
      /\ ringbuffer \in [Buffers -> Handle]
      /\ buffer_array \in [Index -> Sample]
      /\ 0 \in 0 .. Size
  BY TargetAndSource, SizeAssumption DEF CoapInv, TypeOK, WriterTypeOK, Handle
<1>1. CASE NewMessage
  BY <1>0, <1>1 DEF NewMessage, TypeOK, WriterTypeOK, writerVars
<1>2. CASE TakeMutex
  <2>1. WriterTypeOK'
    BY <1>0, <1>2 DEF TakeMutex, Take, WriterTypeOK
  <2> QED  BY <1>0, <1>2, <2>1 DEF TakeMutex, TypeOK
<1>3. CASE ReadOne
  <2>1. ringbuffer' \in [Buffers -> Handle]
    BY <1>0, <1>3, OneRead DEF ReadOne
  <2>2. WriterTypeOK'
    BY <1>0, <1>3, <2>1 DEF ReadOne, WriterTypeOK, Handle
  <2>3. counter' \in 0 .. Size
    <3>1. counter \in Index /\ counter' = counter + 1
      BY <1>3, OneRead DEF ReadOne
    <3> QED  BY <3>1, SizeAssumption DEF Index
  <2>4. ReadValue(ringbuffer[Source]) \in Sample
    <3>1. ringbuffer[Source].readIndex \in Index /\ ringbuffer[Source].sensValue \in [Index -> Sample]
      BY <1>3, OneRead
    <3> QED  BY <3>1 DEF ReadValue
  <2>5. buffer_array' \in [Index -> Sample]
    BY <1>0, <1>3, <2>4 DEF ReadOne
  <2> QED  BY <1>0, <1>3, <2>2, <2>3, <2>5 DEF ReadOne, TypeOK
<1>4. CASE Leave
  <2>1. WriterTypeOK'
    BY <1>0, <1>4 DEF Leave, Give, WriterTypeOK
  <2> QED  BY <1>0, <1>4, <2>1 DEF Leave, TypeOK
<1>5. CASE AddData
  BY <1>0, <1>5 DEF AddData, TypeOK, WriterTypeOK, writerVars
<1>6. CASE Send
  BY <1>0, <1>6 DEF Send, TypeOK, WriterTypeOK, writerVars
<1> QED  BY <1>1, <1>2, <1>3, <1>4, <1>5, <1>6 DEF SendStep

LEMMA TaskKeepsOwnership ==
  ASSUME CoapInv, SendStep
  PROVE  IsrOwnership' /\ Ownership'
<1>0. /\ Ownership /\ IsrOwnership /\ Source \in Buffers /\ Target \in Buffers
      /\ mutex \in [Buffers -> {"free", "isr", "task"}]
  BY TargetAndSource DEF CoapInv, WriterInv, TypeOK, WriterTypeOK
<1>1. UNCHANGED <<MutexHolder, isr, Target>>
  BY DEF SendStep, NewMessage, TakeMutex, ReadOne, Leave, AddData, Send, writerVars, Target
<1> USE <1>0, <1>1 DEF Ownership, IsrOwnership, TaskInside
<1>2. CASE TakeMutex
  BY <1>2 DEF TakeMutex, Take, Source
<1>3. CASE ReadOne
  BY <1>3 DEF ReadOne, Source
<1>4. CASE Leave
  BY <1>4 DEF Leave, Give
<1>5. CASE NewMessage \/ AddData \/ Send
  BY <1>5 DEF NewMessage, AddData, Send, writerVars, Source
<1> QED  BY <1>2, <1>3, <1>4, <1>5 DEF SendStep

(* The task moves the read index of its buffer alone, and leaves the       *)
(* buffer full or empty.                                                   *)
LEMMA TaskKeepsShape ==
  ASSUME CoapInv, SendStep
  PROVE  ReadShape' /\ \A b \in Buffers : FillShape(b)'
<1>0. /\ ReadShape /\ Ownership /\ Source \in Buffers
      /\ \A b \in Buffers : FillShape(b)
      /\ mutex \in [Buffers -> {"free", "isr", "task"}]
      /\ ringbuffer \in [Buffers -> Handle]
  BY TargetAndSource DEF CoapInv, WriterInv, TypeOK, WriterTypeOK, Handle
<1>1. UNCHANGED <<isr, testVar>>
  BY DEF SendStep, NewMessage, TakeMutex, ReadOne, Leave, AddData, Send, writerVars
<1> SUFFICES ASSUME NEW b \in Buffers
             PROVE  /\ FillShape(b)'
                    /\ (ringbuffer[b].readIndex # 0 => pc = "drain" /\ Full(b))'
  BY DEF ReadShape
<1>2. CASE b = Source /\ ReadOne
  <2>1. mutex[b] = "task" /\ mutex'[b] = "task" /\ pc' = "drain"
    BY <1>2, SourceShape DEF ReadOne
  <2>2. /\ ringbuffer'[b] \in Handle /\ ringbuffer'[b].writeIndex = 0
        /\ ringbuffer'[b].readIndex # 0 => is_full(ringbuffer'[b])
        /\ FullShape(b)'
    BY <1>2, OneRead, SourceShape DEF ReadOne, FullShape
  <2> QED  BY <2>1, <2>2 DEF FillShape, IndexShape, Full
<1>3. CASE b = Source /\ Leave
  <2>1. mutex'[b] = "free" /\ UNCHANGED ringbuffer /\ ~is_full(ringbuffer[b])
    BY <1>0, <1>3 DEF Leave, Give, Full
  <2>2. ringbuffer[b].writeIndex = 0 /\ ringbuffer[b].readIndex = 0
    BY <1>3, <2>1, SourceShape DEF Leave, Full
  <2> QED  BY <2>1, <2>2 DEF FillShape, FullShape, IndexShape
<1>4. CASE b = Source /\ TakeMutex
  <2>1. /\ mutex[b] = "free" /\ mutex'[b] = "task" /\ UNCHANGED ringbuffer
        /\ pc = "take" /\ FillShape(b)
    BY <1>0, <1>4 DEF TakeMutex, Take
  <2>2. ringbuffer[b].writeIndex = 0 /\ ringbuffer[b].readIndex = 0
    BY <1>0, <2>1 DEF FillShape, IndexShape, ReadShape
  <2> QED  BY <2>1, <2>2 DEF FillShape, FullShape, IndexShape
<1>5. CASE NewMessage \/ AddData \/ Send
  <2>1. UNCHANGED <<mutex, ringbuffer>> /\ pc # "drain"
    BY <1>5 DEF NewMessage, AddData, Send, writerVars
  <2> QED  BY <1>0, <1>1, <2>1 DEF ReadShape, FillShape, FullShape, IndexShape, PartShape
<1>6. CASE b # Source /\ (ReadOne \/ Leave \/ TakeMutex)
  <2>1. mutex'[b] = mutex[b] /\ ringbuffer'[b] = ringbuffer[b]
    BY <1>0, <1>6 DEF TakeMutex, ReadOne, Leave, Take, Give
  <2>2. mutex[b] # "task" /\ ringbuffer[b].readIndex = 0
    BY <1>0, <1>6 DEF Ownership, TaskInside, FillShape, IndexShape
  <2> QED  BY <1>0, <1>1, <2>1, <2>2 DEF FillShape, FullShape, IndexShape, PartShape
<1> QED  BY <1>2, <1>3, <1>4, <1>5, <1>6 DEF SendStep

(* The array is overwritten from the front, value by value, until it is    *)
(* the whole chunk.                                                        *)
LEMMA TaskKeepsCopy ==
  ASSUME CoapInv, SendStep
  PROVE  CopyShape'
<1>0. /\ CopyShape /\ Source \in Buffers
      /\ buffer_array \in [Index -> Sample]
      /\ ringbuffer \in [Buffers -> Handle]
  BY TargetAndSource DEF CoapInv, TypeOK, WriterTypeOK, Handle
<1>1. CASE ReadOne
  <2> DEFINE values == ringbuffer[Source].sensValue
  <2>1. /\ Source' = Source /\ ringbuffer'[Source].sensValue = values
        /\ values \in [Index -> Sample] /\ GapFree(values, 0, Size)
        /\ counter = ringbuffer[Source].readIndex /\ counter \in Index
        /\ counter' = IF is_full(ringbuffer'[Source])
                        THEN ringbuffer'[Source].readIndex ELSE Size
        /\ \A i \in 0 .. counter - 1 : buffer_array[i] = values[i]
    BY <1>1, OneRead
  <2>2. /\ counter' = counter + 1 /\ pc' = "drain"
        /\ buffer_array' = [buffer_array EXCEPT ![counter] = values[counter]]
    BY <1>1, <2>1 DEF ReadOne, ReadValue
  <2> HIDE DEF values
  <2>3. \A i \in 0 .. counter : buffer_array'[i] = values[i]
    <3> TAKE i \in 0 .. counter
    <3>1. i \in Index /\ (i = counter \/ i \in 0 .. counter - 1)
      BY <2>1, SizeAssumption DEF Index
    <3> QED  BY <1>0, <2>1, <2>2, <3>1
  <2>4. \A i \in 0 .. counter' - 1 : buffer_array'[i] = values[i]
    BY <2>1, <2>2, <2>3 DEF Index
  <2> QED  BY <2>1, <2>2, <2>4 DEF CopyShape, Full, values
<1>2. CASE Leave
  <2>1. pc' = "data" /\ UNCHANGED buffer_array
    BY <1>2 DEF Leave
  <2>2. CASE pc = "check"
    BY <1>0, <2>1, <2>2 DEF CopyShape, Whole
  <2>3. CASE pc = "drain"
    <3> DEFINE values == ringbuffer[Source].sensValue
    <3>1. GapFree(values, 0, Size) /\ \A i \in 0 .. Size - 1 : buffer_array[i] = values[i]
      BY <1>0, <1>2, <2>3 DEF Leave, CopyShape
    <3> HIDE DEF values
    <3>2. GapFree(buffer_array, 0, Size)
      <4> SUFFICES ASSUME NEW i \in 0 .. 0 + Size - 2
                   PROVE  buffer_array[i + 1] = NextSample(buffer_array[i])
        BY DEF GapFree
      <4>1. i \in 0 .. Size - 1 /\ i + 1 \in 0 .. Size - 1
        BY SizeAssumption
      <4> QED  BY <3>1, <4>1 DEF GapFree
    <3> QED  BY <2>1, <3>2 DEF CopyShape, Whole
  <2> QED  BY <1>2, <2>2, <2>3 DEF Leave
<1>3. CASE TakeMutex
  <2>1. pc = "take" /\ pc' = "check" /\ UNCHANGED <<counter, buffer_array>>
    BY <1>3 DEF TakeMutex
  <2> QED  BY <1>0, <2>1 DEF CopyShape, Whole
<1>4. CASE NewMessage
  <2>1. pc = "message" /\ pc' = "take" /\ counter' = 0 /\ UNCHANGED buffer_array
    BY <1>4 DEF NewMessage
  <2> QED  BY <1>0, <2>1 DEF CopyShape, Whole
<1>5. CASE AddData \/ Send
  <2>1. pc \in {"data", "send"} /\ pc' \in {"send", "message"} /\ UNCHANGED buffer_array
    BY <1>5 DEF AddData, Send
  <2> QED  BY <1>0, <2>1 DEF CopyShape, Whole
<1> QED  BY <1>1, <1>2, <1>3, <1>4, <1>5 DEF SendStep

(* A message gets its option and then its data, or stays without them.     *)
LEMMA TaskKeepsMessage ==
  ASSUME CoapInv, SendStep
  PROVE  MessageShape'
<1>0. MessageShape /\ buffer_array \in [Index -> Sample]
  BY DEF CoapInv, TypeOK
<1>1. CASE NewMessage
  <2>1. /\ Sound(coap_message)' /\ coap_message'.used_size = OptionSize
        /\ coap_message'.data = NoData /\ pc' = "take"
    BY <1>1, OptionAdded DEF NewMessage
  <2>2. PayloadSize(coap_message') = 0
    BY <2>1 DEF PayloadSize
  <2> QED  BY <2>1, <2>2, OptionIsTwoBytes DEF MessageShape
<1>2. CASE AddData
  <2>1. /\ Sound(coap_message) /\ coap_message.data = NoData
        /\ coap_message.used_size = OptionSize + PayloadSize(coap_message)
    BY <1>0, <1>2 DEF AddData, MessageShape
  <2>2. coap_message.used_size = OptionSize
    BY <2>1, OptionIsTwoBytes DEF PayloadSize
  <2>3. /\ coap_message' = coap_add_data(coap_message, Size * WordBytes, buffer_array)
        /\ pc' = "send"
    BY <1>2 DEF AddData
  <2>4. Sound(coap_message') /\ coap_message'.used_size = OptionSize + PayloadSize(coap_message')
    BY <1>0, <2>1, <2>2, <2>3, DataAdded
  <2> QED  BY <2>3, <2>4 DEF MessageShape
<1>3. CASE TakeMutex \/ ReadOne \/ Leave \/ Send
  <2>1. /\ UNCHANGED coap_message /\ pc # "message"
        /\ pc' \in {"check", "drain", "data"} => pc \in {"take", "check", "drain"}
        /\ pc' # "take"
    BY <1>3 DEF TakeMutex, ReadOne, Leave, Send
  <2> QED  BY <1>0, <2>1 DEF MessageShape
<1> QED  BY <1>1, <1>2, <1>3 DEF SendStep

-----------------------------------------------------------------------------
(* The theorems.                                                           *)

(* CoapInv holds in every state of the CoAP variant.                       *)
THEOREM CoapInvariance == Spec => []CoapInv
<1>1. CoapInv /\ [Next]_vars => CoapInv'
  <2> SUFFICES ASSUME CoapInv, [Next]_vars PROVE CoapInv'
    OBVIOUS
  <2>1. CASE WriteStep /\ UNCHANGED senderVars
    BY <2>1, WriterPreservesCoapInv
  <2>2. CASE SendStep
    BY <2>2, TaskKeepsType, TaskKeepsOwnership, TaskKeepsShape, TaskKeepsCopy,
       TaskKeepsMessage DEF CoapInv, WriterInv, TypeOK
  <2>3. CASE UNCHANGED vars
    BY <2>3 DEF CoapInv, TypeOK, WriterInv, WriterTypeOK, IsrOwnership, FillShape,
                FullShape, IndexShape, PartShape, Ownership, TaskInside, ReadShape, Full,
                CopyShape, Whole, MessageShape, Sound, PayloadSize, Source, Target,
                vars, writerVars, senderVars
  <2> QED  BY <2>1, <2>2, <2>3 DEF Next
<1> QED  BY <1>1, InitEstablishesCoapInv, PTL DEF Spec

(* Every variable keeps its type; the array has a cell for every value     *)
(* that is read.                                                           *)
THEOREM CoapTypeCorrectness == Spec => []TypeOK
BY CoapInvariance, PTL DEF CoapInv

(* The callback and the CoAP task are never in the same buffer, and the    *)
(* array is never written behind its end.                                  *)
THEOREM CoapExclusion == Spec => []MutualExclusion
<1>1. ASSUME CoapInv, NEW b \in Buffers
      PROVE  /\ ~(IsrInside(b) /\ TaskInside(b))
             /\ TaskInside(b) => mutex[b] = "task"
  BY <1>1 DEF CoapInv, WriterInv, IsrOwnership, Ownership, IsrInside
<1>2. ASSUME CoapInv, NEW b \in Buffers, TaskInside(b), Full(b) PROVE counter < Size
  <2>1. b = Source /\ pc \in {"check", "drain"} /\ CopyShape
        /\ ringbuffer[b].readIndex \in Index
    BY <1>2, SourceShape DEF TaskInside, CoapInv
  <2>2. counter \in Index
    BY <1>2, <2>1, SizeAssumption DEF CopyShape, Index
  <2> QED  BY <2>2, SizeAssumption DEF Index
<1>3. CoapInv => MutualExclusion
  BY <1>1, <1>2 DEF MutualExclusion
<1> QED  BY <1>3, CoapInvariance, PTL

(* The array handed to libcoap is untouched or one whole gap-free chunk.   *)
THEOREM WholeArrays == Spec => []ArrayWhole
<1>1. CoapInv => ArrayWhole
  <2> SUFFICES ASSUME CoapInv, pc # "drain", ~(\A i \in Index : buffer_array[i] = 0),
                      NEW i \in 0 .. Size - 2
               PROVE  buffer_array[i + 1] = NextSample(buffer_array[i])
    BY DEF ArrayWhole
  <2>1. GapFree(buffer_array, 0, Size)
    BY DEF CoapInv, CopyShape, Whole
  <2>2. i \in 0 .. 0 + Size - 2
    BY SizeAssumption
  <2> QED  BY <2>1, <2>2 DEF GapFree
<1> QED  BY <1>1, CoapInvariance, PTL

(* A message stays within what was allocated for it and within the limit   *)
(* of the session, and carries all of its payload or nothing of it.        *)
THEOREM SoundMessages == Spec => []MessageSound
<1>1. CoapInv => MessageSound
  BY DEF CoapInv, MessageShape, Sound, MessageSound
<1> QED  BY <1>1, CoapInvariance, PTL

-----------------------------------------------------------------------------
(* The CoAP variant implements the double buffer.                          *)

(* A step at one buffer moves one slot, or none.                           *)
LEMMA SlotMove ==
  ASSUME NEW b \in Buffers, \A c \in Buffers : c # b => Slot(c)' = Slot(c)
  PROVE  /\ Slots' = [Slots EXCEPT ![b] = Slot(b)']
         /\ Slots[b] = Slot(b)
         /\ Slot(b)' = Slot(b) => Slots' = Slots
BY DEF Slots

(* The callback fills as it does beside send_task_udp.                     *)
LEMMA WriterRefines ==
  ASSUME CoapInv, WriteStep, UNCHANGED senderVars, NEW b \in Buffers, b = Target
  PROVE  [Exchange!Next]_<<Slots, Target>>
<1>0. WriterInv /\ pc' = pc
  BY DEF CoapInv, senderVars
<1>1. /\ \A c \in Buffers : c # b => Slot(c)' = Slot(c)
      /\ \/ Slot(b)' = Slot(b) /\ Target' = Target
         \/ Slot(b) = "empty" /\ Slot(b)' = "filling" /\ Target' = Target
         \/ Slot(b) = "filling" /\ Slot(b)' = "full" /\ Target' = 3 - Target
  <2>1. CASE pc = "drain"
    BY <1>0, <2>1, WriterMovesSlot DEF Slot
  <2>2. CASE pc # "drain"
    BY <1>0, <2>2, WriterMovesSlot DEF Slot
  <2> QED  BY <2>1, <2>2
<1>2. /\ Slots' = [Slots EXCEPT ![b] = Slot(b)'] /\ Slots[b] = Slot(b)
      /\ Slot(b)' = Slot(b) => Slots' = Slots
  BY <1>1, SlotMove
<1>3. CASE Slot(b)' = Slot(b) /\ Target' = Target
  BY <1>2, <1>3
<1>4. CASE Slot(b) = "empty" /\ Slot(b)' = "filling" /\ Target' = Target
  <2>1. Exchange!BeginFill
    BY <1>2, <1>4 DEF Exchange!BeginFill, Exchange!Move
  <2> QED  BY <2>1 DEF Exchange!Next
<1>5. CASE Slot(b) = "filling" /\ Slot(b)' = "full" /\ Target' = 3 - Target
  <2>1. Exchange!EndFill
    BY <1>2, <1>5 DEF Exchange!EndFill, Exchange!Move
  <2> QED  BY <2>1 DEF Exchange!Next
<1> QED  BY <1>1, <1>3, <1>4, <1>5

(* The task begins to drain with the first value it reads and ends when it *)
(* gives the buffer back.                                                  *)
LEMMA TaskRefines ==
  ASSUME CoapInv, SendStep, NEW b \in Buffers, b = Source
  PROVE  [Exchange!Next]_<<Slots, Target>>
<1>0. /\ Ownership /\ ringbuffer \in [Buffers -> Handle]
      /\ mutex \in [Buffers -> {"free", "isr", "task"}]
  BY DEF CoapInv, TypeOK, WriterTypeOK, Handle
<1>1. UNCHANGED <<isr, Target>>
  BY DEF SendStep, NewMessage, TakeMutex, ReadOne, Leave, AddData, Send, writerVars, Target
<1>2. \A c \in Buffers : c # b => mutex[c] # "task" /\ Slot(c)' = Slot(c)
  <2> SUFFICES ASSUME NEW c \in Buffers, c # b
               PROVE  mutex[c] # "task" /\ Slot(c)' = Slot(c)
    OBVIOUS
  <2>1. mutex[c] # "task"
    BY <1>0 DEF Ownership, TaskInside
  <2>2. mutex'[c] = mutex[c] /\ ringbuffer'[c] = ringbuffer[c]
    BY <1>0 DEF SendStep, NewMessage, TakeMutex, ReadOne, Leave, AddData, Send,
                writerVars, Take, Give
  <2> QED  BY <1>1, <2>1, <2>2 DEF Slot, SlotOf
<1>3. /\ Slots' = [Slots EXCEPT ![b] = Slot(b)'] /\ Slots[b] = Slot(b)
      /\ Slot(b)' = Slot(b) => Slots' = Slots
  BY <1>2, SlotMove
<1>4. CASE TakeMutex
  <2>1. mutex[b] = "free" /\ mutex'[b] = "task" /\ pc' = "check" /\ UNCHANGED ringbuffer
    BY <1>0, <1>4 DEF TakeMutex, Take
  <2>2. Slot(b)' = Slot(b)
    BY <2>1 DEF Slot, SlotOf
  <2> QED  BY <1>1, <1>3, <2>2
<1>5. CASE ReadOne
  <2>1. /\ mutex[b] = "task" /\ is_full(ringbuffer[b]) /\ pc' = "drain"
        /\ pc \in {"check", "drain"} /\ UNCHANGED mutex
    BY <1>5, SourceShape DEF ReadOne, Full
  <2>2. Slot(b)' = "draining"
    BY <2>1 DEF Slot, SlotOf
  <2>3. CASE pc = "drain"
    <3>1. Slot(b)' = Slot(b)
      BY <2>1, <2>2, <2>3 DEF Slot, SlotOf
    <3> QED  BY <1>1, <1>3, <3>1
  <2>4. CASE pc = "check"
    <3>1. Slot(b) = "full"
      BY <2>1, <2>4 DEF Slot, SlotOf
    <3>2. \A c \in Buffers : Slots[c] # "draining"
      BY <1>2, <3>1 DEF Slots, Slot, SlotOf
    <3>3. Exchange!BeginDrain(b)
      BY <1>1, <1>3, <2>2, <3>1, <3>2
         DEF Exchange!BeginDrain, Exchange!Move, Exchange!Buffers, Buffers
    <3> QED  BY <3>3 DEF Exchange!Next, Exchange!Buffers, Buffers
  <2> QED  BY <2>1, <2>3, <2>4
<1>6. CASE Leave
  <2>1. mutex[b] = "task" /\ mutex'[b] = "free" /\ ~is_full(ringbuffer[b])
        /\ UNCHANGED ringbuffer /\ pc \in {"check", "drain"}
    BY <1>0, <1>6, SourceShape DEF Leave, Give, Full
  <2>2. Slot(b)' = "empty"
    BY <2>1 DEF Slot, SlotOf
  <2>3. CASE pc = "check"
    BY <1>1, <1>3, <2>1, <2>2, <2>3 DEF Slot, SlotOf
  <2>4. CASE pc = "drain"
    <3>1. Slot(b) = "draining"
      BY <2>1, <2>4 DEF Slot, SlotOf
    <3>2. Exchange!EndDrain(b)
      BY <1>1, <1>3, <2>2, <3>1 DEF Exchange!EndDrain, Exchange!Move
    <3> QED  BY <3>2 DEF Exchange!Next, Exchange!Buffers, Buffers
  <2> QED  BY <2>1, <2>3, <2>4
<1>7. CASE NewMessage \/ AddData \/ Send
  <2>1. UNCHANGED <<mutex, ringbuffer>> /\ pc # "drain" /\ pc' # "drain"
    BY <1>7 DEF NewMessage, AddData, Send, writerVars
  <2>2. Slot(b)' = Slot(b)
    BY <1>1, <2>1 DEF Slot, SlotOf
  <2> QED  BY <1>1, <1>3, <2>2
<1> QED  BY <1>4, <1>5, <1>6, <1>7 DEF SendStep

(* Every behaviour of the CoAP variant is one of the double buffer, too.   *)
THEOREM CoapDoubleBuffering == Spec => ImplementsDoubleBuffer
<1>1. Init => Exchange!Init
  <2> SUFFICES ASSUME Init PROVE Exchange!Init
    OBVIOUS
  <2>1. \A b \in Buffers : Slot(b) = "empty"
    BY InitBuffer DEF Init, WriterInit, Slot, SlotOf
  <2>2. Target = 1
    BY DEF Init, WriterInit, Target, Other
  <2> QED  BY <2>1, <2>2 DEF Exchange!Init, Exchange!Buffers, Buffers, Slots
<1>2. ASSUME CoapInv, [Next]_vars PROVE [Exchange!Next]_<<Slots, Target>>
  <2>0. Target \in Buffers /\ Source \in Buffers
    BY <1>2, TargetAndSource DEF CoapInv
  <2>1. CASE WriteStep /\ UNCHANGED senderVars
    BY <1>2, <2>0, <2>1, WriterRefines
  <2>2. CASE SendStep
    BY <1>2, <2>0, <2>2, TaskRefines
  <2>3. CASE UNCHANGED vars
    BY <2>3 DEF vars, writerVars, senderVars, Slots, Slot, SlotOf, Target
  <2> QED  BY <1>2, <2>1, <2>2, <2>3 DEF Next
<1> QED  BY <1>1, <1>2, CoapInvariance, PTL DEF Spec, ImplementsDoubleBuffer, Exchange!Spec
=============================================================================
