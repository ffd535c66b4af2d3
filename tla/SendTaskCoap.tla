----------------------------- MODULE SendTaskCoap ---------------------------
(***************************************************************************)
(* send_task_coap of main/main.c beside write_task: the CoAP variant of    *)
(* the sender, which app_main does not start.  It takes the buffers in     *)
(* turn, the second one first, sends the array after every visit, whatever *)
(* it found, and keeps no pause.                                           *)
(***************************************************************************)
EXTENDS WriteTask, CoapPdu, Sequences

CONSTANT WordBytes   \* sizeof(uint32_t)

ASSUME WordBytesAssumption == WordBytes \in Nat \ {0}

(* A message has room for its header, four bytes, and the one option that  *)
(* send_task_coap adds, two bytes: COAP_DEFAULT_MTU is 1152.               *)
ASSUME MtuAssumption == Mtu >= 6

VARIABLES
  pc,               \* "message", "take", "check", "drain", "data", "send"
  lastBufferRead,
  counter,          \* next free cell of buffer_array
  buffer_array,
  coap_message,     \* the message under construction
  report            \* what the log says of the last coap_send, and its message

senderVars == <<pc, lastBufferRead, counter, buffer_array, coap_message, report>>
vars == <<writerVars, senderVars>>

Source == Other(lastBufferRead)
Full(b) == is_full(ringbuffer[b])

COAP_OPTION_CONTENT_TYPE == 12
ContentTypeLength == 1

SenderInit ==
  /\ pc = "message"
  /\ lastBufferRead = 1
  /\ counter = 0
  /\ buffer_array = [i \in Index |-> 0]
  /\ coap_message = coap_new_pdu
  /\ report = [said |-> "nothing", message |-> coap_new_pdu]

Init == WriterInit /\ SenderInit

(* Mutated form: the counter of the array not reset.                       *)
message_without_reset ==
  /\ pc = "message"
  /\ coap_message' = coap_add_option(coap_new_pdu, COAP_OPTION_CONTENT_TYPE, ContentTypeLength)
  /\ pc' = "take"
  /\ UNCHANGED <<writerVars, lastBufferRead, counter, buffer_array, report>>

NewMessage ==
  /\ pc = "message"
  /\ counter' = 0
  /\ coap_message' = coap_add_option(coap_new_pdu, COAP_OPTION_CONTENT_TYPE, ContentTypeLength)
  /\ pc' = "take"
  /\ UNCHANGED <<writerVars, lastBufferRead, buffer_array, report>>

TakeMutex ==
  /\ pc = "take"
  /\ Take(Source, "task")
  /\ pc' = "check"
  /\ UNCHANGED <<testVar, lastBufferWritten, MutexHolder, ringbuffer, now, isr,
                 lastBufferRead, counter, buffer_array, coap_message, report>>

ReadOne ==
  /\ pc \in {"check", "drain"}
  /\ Full(Source)
  /\ buffer_array' = [buffer_array EXCEPT ![counter] = ReadValue(ringbuffer[Source])]
  /\ counter' = counter + 1
  /\ ringbuffer' = [ringbuffer EXCEPT ![Source] = read_from_buffer(@)]
  /\ pc' = "drain"
  /\ UNCHANGED <<testVar, lastBufferWritten, MutexHolder, mutex, now, isr,
                 lastBufferRead, coap_message, report>>

(* Mutated form: a buffer that was not full not given back.                *)
leave_without_give ==
  /\ pc \in {"check", "drain"}
  /\ ~Full(Source)
  /\ IF pc = "drain" THEN Give(Source) ELSE UNCHANGED mutex
  /\ lastBufferRead' = Source
  /\ pc' = "data"
  /\ UNCHANGED <<testVar, lastBufferWritten, MutexHolder, ringbuffer, now, isr,
                 counter, buffer_array, coap_message, report>>

Leave ==
  /\ pc \in {"check", "drain"}
  /\ ~Full(Source)
  /\ Give(Source)
  /\ lastBufferRead' = Source
  /\ pc' = "data"
  /\ UNCHANGED <<testVar, lastBufferWritten, MutexHolder, ringbuffer, now, isr,
                 counter, buffer_array, coap_message, report>>

AddData ==
  /\ pc = "data"
  /\ coap_message' = coap_add_data(coap_message, Size * WordBytes, buffer_array)
  /\ pc' = "send"
  /\ UNCHANGED <<writerVars, lastBufferRead, counter, buffer_array, report>>

(* coap_send hands a message that asks for no acknowledgement to the       *)
(* socket and forgets it, or returns COAP_INVALID_MID.                     *)
Send ==
  /\ pc = "send"
  /\ \E said \in {"Send Successfull!", "Send Failed!"} :
       report' = [said |-> said, message |-> coap_message]
  /\ pc' = "message"
  /\ UNCHANGED <<writerVars, lastBufferRead, counter, buffer_array, coap_message>>

SendStep == NewMessage \/ TakeMutex \/ ReadOne \/ Leave \/ AddData \/ Send

Next == (WriteStep /\ UNCHANGED senderVars) \/ SendStep

Spec == Init /\ [][Next]_vars

(* As for send_task_udp: the timer keeps firing, the task keeps running,   *)
(* and it alone waits for a mutex that the callback keeps giving.          *)
FairSpec ==
  /\ Spec
  /\ WF_vars(WriteStep /\ UNCHANGED senderVars)
  /\ SF_vars(TakeMutex)
  /\ WF_vars(SendStep)

-----------------------------------------------------------------------------
TypeOK ==
  /\ WriterTypeOK
  /\ pc \in {"message", "take", "check", "drain", "data", "send"}
  /\ lastBufferRead \in Buffers
  /\ counter \in 0 .. Size
  /\ buffer_array \in [Index -> Sample]

TaskInside(b) == b = Source /\ pc \in {"check", "drain"}

(* The callback and this task never work on the same buffer at once, and   *)
(* the array always has room for the value that is read next.              *)
MutualExclusion ==
  /\ \A b \in Buffers :
       /\ ~(IsrInside(b) /\ TaskInside(b))
       /\ TaskInside(b) => mutex[b] = "task"
  /\ \A b \in Buffers : TaskInside(b) /\ Full(b) => counter < Size

(* The array handed to libcoap is untouched or one whole gap-free chunk,   *)
(* if perhaps the one of an earlier round: no visit leaves it half filled. *)
ArrayWhole ==
  pc \in {"message", "take", "data", "send"} =>
    \/ \A i \in Index : buffer_array[i] = 0
    \/ \A i \in 0 .. Size - 2 : buffer_array[i + 1] = NextSample(buffer_array[i])

OptionSize == coap_opt_encode_size(COAP_OPTION_CONTENT_TYPE, ContentTypeLength)
PayloadSize(pdu) == IF pdu.data = NoData THEN 0 ELSE 1 + Size * WordBytes

(* The message never outgrows what was allocated, nor the session's limit, *)
(* and consists of the option and, if it has data, the marker and all of   *)
(* the payload: a payload that does not fit leaves nothing behind.         *)
MessageSound ==
  /\ coap_message.used_size <= coap_message.alloc_size
  /\ coap_message.alloc_size <= coap_message.max_size
  /\ pc \in {"data", "send"} =>
       coap_message.used_size = OptionSize + PayloadSize(coap_message)

(* Every full buffer is drained in the end.                                *)
EveryChunkDrained == \A b \in Buffers : Full(b) ~> ~Full(b)

(* Although the task begins at the buffer that is filled second and does   *)
(* not wait for a full one, the two buffers change hands as the slots of   *)
(* a double buffer do.                                                     *)
Slot(b) == SlotOf(b, pc = "drain")

Slots == [b \in Buffers |-> Slot(b)]

Exchange == INSTANCE DoubleBuffer WITH slot <- Slots, turn <- Target

ImplementsDoubleBuffer == Exchange!Spec

(* "Copy Ringbuffer to Array and send Array via CoAP to Local Server",     *)
(* says the comment on send_task_coap (main.c:138): a message reported as  *)
(* sent carries an array.                                                  *)
SentWithArray ==
  report.said = "Send Successfull!" => report.message.data # NoData

-----------------------------------------------------------------------------
(* The inductive invariant behind the safety properties above.             *)

(* As in send_task_udp, the task has the mutex of the buffer it is in and  *)
(* moves a read index only while it drains.                                *)
Ownership == \A b \in Buffers : mutex[b] = "task" <=> TaskInside(b)
ReadShape ==
  \A b \in Buffers : ringbuffer[b].readIndex # 0 => pc = "drain" /\ Full(b)

(* The array is whole but while it is overwritten from the front with a    *)
(* whole chunk; counter says how far.                                      *)
Whole(a) == (\A i \in Index : a[i] = 0) \/ GapFree(a, 0, Size)

CopyShape ==
  LET values == ringbuffer[Source].sensValue IN
  /\ pc \in {"take", "check"} => counter = 0
  /\ pc # "drain" => Whole(buffer_array)
  /\ pc = "drain" =>
       /\ counter = IF Full(Source) THEN ringbuffer[Source].readIndex ELSE Size
       /\ values \in [Index -> Sample] /\ GapFree(values, 0, Size)
       /\ \A i \in 0 .. counter - 1 : buffer_array[i] = values[i]

(* A message is within its limits.                                         *)
Pdu == [max_size : Nat, alloc_size : Nat, used_size : Nat, max_opt : Nat,
        data : Seq([Index -> Sample])]

Sound(pdu) ==
  /\ pdu \in Pdu
  /\ pdu.used_size <= pdu.alloc_size
  /\ pdu.alloc_size <= pdu.max_size

(* It has its option from NewMessage on, its data from AddData on if there *)
(* was room for it.                                                        *)
MessageShape ==
  /\ Sound(coap_message)
  /\ pc # "message" => coap_message.used_size = OptionSize + PayloadSize(coap_message)
  /\ pc \in {"take", "check", "drain", "data"} => coap_message.data = NoData

CoapInv ==
  /\ TypeOK
  /\ WriterInv
  /\ Ownership
  /\ ReadShape
  /\ CopyShape
  /\ MessageShape
=============================================================================
