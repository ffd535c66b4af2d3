----------------------------- MODULE SendTaskUdp ----------------------------
(***************************************************************************)
(* The running measurement of main/main.c: send_task_udp, which drains the *)
(* two ring buffers in turn into one datagram, beside write_task, which    *)
(* fills them (module WriteTask).  The task has no core of its own, so its *)
(* steps and the callback's interleave freely; only the two mutexes order  *)
(* them.  Variable pc names the task's next step.                          *)
(***************************************************************************)
EXTENDS WriteTask

CONSTANTS
  sensorID,         \* assigned by the server at registration
  measuringStart,   \* the clock when the start signal came, mod WordRange
  startDelay,       \* periods between the start signal and the first alarm
  SendGap           \* the 50000 us of the test before sendto

ASSUME SensorIdAssumption == sensorID \in Nat
ASSUME MeasuringStartAssumption == measuringStart \in Time
ASSUME StartDelayAssumption == startDelay \in Nat
ASSUME SendGapAssumption == SendGap \in Nat

VARIABLES
  pc,               \* "take", "check", "drain", "gap", "send"
  lastBufferRead,   \* 1 or 2: the buffer visited last
  counter,          \* next free cell of buffer_array
  buffer_array,     \* the datagram under construction
  endSend           \* the clock after the last sendto

senderVars == <<pc, lastBufferRead, counter, buffer_array, endSend>>
vars == <<writerVars, senderVars>>

(* Two chunks, each behind the sensor's ID and its timestamp.              *)
ArrayLength == Size * 2 + 4
Cells == 0 .. ArrayLength - 1

(* A word in network byte order is not the number the host counts with:    *)
(* it is kept apart from it.                                               *)
htonl(word) == [net |-> word]

(* The difference of two timevals, cut to 32 bits.                         *)
get_timediff_us(endTime, startTime) == (endTime - startTime) % WordRange

Source == Other(lastBufferRead)

(* Mutated form: buffer 2 visited first, as send_task_coap does.           *)
start_with_second ==
  /\ pc = "take"
  /\ lastBufferRead = 1
  /\ counter = 0
  /\ buffer_array = [c \in Cells |-> htonl(0)]
  /\ endSend = 0

SenderInit ==
  /\ pc = "take"
  /\ lastBufferRead = 2
  /\ counter = 0
  /\ buffer_array = [c \in Cells |-> htonl(0)]
  /\ endSend = 0

(* The timer is started vTaskDelay(sensorID * 10 ms) after measuringStart. *)
Init ==
  /\ WriterInit
  /\ now = (measuringStart + startDelay) % WordRange
  /\ SenderInit

(* xSemaphoreTake(..., portMAX_DELAY) returns.                             *)
TakeMutex ==
  /\ pc = "take"
  /\ Take(Source, "task")
  /\ pc' = "check"
  /\ UNCHANGED <<testVar, lastBufferWritten, MutexHolder, ringbuffer, now, isr>>
  /\ UNCHANGED <<lastBufferRead, counter, buffer_array, endSend>>

(* Mutated form: the header's two cells not counted.                       *)
header_not_counted ==
  /\ pc = "check"
  /\ is_full(ringbuffer[Source])
  /\ buffer_array' = [buffer_array EXCEPT
       ![counter]     = htonl(sensorID),
       ![counter + 1] = htonl(get_timediff_us(ringbuffer[Source].timestamp,
                                              measuringStart))]
  /\ pc' = "drain"
  /\ UNCHANGED writerVars
  /\ UNCHANGED <<lastBufferRead, counter, endSend>>

(* The buffer is full: start a chunk with the ID and the time, since       *)
(* measuringStart, of its first sample.                                    *)
Header ==
  /\ pc = "check"
  /\ is_full(ringbuffer[Source])
  /\ buffer_array' = [buffer_array EXCEPT
       ![counter]     = htonl(sensorID),
       ![counter + 1] = htonl(get_timediff_us(ringbuffer[Source].timestamp,
                                              measuringStart))]
  /\ counter' = counter + 2
  /\ pc' = "drain"
  /\ UNCHANGED writerVars
  /\ UNCHANGED <<lastBufferRead, endSend>>

(* One round of "while (is_full(...))".                                    *)
ReadOne ==
  /\ pc = "drain"
  /\ is_full(ringbuffer[Source])
  /\ buffer_array' = [buffer_array EXCEPT
                        ![counter] = htonl(ReadValue(ringbuffer[Source]))]
  /\ counter' = counter + 1
  /\ ringbuffer' = [ringbuffer EXCEPT ![Source] = read_from_buffer(@)]
  /\ UNCHANGED <<testVar, lastBufferWritten, MutexHolder, mutex, now, isr>>
  /\ UNCHANGED <<pc, lastBufferRead, endSend>>

(* Mutated form: counter not reset with the end of a round.                *)
leave_without_reset ==
  /\ pc \in {"check", "drain"}
  /\ ~is_full(ringbuffer[Source])
  /\ Give(Source)
  /\ lastBufferRead' = Source
  /\ counter' = counter
  /\ pc' = IF Source = 2 THEN "gap" ELSE "take"
  /\ UNCHANGED <<testVar, lastBufferWritten, MutexHolder, ringbuffer, now, isr>>
  /\ UNCHANGED <<buffer_array, endSend>>

(* The buffer is drained, or was not full when the task came by: give it   *)
(* back and go on.  A visit of buffer 2 ends the datagram, whatever was    *)
(* found.                                                                  *)
Leave ==
  /\ pc \in {"check", "drain"}
  /\ ~is_full(ringbuffer[Source])
  /\ Give(Source)
  /\ lastBufferRead' = Source
  /\ counter' = IF Source = 2 THEN 0 ELSE counter
  /\ pc' = IF Source = 2 THEN "gap" ELSE "take"
  /\ UNCHANGED <<testVar, lastBufferWritten, MutexHolder, ringbuffer, now, isr>>
  /\ UNCHANGED <<buffer_array, endSend>>

(* The test of the time between endSend and beginnSend = now.  The older   *)
(* of the two is the first argument, so an elapsed time of e periods reads *)
(* as WordRange - e.                                                       *)
SendDue ==
  /\ pc = "gap"
  /\ get_timediff_us(endSend, now) > SendGap
  /\ pc' = "send"
  /\ UNCHANGED writerVars
  /\ UNCHANGED <<lastBufferRead, counter, buffer_array, endSend>>

SendSkipped ==
  /\ pc = "gap"
  /\ get_timediff_us(endSend, now) <= SendGap
  /\ pc' = "take"
  /\ UNCHANGED writerVars
  /\ UNCHANGED <<lastBufferRead, counter, buffer_array, endSend>>

(* Mutated forms: endSend not renewed; the datagram sent once more.        *)
send_without_stamp ==
  /\ pc = "send"
  /\ pc' = "take"
  /\ UNCHANGED writerVars
  /\ UNCHANGED <<lastBufferRead, counter, buffer_array, endSend>>

send_again ==
  /\ pc = "send"
  /\ endSend' = now
  /\ pc' = "gap"
  /\ UNCHANGED writerVars
  /\ UNCHANGED <<lastBufferRead, counter, buffer_array>>

(* sendto returns; its result only chooses the line that is logged.        *)
Send ==
  /\ pc = "send"
  /\ endSend' = now
  /\ pc' = "take"
  /\ UNCHANGED writerVars
  /\ UNCHANGED <<lastBufferRead, counter, buffer_array>>

SendStep ==
  \/ TakeMutex
  \/ Header
  \/ ReadOne
  \/ Leave
  \/ SendDue
  \/ SendSkipped
  \/ Send

Next == (WriteStep /\ UNCHANGED senderVars) \/ SendStep

Spec == Init /\ [][Next]_vars

(* Core 0 keeps firing the timer and running the callback, and the         *)
(* scheduler keeps running the task.  The take is strongly fair: the       *)
(* callback's hold of a full buffer is over within one callback, every     *)
(* give wakes the waiting task, and the task is the only one that waits.   *)
Fairness ==
  /\ WF_vars(WriteStep /\ UNCHANGED senderVars)
  /\ SF_vars(TakeMutex)
  /\ WF_vars(SendStep)

FairSpec == Spec /\ Fairness

-----------------------------------------------------------------------------
Word == Sample \cup Time \cup {sensorID, 0, Garbage}

(* Every variable keeps its type; the wrap of testVar and of the indices   *)
(* included.                                                               *)
TypeOK ==
  /\ WriterTypeOK
  /\ pc \in {"take", "check", "drain", "gap", "send"}
  /\ lastBufferRead \in Buffers
  /\ counter \in 0 .. ArrayLength
  /\ buffer_array \in [Cells -> {htonl(w) : w \in Word}]
  /\ endSend \in Time

TaskInside(b) == b = Source /\ pc \in {"check", "drain"}

(* The callback and the task never work on the same buffer at the same     *)
(* time, although the callback holds a mutex from one alarm to a later one *)
(* and looks only at MutexHolder, never at the mutex, in between.          *)
MutualExclusion ==
  \A b \in Buffers :
    /\ ~(IsrInside(b) /\ TaskInside(b))
    /\ MutexHolder[b] => mutex[b] = "isr"
    /\ TaskInside(b) => mutex[b] = "task"

(* A buffer nobody holds is empty or holds one whole chunk: as many        *)
(* samples as it has slots, none of them skipped between two alarms.  So a *)
(* visit of the task finds all or nothing, and one timestamp dates every   *)
(* sample of the chunk.                                                    *)
WholeChunk ==
  \A b \in Buffers : mutex[b] = "free" =>
    /\ ringbuffer[b].writeIndex = 0 /\ ringbuffer[b].readIndex = 0
    /\ is_full(ringbuffer[b]) => GapFree(ringbuffer[b].sensValue, 0, Size)

(* Two chunks and their headers fit in buffer_array and no third one is    *)
(* ever begun, whatever mix of full and empty buffers the task meets.      *)
ArrayInBounds ==
  /\ pc = "check" => counter + 2 + Size <= ArrayLength
  /\ pc = "drain" /\ is_full(ringbuffer[Source]) => counter < ArrayLength

(* When a drain ends, the last cells written are the header and the        *)
(* samples of the buffer in their order, each in network byte order.       *)
CopyExact ==
  pc = "drain" /\ ~is_full(ringbuffer[Source]) =>
    LET base == counter - Size IN
    /\ buffer_array[base - 2] = htonl(sensorID)
    /\ buffer_array[base - 1] =
         htonl(get_timediff_us(ringbuffer[Source].timestamp, measuringStart))
    /\ \A i \in Index :
         buffer_array[base + i] = htonl(ringbuffer[Source].sensValue[i])

(* Where the two chunks of a datagram start.                               *)
Halves == {0, Size + 2}
Written(half) == \E c \in half .. half + Size + 1 : buffer_array[c] # htonl(0)
HostWord(c) == buffer_array[c].net

(* What sendto gets never mixes two chunks: each half is either untouched  *)
(* since the start or one whole gap-free chunk behind this sensor's ID,    *)
(* also when it is left over from an earlier datagram because the task     *)
(* found a buffer empty in this round.                                     *)
DatagramWhole ==
  pc = "send" => \A half \in Halves : Written(half) =>
    /\ HostWord(half) = sensorID
    /\ GapFree([c \in Cells |-> HostWord(c)], half + 2, Size)

(* A sample of value v was taken at time t: as many periods have passed    *)
(* since then as alarms, on a clock that wraps at WordRange and with       *)
(* values that wrap at SampleRange.                                        *)
TakenAt(v, t) ==
  \E k \in 0 .. WordRange * SampleRange - 1 :
    /\ (t + k) % WordRange = now
    /\ (v + k) % SampleRange = testVar

(* The timestamp of a half, counted from measuringStart, is the time its   *)
(* first sample was taken, however long ago that was and whatever the two  *)
(* sides have done since.  True of a clock that nobody sets during the     *)
(* measurement.                                                            *)
StampMatchesSample ==
  pc = "send" => \A half \in Halves : Written(half) =>
    TakenAt(HostWord(half + 2), HostWord(half + 1) + measuringStart)

(* Samples that no task has read are not overwritten and keep their        *)
(* timestamp, however far the task falls behind: the callback drops new    *)
(* samples instead of old ones.                                            *)
UnreadKept ==
  [][\A b \in Buffers : is_full(ringbuffer[b]) =>
       /\ ringbuffer'[b].sensValue = ringbuffer[b].sensValue
       /\ ringbuffer'[b].timestamp = ringbuffer[b].timestamp]_vars

(* A full buffer is drained in the end: the callback, which keeps trying   *)
(* its mutex at each alarm, does not lock the task out.                    *)
EveryChunkDrained ==
  \A b \in Buffers : is_full(ringbuffer[b]) ~> ~is_full(ringbuffer[b])

(* The two buffers change hands as the two slots of a double buffer do:    *)
(* filled in turn, drained when full, one at a time on either side.        *)
Slot(b) == SlotOf(b, pc = "drain")

Slots == [b \in Buffers |-> Slot(b)]

Exchange == INSTANCE DoubleBuffer WITH slot <- Slots, turn <- Target

ImplementsDoubleBuffer == Exchange!Spec

-----------------------------------------------------------------------------
(* The inductive invariant behind the safety properties above.             *)

(* Who has which mutex follows from the two program counters and from      *)
(* MutexHolder.                                                            *)
Ownership ==
  /\ IsrOwnership
  /\ \A b \in Buffers : mutex[b] = "task" <=> TaskInside(b)

(* The task moves a read index only while it drains.                       *)
Shape(b) ==
  /\ FillShape(b)
  /\ ringbuffer[b].readIndex # 0 => pc = "drain" /\ is_full(ringbuffer[b])

BufferShape == \A b \in Buffers : Shape(b)

(* The half of buffer_array the task is filling, and how far it has come.  *)
Copied == IF is_full(ringbuffer[Source]) THEN ringbuffer[Source].readIndex ELSE Size
Base == counter - 2 - Copied

Starts(b) == IF b = 1 THEN {0} ELSE Halves

CounterShape ==
  /\ pc \in {"gap", "send"} => lastBufferRead = 2 /\ counter = 0
  /\ pc \in {"take", "check"} => counter \in Starts(Source)
  /\ pc = "drain" => Base \in Starts(Source)

(* What has been copied so far.                                            *)
CopyShape ==
  pc = "drain" =>
    /\ buffer_array[Base] = htonl(sensorID)
    /\ buffer_array[Base + 1] =
         htonl(get_timediff_us(ringbuffer[Source].timestamp, measuringStart))
    /\ \A i \in 0 .. Copied - 1 :
         buffer_array[Base + 2 + i] = htonl(ringbuffer[Source].sensValue[i])

HalfWhole(half) ==
  Written(half) =>
    /\ HostWord(half) = sensorID
    /\ \A c \in half + 2 .. half + Size : HostWord(c + 1) = NextSample(HostWord(c))

(* The other half is as an earlier drain, or the start, has left it.       *)
HalvesShape ==
  /\ \A half \in Halves : HalfWhole(half) \/ (pc = "drain" /\ half = Base)
  /\ pc = "drain" /\ ~is_full(ringbuffer[Source])
       => ringbuffer[Source].sensValue \in [Index -> Sample]
          /\ GapFree(ringbuffer[Source].sensValue, 0, Size)

IInv ==
  /\ TypeOK
  /\ Ownership
  /\ BufferShape
  /\ CounterShape
  /\ CopyShape
  /\ HalvesShape

(* The invariant behind StampMatchesSample, of a clock that runs evenly:   *)
(* the stamp and the first sample of a chunk belong together in its buffer *)
(* until that is drained, and in its half of the datagram from then on.    *)
BufferDated(b) ==
  ringbuffer[b].writeIndex # 0 \/ is_full(ringbuffer[b]) \/ (pc = "drain" /\ b = Source) =>
    /\ ringbuffer[b].timestamp \in Time
    /\ ringbuffer[b].sensValue[0] \in Sample
    /\ TakenAt(ringbuffer[b].sensValue[0], ringbuffer[b].timestamp)

HalfDated(half) ==
  Written(half) /\ ~(pc = "drain" /\ half = Base) =>
    /\ HostWord(half + 1) \in Time
    /\ HostWord(half + 2) \in Sample
    /\ TakenAt(HostWord(half + 2), HostWord(half + 1) + measuringStart)

DatedInv ==
  /\ \A b \in Buffers : BufferDated(b)
  /\ \A half \in Halves : HalfDated(half)
=============================================================================
