------------------------------ MODULE WriteTask -----------------------------
(***************************************************************************)
(* The acquisition side of main/main.c: write_task, the alarm callback of  *)
(* the gptimer, which stores one sample per alarm and fills the two ring   *)
(* buffers in turn.  It runs in interrupt context on core 0.  The tasks    *)
(* that read the buffers may run on core 1 at the same time, so each       *)
(* FreeRTOS call and each buffer operation of the callback is a step of    *)
(* its own; variable isr says which one is next.                           *)
(*                                                                         *)
(* Time is counted in timer periods and kept modulo WordRange, the range   *)
(* of the uint32_t to which get_timediff_us cuts every difference.         *)
(***************************************************************************)
EXTENDS Ringbuffer

CONSTANTS
  SampleRange,   \* testVar counts 0 .. SampleRange - 1 (50000)
  WordRange,     \* values of a uint32_t (2^32)
  ClockJumps     \* may the SNTP client set the clock during the measurement?

ASSUME TwoSlots == Size >= 2
ASSUME SampleRangeAssumption == SampleRange \in Nat \ {0}
ASSUME WordRangeAssumption == WordRange \in Nat \ {0}
ASSUME ClockJumpsAssumption == ClockJumps \in BOOLEAN

VARIABLES
  testVar,             \* the simulated sensor value
  lastBufferWritten,   \* 1 or 2: the buffer filled last
  MutexHolder,         \* MutexHolder1, MutexHolder2: does the callback hold it?
  ringbuffer,          \* ringbuffer1, ringbuffer2
  mutex,               \* ringbuffer1_mutex, ringbuffer2_mutex and who has it
  now,                 \* the system clock
  isr                  \* the callback's next step; "idle" between alarms

writerVars == <<testVar, lastBufferWritten, MutexHolder, ringbuffer, mutex, now, isr>>

Buffers == {1, 2}
Sample  == 0 .. SampleRange - 1
Time    == 0 .. WordRange - 1
Other(b) == 3 - b

(* The mutex calls of FreeRTOS, as the program uses them.  A take in the   *)
(* callback fails at once when the mutex is gone; a take in a task waits   *)
(* without limit (portMAX_DELAY).                                          *)
Take(b, owner) == mutex[b] = "free" /\ mutex' = [mutex EXCEPT ![b] = owner]
Give(b) == mutex' = [mutex EXCEPT ![b] = "free"]

(* The alarm after which the buffer that was not filled last comes next.   *)
Target == Other(lastBufferWritten)

(* Mutated form: no reset at the end of the range.                         *)
next_without_reset(v) == v + 1

(* "testVar = testVar + 1", and back to 0 at SampleRange.                  *)
NextSample(v) == IF v + 1 = SampleRange THEN 0 ELSE v + 1

WriterInit ==
  /\ testVar = 0
  /\ lastBufferWritten = 2
  /\ MutexHolder = [b \in Buffers |-> FALSE]
  /\ ringbuffer = [b \in Buffers |-> init_buffer]
  /\ mutex = [b \in Buffers |-> "free"]
  /\ now \in Time
  /\ isr = "idle"

(* The clock at the next alarm: a period later, or whatever the SNTP       *)
(* client, which obtain_time leaves running and which asks the server      *)
(* every hour, has set it to since.                                        *)
NextClock == IF ClockJumps THEN Time ELSE {(now + 1) % WordRange}

(* The timer fires: one period has passed, write_task is entered, takes    *)
(* the next sample value and looks at MutexHolder of its buffer.           *)
Alarm ==
  /\ isr = "idle"
  /\ now' \in NextClock
  /\ testVar' = NextSample(testVar)
  /\ isr' = IF MutexHolder[Target] THEN "append" ELSE "take"
  /\ UNCHANGED <<lastBufferWritten, MutexHolder, ringbuffer, mutex>>

(* Mutated form: the result of the take ignored.                           *)
enter_without_mutex ==
  /\ isr = "take"
  /\ MutexHolder' = [MutexHolder EXCEPT ![Target] = TRUE]
  /\ isr' = "first"
  /\ UNCHANGED <<testVar, lastBufferWritten, ringbuffer, mutex, now>>

(* xSemaphoreTakeFromISR gets the mutex ...                                *)
TakeFromISR ==
  /\ isr = "take"
  /\ Take(Target, "isr")
  /\ MutexHolder' = [MutexHolder EXCEPT ![Target] = TRUE]
  /\ isr' = "first"
  /\ UNCHANGED <<testVar, lastBufferWritten, ringbuffer, now>>

(* ... or the reader has it, and this sample is lost.                      *)
TakeFails ==
  /\ isr = "take"
  /\ mutex[Target] # "free"
  /\ isr' = "idle"
  /\ UNCHANGED <<testVar, lastBufferWritten, MutexHolder, ringbuffer, mutex, now>>

(* Mutated forms: no test of is_full after the take; no timestamp.         *)
first_without_test ==
  /\ isr = "first"
  /\ ringbuffer' = [ringbuffer EXCEPT ![Target] =
                      write_to_buffer(write_timestamp_to_buffer(@, now), testVar)]
  /\ isr' = "idle"
  /\ UNCHANGED <<testVar, lastBufferWritten, MutexHolder, mutex, now>>

first_without_stamp ==
  /\ isr = "first"
  /\ ~is_full(ringbuffer[Target])
  /\ ringbuffer' = [ringbuffer EXCEPT ![Target] =
       write_to_buffer(IF @.timestamp = Garbage
                         THEN write_timestamp_to_buffer(@, now) ELSE @, testVar)]
  /\ isr' = "idle"
  /\ UNCHANGED <<testVar, lastBufferWritten, MutexHolder, mutex, now>>

(* The buffer is not full: stamp it and store the first sample of a chunk. *)
WriteFirst ==
  /\ isr = "first"
  /\ ~is_full(ringbuffer[Target])
  /\ ringbuffer' = [ringbuffer EXCEPT ![Target] =
                      write_to_buffer(write_timestamp_to_buffer(@, now), testVar)]
  /\ isr' = "idle"
  /\ UNCHANGED <<testVar, lastBufferWritten, MutexHolder, mutex, now>>

(* Mutated form: the give forgotten on this path.                          *)
back_off_without_give ==
  /\ isr = "first"
  /\ is_full(ringbuffer[Target])
  /\ MutexHolder' = [MutexHolder EXCEPT ![Target] = FALSE]
  /\ isr' = "idle"
  /\ UNCHANGED <<testVar, lastBufferWritten, ringbuffer, mutex, now>>

(* The buffer is still full: give it back unread, and lose this sample.    *)
BackOff ==
  /\ isr = "first"
  /\ is_full(ringbuffer[Target])
  /\ Give(Target)
  /\ MutexHolder' = [MutexHolder EXCEPT ![Target] = FALSE]
  /\ isr' = "idle"
  /\ UNCHANGED <<testVar, lastBufferWritten, ringbuffer, now>>

(* The callback has held the mutex since an earlier alarm: store a sample  *)
(* and look whether the buffer is full now.                                *)
AppendSample ==
  /\ isr = "append"
  /\ ringbuffer' = [ringbuffer EXCEPT ![Target] = write_to_buffer(@, testVar)]
  /\ isr' = IF is_full(ringbuffer'[Target]) THEN "release" ELSE "idle"
  /\ UNCHANGED <<testVar, lastBufferWritten, MutexHolder, mutex, now>>

(* Mutated form: lastBufferWritten not updated.                            *)
release_without_turn ==
  /\ isr = "release"
  /\ Give(Target)
  /\ MutexHolder' = [MutexHolder EXCEPT ![Target] = FALSE]
  /\ isr' = "idle"
  /\ UNCHANGED <<testVar, lastBufferWritten, ringbuffer, now>>

(* It is: hand it over and turn to the other buffer.                       *)
Release ==
  /\ isr = "release"
  /\ Give(Target)
  /\ MutexHolder' = [MutexHolder EXCEPT ![Target] = FALSE]
  /\ lastBufferWritten' = Target
  /\ isr' = "idle"
  /\ UNCHANGED <<testVar, ringbuffer, now>>

WriteStep ==
  \/ Alarm
  \/ TakeFromISR
  \/ TakeFails
  \/ WriteFirst
  \/ BackOff
  \/ AppendSample
  \/ Release

-----------------------------------------------------------------------------
WriterTypeOK ==
  /\ testVar \in Sample
  /\ lastBufferWritten \in Buffers
  /\ MutexHolder \in [Buffers -> BOOLEAN]
  /\ ringbuffer \in [Buffers -> ringbuffer_handle(Sample, Time)]
  /\ mutex \in [Buffers -> {"free", "isr", "task"}]
  /\ now \in Time
  /\ isr \in {"idle", "take", "first", "append", "release"}

(* Is the callback between a take and a give of buffer b right now?  It    *)
(* also keeps the mutex between alarms while it fills a buffer.            *)
IsrInside(b) == b = Target /\ isr \in {"first", "append", "release"}

(* The values of n cells of a from cell first on are consecutive samples.  *)
GapFree(a, first, n) ==
  \A i \in first .. first + n - 2 : a[i + 1] = NextSample(a[i])

(* Buffer b as a slot that changes hands.  The attempts of both sides to   *)
(* take a mutex, a take of a full buffer by the callback and a visit of an *)
(* empty one by the task, change nothing; draining says whether the task   *)
(* has found a value in the buffer it is in.                               *)
SlotOf(b, draining) ==
  CASE mutex[b] = "isr" /\ (ringbuffer[b].writeIndex # 0 \/ isr = "release") -> "filling"
    [] mutex[b] = "task" /\ draining -> "draining"
    [] OTHER -> IF is_full(ringbuffer[b]) THEN "full" ELSE "empty"

-----------------------------------------------------------------------------
(* The invariant that the callback keeps, and with it every task that      *)
(* takes a mutex, drains a full buffer and gives the mutex back.           *)

(* Which mutexes the callback has follows from MutexHolder, and it only    *)
(* ever has the one of its target.                                         *)
IsrOwnership ==
  /\ \A b \in Buffers :
       /\ MutexHolder[b] <=> mutex[b] = "isr"
       /\ MutexHolder[b] => b = Target
  /\ isr \in {"first", "append", "release"} => MutexHolder[Target]
  /\ isr = "take" => ~MutexHolder[Target]

(* A full buffer holds a dated chunk, also while it is being drained.      *)
FullShape(b) ==
  is_full(ringbuffer[b]) =>
    /\ ringbuffer[b].timestamp \in Time
    /\ ringbuffer[b].sensValue \in [Index -> Sample]
    /\ GapFree(ringbuffer[b].sensValue, 0, Size)

(* A buffer under construction holds the samples of the last alarms, up to *)
(* the present one or the one before it.                                   *)
PartShape(b) ==
  LET w == ringbuffer[b].writeIndex
      v == ringbuffer[b].sensValue
  IN  /\ w # 0
      /\ ~is_full(ringbuffer[b])
      /\ ringbuffer[b].timestamp \in Time
      /\ \A i \in 0 .. w - 1 : v[i] \in Sample
      /\ GapFree(v, 0, w)
      /\ testVar = IF isr = "idle" THEN v[w - 1] ELSE NextSample(v[w - 1])

(* Who moves an index away from 0 still has the mutex.                     *)
IndexShape(b) ==
  /\ ringbuffer[b].writeIndex # 0 => mutex[b] = "isr" /\ isr \in {"idle", "append"}
  /\ ringbuffer[b].readIndex # 0 => mutex[b] = "task"

FillShape(b) ==
  /\ FullShape(b)
  /\ IndexShape(b)
  /\ mutex[b] = "isr" /\ isr \in {"idle", "append"} => PartShape(b)
  /\ mutex[b] = "isr" /\ isr = "release" => is_full(ringbuffer[b])

WriterInv ==
  /\ WriterTypeOK
  /\ IsrOwnership
  /\ \A b \in Buffers : FillShape(b)
=============================================================================
