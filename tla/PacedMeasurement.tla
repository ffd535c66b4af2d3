--------------------------- MODULE PacedMeasurement -------------------------
(***************************************************************************)
(* The measurement of module SendTaskUdp at the speed it is built for.     *)
(* The code has no test that keeps the task from visiting a buffer that    *)
(* the callback has not begun to fill; the program relies on time.  The    *)
(* assumption, made explicit here, is that the callback serves an alarm    *)
(* to its end between two takes of the task: draining a buffer copies 1250 *)
(* values and a period is SENSOR_RATE = 22 us, and app_main starts the     *)
(* timer before it creates the task.  The task may be as slow as it likes. *)
(***************************************************************************)
EXTENDS SendTaskUdp, Sequences

VARIABLE served   \* has an alarm been served since the task's last take?

pacedVars == <<vars, served>>

PacedInit == Init /\ served = FALSE

(* Mutated form: a task that does not wait for an alarm.                   *)
take_unpaced == TakeMutex /\ served' = FALSE

PacedTake == served /\ TakeMutex /\ served' = FALSE

PacedWrite ==
  /\ WriteStep
  /\ UNCHANGED senderVars
  /\ served' = (served \/ isr' = "idle")

PacedRest ==
  /\ Header \/ ReadOne \/ Leave \/ SendDue \/ SendSkipped \/ Send
  /\ UNCHANGED served

PacedNext == PacedWrite \/ PacedTake \/ PacedRest

PacedSpec == PacedInit /\ [][PacedNext]_pacedVars

(* Fairness as in FairSpec: the callback keeps running; the task runs when *)
(* it can, and gets a mutex that is free again and again.                  *)
PacedFairSpec ==
  /\ PacedSpec
  /\ WF_pacedVars(PacedWrite)
  /\ SF_pacedVars(PacedTake)
  /\ WF_pacedVars(PacedRest)

-----------------------------------------------------------------------------
(* The task never visits a buffer in vain: whenever it has got a mutex,    *)
(* there is a chunk to drain, so every round fills both halves.            *)
NeverIdleVisit == pc = "check" => is_full(ringbuffer[Source])

(* With both buffers full the task is at the older chunk.  "Which buffer   *)
(* next" is decided by two variables that the two sides never compare.     *)
OldestFirst ==
  (\A b \in Buffers : is_full(ringbuffer[b])) /\ isr # "release"
     => Source = Target

(* A sample is dropped only when there is no room for it: both buffers     *)
(* hold a chunk that is waiting or being drained.                          *)
LossOnlyAtCapacity ==
  [][(TakeFails \/ BackOff) =>
       \A b \in Buffers : is_full(ringbuffer[b]) \/ TaskInside(b)]_pacedVars

(* The measurement goes on for ever: both buffers are filled again and     *)
(* again, neither side waits for the other for good.                       *)
BothBuffersRefilled ==
  \A b \in Buffers : []<>(lastBufferWritten = b)

(* The measurement puts whole chunks into datagrams, in the order in which *)
(* they were measured, each into one, with the time of their first sample, *)
(* although they pass through two buffers, two mutexes and the two halves  *)
(* of one array.  The array is the datagram: it is not touched between its *)
(* last copy and the return of sendto, which gets it once, unless the test *)
(* before sendto drops it.  Each sendto sends such a datagram.             *)
ChunkTime(b) == get_timediff_us(ringbuffer[b].timestamp, measuringStart)

(* The time and the first n samples of what buffer b holds.                *)
Chunk(b, n) ==
  [i \in 1 .. n + 1 |-> IF i = 1 THEN ChunkTime(b) ELSE ringbuffer[b].sensValue[i - 2]]

Full(b) == is_full(ringbuffer[b])

(* The buffer the callback has stored something in and not handed over.    *)
Filling(b) ==
  /\ MutexHolder[b]
  /\ ringbuffer[b].writeIndex # 0 \/ (b = Target /\ isr = "release")

OpenChunk ==
  IF Filling(Target)
    THEN Chunk(Target, IF Full(Target) THEN Size ELSE ringbuffer[Target].writeIndex)
    ELSE << >>

Waiting(b) == Full(b) /\ ~Filling(b)

PendingChunks ==
  LET of(b) == IF Waiting(b) THEN <<Chunk(b, Size)>> ELSE << >>
  IN  of(Target) \o of(lastBufferWritten)

HalfOf(b) == IF b = 1 THEN 0 ELSE Size + 2

(* What stands in the half of the array that belongs to buffer b.          *)
HalfChunk(b) == [i \in 1 .. Size + 1 |-> HostWord(HalfOf(b) + i)]

BothHalves == <<HalfChunk(1), HalfChunk(2)>>

Drained == pc = "drain" /\ ~Full(Source)

(* The halves that were written since the last datagram left.              *)
Datagram ==
  IF pc = "gap" \/ (Drained /\ Source = 2) THEN BothHalves
  ELSE IF Drained \/ lastBufferRead = 1 THEN <<HalfChunk(1)>>
  ELSE << >>

(* sendto is called with the whole array.                                  *)
Sending == IF pc = "send" THEN BothHalves ELSE << >>

Queue == INSTANCE ChunkQueue WITH
  Capacity <- 2,
  open <- OpenChunk, pending <- PendingChunks,
  datagram <- Datagram, sending <- Sending

ImplementsChunkQueue ==
  /\ Queue!Spec
  /\ [][Send => Queue!Transmit]_pacedVars

-----------------------------------------------------------------------------
(* The inductive invariant behind the properties above: the order of the   *)
(* two sides, in two cases, and what follows from it for the array.        *)

(* The buffer both would use next holds a chunk.                           *)
TargetComplete == Full(Target) /\ isr # "release"

Inside == pc \in {"check", "drain"}

(* The task is one buffer behind: its buffer is full, the callback fills   *)
(* the other one.                                                          *)
TaskBehind ==
  Source # Target =>
    /\ ~TargetComplete
    /\ pc # "drain" => Full(Source)
    /\ served /\ Inside => MutexHolder[Target]

(* Both want the same buffer.  Either the callback waits for the task, and *)
(* then both buffers were full, or the task waits for the callback, which  *)
(* has begun to fill it as soon as an alarm was served.                    *)
SameBuffer ==
  Source = Target =>
    /\ (Inside \/ TargetComplete) <=> Full(lastBufferWritten)
    /\ pc = "check" => Full(Source)
    /\ served /\ ~Inside => MutexHolder[Target] \/ TargetComplete

(* Since no visit is in vain, each buffer has its own half of the array:   *)
(* the first visit of a round leaves counter behind the first half.        *)
HalvesInTurn ==
  /\ pc \in {"take", "check"} => counter = HalfOf(Source)
  /\ pc = "drain" => Base = HalfOf(Source)

PacedInv == TaskBehind /\ SameBuffer /\ HalvesInTurn
=============================================================================
