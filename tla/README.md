# Sound measurement: a verification project in TLA+

The repository is the firmware of an ESP32-S3 sound sensor. A timer interrupt
takes a sample every 22 us and stores it in one of two ring buffers; a task
copies full buffers into a datagram and sends it to a server over UDP. Before
that the node joins a Wi-Fi, registers at the server, gets the time from it and
waits for its start signal. The program's own code is `src/main/`; everything
under `src/managed_components/` is third-party.

This directory holds models of that code, the configurations that model-check
them, and the proofs that what they show of safety holds for every instance.

## Inventory

| Component | State | Operations | Talks to |
|---|---|---|---|
| Ring buffer, `ringbuffer.c` | `writeIndex`, `readIndex`, `timestamp`, `sensValue`, `full` | `init_buffer`, `write_timestamp_to_buffer`, `write_to_buffer`, `read_from_buffer`, `is_full`, `free_buffer` | called by both sides below |
| Acquisition interrupt, `write_task` | `testVar`, `lastBufferWritten`, `MutexHolder1/2` | one call per timer alarm, on core 0 | ring buffers, the two mutexes |
| UDP sender, `send_task_udp` | `lastBufferRead`, `counter`, `buffer_array`, `endSend` | an endless loop, priority 0, either core | ring buffers, the two mutexes, UDP |
| Registration, `init_udp` | `init_sock`, `sock`, `setting_sock`, `sensorID`, `server_addr` | called once | server, by UDP |
| Time, `obtain_time` | `timeinfo`, the system clock | called once | SNTP client |
| Start, `app_main` | `startMeasurement`, `measuringStart`, the timer | runs once | all of the above |
| Wi-Fi, `wifi_setting.c` | `s_retry_num`, the event group | `event_handler` on the event task, `wifi_init_sta` on the main task | Wi-Fi driver (events), LED |
| LED, `led_setting.c` | the pixel, the RMT channel, the colour shown | `config_led`, `set_led`, from two tasks | RMT driver of `led_strip` |
| CoAP sender, `send_task_coap` | `lastBufferRead`, `counter`, `buffer_array`, `coap_message` | an endless loop, never started | ring buffers, mutexes, libcoap |
| HTTP client, `http_client.c` | `sendCounter` | `http_task`, compiled, never called | a ring buffer |
| NVS, stopwatch | | boot only; log lines only | |

Four things are hard here, and no test exists for any of them.

*Two cores, two buffers, two mutexes.* The interrupt takes a mutex with its
first sample of a chunk and gives it back 1249 alarms later; in between it
looks at its own flag `MutexHolder` only. The task waits for the mutexes in
turn. Which buffer is next is two variables, `lastBufferWritten` and
`lastBufferRead`, that nobody compares. One timestamp dates 1250 samples, so
a chunk must have no hole.

*Time as a synchronisation primitive.* The task does not look whether a
buffer is worth a visit before it takes the mutex. That it never sends a half
filled datagram rests on the timer being faster than the loop.

*A startup that looks at few of its results.* Sockets, datagrams and the time
may all fail; the code tests the wrong socket, and tells two ends of a loop
apart by a counter.

*Two tasks, one LED, an event group.* The event task pre-empts the main task
anywhere, also inside `set_led`, which has no lock. Whether the node is in the
network is decided by two bits that are never cleared and by a counter that
outlives a connection.

`PROJECT.json` lists these hazards line by line, with the properties that
cover them.

## Modules

    Ringbuffer            operators: the ring buffer on one handle
    RingbufferQueue       one buffer and one caller        refines BoundedQueue
    HttpClient            extends RingbufferQueue: http_task and its index
    WriteTask             extends Ringbuffer: the interrupt
    SendTaskUdp           extends WriteTask: interrupt and task   refines DoubleBuffer
    SendPause             extends SendTaskUdp: how long ago sendto was called
    PacedMeasurement      extends SendTaskUdp: at its real speed  refines ChunkQueue
    CoapPdu               operators: a CoAP message of libcoap
    SendTaskCoap          extends WriteTask, CoapPdu: the other task  refines DoubleBuffer
    LedSetting            the LED and the steps of its callers
    WifiSetting           extends LedSetting: event task and main task
    Startup               init_udp, obtain_time, the wait for the start signal

    RingbufferProofs      lemmas about the operators of Ringbuffer
    HttpProofs            theorems about RingbufferQueue and HttpClient
    WriteTaskProofs       lemmas about the callback, for either task
    SendTaskUdpProofs     theorems about SendTaskUdp and SendPause
    PacedProofs           theorems about PacedMeasurement
    SendTaskCoapProofs    theorems about SendTaskCoap
    StartupProofs         theorems about Startup
    WifiProofs            theorems about WifiSetting and LedSetting

**Ringbuffer** has one operator per C function, on a record with the fields of
the struct. What `malloc` leaves in memory is the model value `Garbage`. No
function checks its precondition, and neither do the operators.

**RingbufferQueue** gives one handle to a caller that writes while there is
room and reads while there is something, in any order.
**BoundedQueue** is what such a caller sees: a first-in first-out queue.

**HttpClient** makes `http_task` the reader: one value and its index per call.
The code reads without looking whether there is a value; nothing calls it, so
the model assumes a caller that has something to read. The post blocks, so a
call is two actions: `PostValue` up to the post, `PostReturns` with the test of
the flag after it, and `posting` in between. Writes may come at any time, also
during the post. The index is right as long as a chunk is drained in one go and
the flag that is tested is the one the read left. The history variable `mixed`
says when it was not so: a value was written into a chunk that was not drained
yet, or the buffer was filled to the brim during a post. In the second case the
flag is up again when `http_task` looks, and the counter goes on.

**WriteTask** splits one call of `write_task` into the steps between which the
other core can act: entry (`Alarm`, with the new sample and the test of
`MutexHolder`), the take (`TakeFromISR`, `TakeFails`), the test of `is_full`
with the first write (`WriteFirst`) or the give (`BackOff`), a later write
(`AppendSample`), and the hand-over (`Release`). The branches for buffer 1
and buffer 2 are the same code twice and one action here, over `Target`.
`Release` gives the mutex, clears the flag and turns to the other buffer in
one step: the last two are read by nobody but the interrupt itself.
`ISRMutex` and the return value only ask for a context switch and are left out.

**SendTaskUdp** adds the task, split in the same way: `TakeMutex`, `Header`,
one `ReadOne` per value, `Leave`, the test before `sendto` (`SendDue`,
`SendSkipped`) and `Send`. A word in network byte order is a record with the
field `net`, so that a word that was not converted is not equal to one that
was. The time is counted in timer periods and wraps at `WordRange`, as the
differences do that `get_timediff_us` cuts to 32 bits. The time between two
alarms is otherwise free: any number of steps of the task may happen in it.
With `ClockJumps` the clock may also have been set to any other time since the
last alarm, as the SNTP client does, which `obtain_time` leaves running and
which asks the server every hour (`CONFIG_LWIP_SNTP_UPDATE_DELAY`).
**DoubleBuffer** is the purpose of flags and mutexes: two slots, filled in
turn, one at a time on either side.

**SendPause** remembers how many alarms ago `sendto` was last called
(`silence`), which the code tries to measure before each `sendto`.

**PacedMeasurement** adds the one assumption on speed that the program makes:
between two takes of the task the interrupt has served an alarm. Draining a
buffer copies 1250 words, an alarm comes every 22 us, and `app_main` starts
the timer before it creates the task. The history variable `served` records
it; the task may still be as slow as it likes. **ChunkQueue** is what the
measurement does then, seen from outside: gap-free, dated chunks are gathered
one after the other, and each goes into one datagram, in order. A datagram of
two chunks is handed to `sendto` once and unaltered, or dropped whole. The
array plays two parts of it: `Datagram` while it is being filled, `Sending`
between the test before `sendto` and its return. `ImplementsChunkQueue` asks
for the refinement and that each `Send` is a `Transmit`, so a second `sendto`
of the same array is an error too. What the network does afterwards is not
part of it.

**Startup** models `app_main` from `init_udp` on. Each library call that can
fail may fail; a result that the code looks at decides, any other is ignored
as it is there. The server, the network and the SNTP client are external
actions; constants choose whether the network loses or reorders datagrams and
whether calls fail. A `Restart` is possible at any time and keeps the clock
only (`CONFIG_NEWLIB_TIME_SYSCALL_USE_RTC_HRT`). Replies still under way when
the node restarts are taken as gone: the new socket has another port.
Datagrams before the bind reach nobody, so `Broadcast` starts with the bind.

**LedSetting** splits `set_led` down to the bytes of the pixel and the four
calls of the RMT driver in `led_strip_rmt_refresh`, the places where another
task can come in. A call of the driver in the wrong state of the channel fails
and ends the refresh, and `set_led` does not look. One LED fits into the
channel's memory at once, so a transmission carries the pixel of that moment.
Field `alone` of a call and `latest` are history.

**WifiSetting** has the event handler and the main task. Both are pinned to
core 0 and the event task has the higher priority (20 against 1), so the main
task moves only while the event task is out of events or waits for the LED; it
can be pre-empted between any two of its steps. The Wi-Fi driver answers each
attempt, and drops an established link, at will. Each branch of the handler is
an action; its `set_led` then runs step by step, and the next event waits for
it. `ReportTime` is the colour `obtain_time` sets at its end, which can collide
with a lost link.

**CoapPdu** has one operator per function of libcoap that `send_task_coap`
uses on a message, with the limits (`max_size`, `alloc_size`) that decide
whether data is taken. **SendTaskCoap** is that task beside the same
interrupt: it begins at the other buffer, sends after each visit, and reports
what `coap_send` returned. `report` is what its log says.

## Runs

| Run | Question | Bounds and why they suffice |
|---|---|---|
| `HttpClient` | Is the buffer a bounded queue whatever the caller does, is the flag a latch, and is the index of `http_task` a position? | 3 slots and 3 values: every pair of indices with the flag up and down, a post during which nothing is written or the whole buffer is filled; the counter wraps at 5. |
| `Measurement` | Do the two sides exclude each other, and are chunks, datagrams and stamps right in every interleaving? Is every full buffer drained? When is a datagram dropped? Module `SendPause`. | 3 slots tell first, middle and last sample apart; 4 sample values tell a skipped sample from the next one; the clock wraps at 4 and only runs; the gap is 1 of 4 periods, so that datagrams are sent, dropped within the gap and dropped at the wrap. |
| `PacedMeasurement` | Order and completeness of chunks and datagrams, and needless loss, at real speed, while the clock is set at will. Does the measurement go on for ever? | 3 slots, 3 sample values, 2 clock values: enough for a clock that differs from the expected one. |
| `Startup` | What can a node that measures rely on? | 3 waits, 2 datagrams per mailbox, 1 restart, everything may fail or be lost. |
| `StartupLive` | Does startup end, and is a start signal kept? | The code's 5 waits, 3 datagrams per mailbox, any order, nothing lost, 1 restart. |
| `WifiSetting` | Is the verdict on the network right, final and reached? Can a collision in `set_led` block the LED for good? | The code's 5 retries and its two tasks; the link comes and goes without limit. |
| `SendTaskCoap` | Does the second reader keep the exchange of the buffers, and its messages sound? | As `Measurement`; a message of 8 bytes against 12 of payload, and one allocation that has to grow. With room for the payload (`Mtu` = 24) the array is sent and `SentWithArray` holds. |

Each property has a mutant in `PROJECT.json`: a small change of a definition,
as a slip in the code would make it, under which the property fails.

`StampMatchesSample` and `DroppedAfterSilence` are about a clock that nobody
sets. In their instance both ranges are 4, so a stamp that is off by one period
shows. Two properties of
`Startup` speak about the network they need: `ConfiguredBeforeMeasuring` one
that keeps the order of the replies, `StartupEnds` one that loses nothing.

Five runs show where the code and its comments differ.

- `StartupRegister`: `init_udp` tests `sock` where it means `init_sock`, and
  ignores the other results: it returns 1 without having registered
  (`main.c:120`, `main.c:261`).
- `StartupTimeFailure`: a sync that comes during the fifth wait is reported as
  a failure, and the node never measures (`main.c:147`, `main.c:514`).
- `StartupTimeSuccess`: after a soft restart the old time counts as a sync
  (`main.c:147`, `main.c:506`).
- `LedRace`: a call of `set_led` that overlaps another one may end without its
  colour being shown (`led_setting.h:22`, `led_setting.c:32`). A node that is
  connected may stay red, or show a mixture.
- `CoapPayload`, with the sizes of the program: 5000 bytes do not fit into a
  message of 1148, `coap_add_data` says so, nobody looks, and a message
  without the array is reported as sent (`main.c:138`, `main.c:481`).

`DroppedAfterSilence` is about one more oddity that no comment contradicts. The
arguments of the time difference before `sendto` are the other way round, so
the test holds for nearly every elapsed time instead of keeping 50 ms between
datagrams. What it can do instead is drop a datagram: one that is ready when
the clock reads the same as at the last `sendto`, or when that was a turn of
32 bits ago (71 minutes) less at most 50 ms, or when the clock was set back by
less than 50 ms. A task that keeps sending never gets there, since each
`sendto` renews `endSend`; the property says so of a clock that nobody sets.
Before the first `sendto` `endSend` is 0 and the first datagram is at its mercy.

Deadlock is checked in all passing runs but `Startup`, `StartupLive` and
`WifiSetting`, where `app_main` returns or waits for something that does not
come, or the station has been given up.

## Fairness

`SendTaskUdp!FairSpec`: the interrupt keeps coming (the hardware timer reloads
itself) and the task keeps running when it can: nothing of the program runs
below or beside it at priority 0 but the idle task, with which FreeRTOS
time-slices. `SendPause!PauseFairSpec` and `PacedMeasurement!PacedFairSpec` say
the same with their history variables. The take of a mutex is strongly fair. The interrupt holds a full
buffer only inside one call, each give readies the task that waits, and it
alone waits; so it cannot miss every one of infinitely many gives. Nothing is
assumed about how fast the task is.

`Startup!FairSpec`: `app_main` runs on, and the network delivers. Neither the
server's start signal nor the SNTP answer is assumed.

`SendTaskCoap!FairSpec`: as for `send_task_udp`.

`WifiSetting!FairSpec`: the event task has the higher priority and runs when it
can, the driver answers each attempt, the hardware ends each transmission. The
main task is strongly fair: whenever the event task rests, if only for a
moment, the main task is the next to run. That it rests again and again is the
premise of `JoinEnds` and not part of the specification: a link that came and
went as fast as events are handled would starve the main task.

## Proofs

Every safety invariant, action property and refinement that a passing run
checks on a small instance is also proved for all values of the constants,
from the named ASSUMEs of the modules. These ask for no more than the program
has: sizes, ranges and limits are positive, a ring buffer has at least two
slots, a message has room for its option (`Mtu >= 6`), the position of a value
fits into the type of the index (`CounterRange >= Size`), the gap between datagrams is shorter than a turn of
the clock (`SendGap < WordRange`), and the two callers of `set_led` are among
its tasks.

**The layers.** Two modules hold what several proofs need. `RingbufferProofs`
is about the operators alone: which index follows which, when the flag changes,
what a write or a read leaves as it was. `WriteTaskProofs` shows that the
callback keeps `WriterInv` (who has which mutex, a full buffer holds a dated
gap-free chunk, one under construction the samples up to this alarm) and that
it touches nothing but a buffer whose mutex it has. Both tasks, UDP and CoAP,
stand on it.

**The ring buffer and HTTP** (`HttpProofs`). `Contents`, the values from the
read index on, maps the buffer to the bounded queue; `WriteAppends` and
`ReadTakesHead` carry the arithmetic of the two wraps. `QueueInv` only has to
add that nothing in the contents is uninitialised memory. `HttpInv` adds that
the flag is up, or a post is under way, as long as `mixed` holds: the first
call that finds the flag down sets the counter to 0 and ends the disorder.

**The measurement** (`SendTaskUdpProofs`). The properties are not inductive by
themselves: `MutualExclusion` alone does not know which mutex the interrupt
holds, and a buffer that is whole now says nothing of one that is half filled.
`IInv` adds

- `Ownership`: who holds which mutex follows from the two program counters and
  `MutexHolder`, and the interrupt only ever holds that of its target;
- `BufferShape`: a full buffer holds a dated gap-free chunk, also while it is
  drained; the indices leave 0 only in the hands of their side;
- `CounterShape`: where in the array a drain began and how far it has come;
- `CopyShape`, `HalvesShape`: what the array holds because of that.

`Invariance` has one step per action of `Next`. The invariants follow at once,
the action properties from one step under `IInv`, and `DoubleBuffering` from a
lemma that each action is a step of `DoubleBuffer` or leaves its variables
alone. All this holds with `ClockJumps` too: once a chunk is stamped nothing
depends on what the clock says.

`StampsMatchSamples` does not, and has `~ClockJumps` as its hypothesis. The
invariant `DatedInv` follows the stamp and the first sample of a chunk through
the buffer into a half of the array: as many periods as alarms have passed
since both. `SampleRange` need not divide `WordRange` (50000 does not divide
2^32), so the proof counts the periods and needs what wrapping does to a sum;
these facts about `%` are lemmas of their own, since the product of two
constants is beyond the solver's own arithmetic.

`DropsAfterSilence` has the same hypothesis. `PauseInv` says that `endSend` is
as old as the last `sendto`: every alarm moves the clock and `silence` by one,
and no step but `Send` touches `endSend`. Only with it does the difference that
the test computes say anything about the time since a `sendto`.

**At its real speed** (`PacedProofs`). `PacedInv` orders the two sides: either
the task is one buffer behind and its buffer is full, or both want the same
buffer and one of them waits for the other. `IInv` holds in `PacedSpec` too,
since every step of it is a step of `Next`. `NeverIdleVisit`, `OldestFirst`
and `LossOnlyAtCapacity` follow from the two. `ChunksInOrder` is the
refinement of `ChunkQueue`, with each `Send` a `Transmit`. `HalvesInTurn` is the part of `PacedInv` it needs:
no visit is in vain, so each buffer keeps a half of its own. `QueueView` says
what the abstract state is in terms of the two buffers. `WriterGathers` shows
which step of the queue each action of the interrupt is, `CopyPacks` that the
last copy of a drain puts the oldest chunk into the datagram, and `TaskSends`
what the other steps of the task are.

**The CoAP task** (`SendTaskCoapProofs`). `CoapInv` is `WriterInv` with what
this task does to its array and its message: `MessageShape` says at which step
the message has its option and its payload, which `MessageSound` needs, for
every limit, allocation unit and payload. The same lemmas of the callback give
`CoapDoubleBuffering`.

**Startup** (`StartupProofs`). `ProgressShape` says what `app_main` has
achieved at each call, however often it restarts; `OrderShape` where the two
replies are while it waits for them. The second is about a network that keeps
their order, so `ConfiguredFirst` has the hypothesis `~Reordering`, while
`ReadyBeforeMeasuring`, the rest of the same property, holds on any.

**Wi-Fi and LED** (`WifiProofs`). `LedInv`: `set_led` has no lock, but the
state of the RMT channel acts as one. Whoever has enabled it is the only one
who can disable it, the others fail and go on; so the channel is free when
nobody is in `set_led`, and a call that is alone (`AloneShape`) shows its
colour. It is proved for any set of tasks. `LinkShape` says which
events can wait in which state of the link, and `VerdictShape` that the
failure bit falls with the last of them.

**Only model-checked.** Liveness under fairness is beyond the prover:
`EveryChunkDrained`, `BothBuffersRefilled`, `StartSignalKept`, `StartupEnds`
and `JoinEnds` hold in their runs, with the bounds named there. The five runs
that expect a violation show a behaviour, which needs no proof. That the
operators of `Ringbuffer` are what the C functions compute is a matter of
reading; so is the rest of the map.

## Not modelled

Of the program: a failing `malloc` in `init_buffer` and a CoAP session that
could not be created (nothing survives the NULL that follows), the
fragmentation of a datagram of 10016 bytes, the result of `sendto` (it only
chooses a log line), the real sensor (the code counts instead). In the Wi-Fi
model an attempt that reaches the access point but gets no address counts as
failed, and `rmt_enable`, which is one atomic exchange in the driver, is one
step. NVS and the stopwatch have no behaviour of their own.

Of the vendored code only what the program calls on its one LED and its one
message is modelled. That is why the share of all lines that the models cover
is small: nearly all of the repository's C code is libcoap and tinydtls with
their servers, transports, cryptography and examples, which nothing here
reaches; the program itself has about a thousand lines.

## Plan

Every safety property of the runs is proved. What is left is `WifiSetting`
composed with `Startup` as the whole boot: what registration does after a
failed join, and a link lost while it waits for the replies. Its safety would
follow from `WifiInv` and `StartupInv`; that a boot on a bad network still
ends is for TLC.
