------------------------------- MODULE Startup ------------------------------
(***************************************************************************)
(* app_main of main/main.c from registration to the start of the           *)
(* measurement: init_udp, obtain_time and the wait for the start signal,   *)
(* beside the server, the network and the SNTP client they talk to.  Every *)
(* result that the code does not look at is left to chance, and a panic    *)
(* may restart the node at any time.                                       *)
(***************************************************************************)
EXTENDS Integers, Sequences, SequencesExt

CONSTANTS
  AssignedID,      \* the byte the server answers a registration with
  PortHigh,        \* ... and the two bytes of the port, in network order
  PortLow,
  retry_max,       \* waits for the time (5)
  MailboxSize,     \* datagrams lwIP keeps per UDP socket (6)
  Restarts,        \* bound on the number of restarts
  Lossy,           \* may the network drop a datagram?
  Reordering,      \* may a later datagram overtake an earlier one?
  Faults           \* may socket, bind, sendto or xTaskCreate fail?

Byte == 0 .. 255

ASSUME ReplyAssumption == {AssignedID, PortHigh, PortLow} \subseteq Byte
ASSUME BoundAssumption == {retry_max, MailboxSize} \subseteq Nat \ {0} /\ Restarts \in Nat
ASSUME NetworkAssumption == {Lossy, Reordering, Faults} \subseteq BOOLEAN

VARIABLES
  pc,                \* app_main's next step
  init_sock,         \* "none", "open" or "failed"
  sock, setting_sock,
  sensorID,          \* one byte, 0 at boot
  data_port,         \* the four bytes of an int, 0 at boot
  server_addr,       \* "none", or "server" once a reply has been received
  retry,             \* waits for the time begun
  timeinfo,          \* has the task read a year of 2016 or later?
  startMeasurement,  \* the byte received last on setting_sock
  gptimer,           \* does the timer that calls write_task run?
  send_task,         \* does the task that runs send_task_udp exist?
  registered,        \* what init_udp returned, 0 before it has
  synced,            \* what obtain_time returned, 0 before it has
  replies,           \* datagrams on their way to init_sock
  inbox,             \* datagrams received and not yet read, per socket
  clock,             \* the system time: "boot", "kept" over a restart, or "set"
  restarts           \* restarts so far

sockets == <<init_sock, sock, setting_sock>>
assigned == <<sensorID, data_port, server_addr>>
timing == <<retry, timeinfo>>
outcome == <<startMeasurement, gptimer, send_task, registered, synced>>
node == <<sockets, assigned, timing, outcome>>
environment == <<replies, inbox, clock, restarts>>
vars == <<pc, node, environment>>

(* The server's two replies as bytes; data_port has room for four.         *)
IdReply == <<AssignedID>>
PortReply == <<PortHigh, PortLow, 0, 0>>

(* recvfrom copies a datagram to the front of a buffer and drops what does *)
(* not fit.                                                                *)
Received(buffer, datagram) ==
  [i \in DOMAIN buffer |-> IF i \in DOMAIN datagram THEN datagram[i] ELSE buffer[i]]

Outcomes(good) == {good} \cup (IF Faults THEN {"failed"} ELSE {})

Init ==
  /\ pc = "init_sock"
  /\ init_sock = "none" /\ sock = "none" /\ setting_sock = "none"
  /\ sensorID = 0 /\ data_port = <<0, 0, 0, 0>> /\ server_addr = "none"
  /\ retry = 0 /\ timeinfo = FALSE
  /\ startMeasurement = 0
  /\ gptimer = FALSE /\ send_task = "none"
  /\ registered = 0 /\ synced = 0
  /\ replies = << >>
  /\ inbox = [s \in {"init", "setting"} |-> << >>]
  /\ clock = "boot" /\ restarts = 0

-----------------------------------------------------------------------------
(* init_udp.                                                               *)

(* The socket for the registration.  What the code tests is sock, which is *)
(* 0 until the second socket call.                                         *)
OpenInitSock ==
  /\ pc = "init_sock"
  /\ init_sock' \in Outcomes("open")
  /\ pc' = "register"
  /\ UNCHANGED <<sock, setting_sock, assigned, timing, outcome, environment>>

(* The registration datagram reaches the server, which answers with the    *)
(* two replies; or sendto fails, or the datagram is lost.                  *)
Register ==
  /\ pc = "register"
  /\ \/ init_sock = "open" /\ replies' = <<IdReply, PortReply>>
     \/ (init_sock = "failed" \/ Lossy \/ Faults) /\ UNCHANGED replies
  /\ pc' = "recv_id"
  /\ UNCHANGED <<node, inbox, clock, restarts>>

(* A recvfrom on init_sock waits for a datagram, without limit ...         *)
InitSockDatagram ==
  /\ init_sock = "open"
  /\ inbox["init"] # << >>
  /\ inbox' = [inbox EXCEPT !["init"] = Tail(@)]
  /\ server_addr' = "server"

(* ... or fails at once, which is only logged.                             *)
InitSockError == init_sock = "failed" /\ UNCHANGED <<inbox, assigned>>

ReceiveID ==
  /\ pc = "recv_id"
  /\ \/ InitSockError
     \/ /\ InitSockDatagram
        /\ sensorID' = Received(<<sensorID>>, Head(inbox["init"]))[1]
        /\ UNCHANGED data_port
  /\ pc' = "recv_port"
  /\ UNCHANGED <<sockets, timing, outcome, replies, clock, restarts>>

(* Mutated form: the second reply read into the ID again.                  *)
receive_port_as_id ==
  /\ pc = "recv_port"
  /\ \/ InitSockError
     \/ /\ InitSockDatagram
        /\ sensorID' = Received(<<sensorID>>, Head(inbox["init"]))[1]
        /\ UNCHANGED data_port
  /\ pc' = "data_sock"
  /\ UNCHANGED <<sockets, timing, outcome, replies, clock, restarts>>

ReceivePort ==
  /\ pc = "recv_port"
  /\ \/ InitSockError
     \/ /\ InitSockDatagram
        /\ data_port' = Received(data_port, Head(inbox["init"]))
        /\ UNCHANGED sensorID
  /\ pc' = "data_sock"
  /\ UNCHANGED <<sockets, timing, outcome, replies, clock, restarts>>

(* The socket for the datagrams; without it init_udp, and with it app_main,*)
(* ends here.                                                              *)
OpenSock ==
  /\ pc = "data_sock"
  /\ sock' \in Outcomes("open")
  /\ IF sock' = "failed"
       THEN registered' = -1 /\ pc' = "returned"
       ELSE UNCHANGED registered /\ pc' = "setting_sock"
  /\ UNCHANGED <<init_sock, setting_sock, assigned, timing, startMeasurement,
                 gptimer, send_task, synced, environment>>

(* The socket for the start signal is opened and bound: from here on lwIP  *)
(* keeps what arrives on its port.  Nobody looks whether either fails.     *)
BindSettingSock ==
  /\ pc = "setting_sock"
  /\ setting_sock' \in Outcomes("open")
  /\ registered' = 1
  /\ pc' = "time"
  /\ UNCHANGED <<init_sock, sock, assigned, timing, startMeasurement,
                 gptimer, send_task, synced, environment>>

-----------------------------------------------------------------------------
(* obtain_time.  pc is "time" at the loop's condition, "wait" in the delay.*)

(* Mutated forms: retry is not counted, or not compared.                   *)
wait_without_count ==
  /\ pc = "time"
  /\ ~timeinfo /\ retry < retry_max
  /\ pc' = "wait"
  /\ UNCHANGED <<node, environment>>

wait_without_limit ==
  /\ pc = "time"
  /\ ~timeinfo
  /\ retry' = retry + 1
  /\ pc' = "wait"
  /\ UNCHANGED <<sockets, assigned, timeinfo, outcome, environment>>

(* "timeinfo.tm_year < ... && retry++ < retry_max" holds: wait 2 s.        *)
WaitForTime ==
  /\ pc = "time"
  /\ ~timeinfo /\ retry < retry_max
  /\ retry' = retry + 1
  /\ pc' = "wait"
  /\ UNCHANGED <<sockets, assigned, timeinfo, outcome, environment>>

ReadTime ==
  /\ pc = "wait"
  /\ timeinfo' = (clock # "boot")
  /\ pc' = "time"
  /\ UNCHANGED <<sockets, assigned, retry, outcome, environment>>

(* The loop ends, and the value of retry decides how.  It is incremented   *)
(* once more when it is the part of the condition that fails.              *)
TimeDone ==
  /\ pc = "time"
  /\ timeinfo \/ retry >= retry_max
  /\ retry' = IF timeinfo THEN retry ELSE retry + 1
  /\ IF retry' < retry_max
       THEN synced' = 1 /\ pc' = "listen"
       ELSE synced' = -1 /\ pc' = "returned"
  /\ UNCHANGED <<sockets, assigned, timeinfo, startMeasurement, gptimer,
                 send_task, registered, environment>>

-----------------------------------------------------------------------------
(* The end of app_main.                                                    *)

(* Mutated form: the mailbox is emptied and its last byte taken.           *)
listen_to_the_last ==
  /\ pc = "listen"
  /\ startMeasurement # 1
  /\ setting_sock = "open"
  /\ inbox["setting"] # << >>
  /\ startMeasurement' = Received(<<startMeasurement>>, Last(inbox["setting"]))[1]
  /\ inbox' = [inbox EXCEPT !["setting"] = << >>]
  /\ UNCHANGED <<pc, sockets, assigned, timing, gptimer, send_task,
                 registered, synced, replies, clock, restarts>>

(* "while (startMeasurement != 1) recvfrom(setting_sock, ...)".            *)
Listen ==
  /\ pc = "listen"
  /\ startMeasurement # 1
  /\ setting_sock = "open"
  /\ inbox["setting"] # << >>
  /\ startMeasurement' = Received(<<startMeasurement>>, Head(inbox["setting"]))[1]
  /\ inbox' = [inbox EXCEPT !["setting"] = Tail(@)]
  /\ UNCHANGED <<pc, sockets, assigned, timing, gptimer, send_task,
                 registered, synced, replies, clock, restarts>>

(* The start signal: note the time as measuringStart, wait sensorID * 10   *)
(* ms unless that is 0, start the timer.                                   *)
StartTimer ==
  /\ pc = "listen"
  /\ startMeasurement = 1
  /\ gptimer' = TRUE
  /\ pc' = "create"
  /\ UNCHANGED <<sockets, assigned, timing, startMeasurement, send_task,
                 registered, synced, environment>>

CreateSendTask ==
  /\ pc = "create"
  /\ send_task' \in Outcomes("created")
  /\ pc' = "returned"
  /\ UNCHANGED <<sockets, assigned, timing, startMeasurement, gptimer,
                 registered, synced, environment>>

AppMain ==
  \/ OpenInitSock
  \/ Register
  \/ ReceiveID
  \/ ReceivePort
  \/ OpenSock
  \/ BindSettingSock
  \/ WaitForTime
  \/ ReadTime
  \/ TimeDone
  \/ Listen
  \/ StartTimer
  \/ CreateSendTask

-----------------------------------------------------------------------------
(* Outside the program.                                                    *)

(* A datagram arrives; a full mailbox drops it.                            *)
Arrive(s, datagram) ==
  inbox' = IF Len(inbox[s]) < MailboxSize
             THEN [inbox EXCEPT ![s] = Append(@, datagram)] ELSE inbox

(* The network delivers a reply, the first one unless it reorders.         *)
Deliver ==
  \E i \in DOMAIN replies :
    /\ i = 1 \/ Reordering
    /\ Arrive("init", replies[i])
    /\ replies' = RemoveAt(replies, i)
    /\ UNCHANGED <<pc, node, clock, restarts>>

Lose ==
  /\ Lossy
  /\ \E i \in DOMAIN replies : replies' = RemoveAt(replies, i)
  /\ UNCHANGED <<pc, node, inbox, clock, restarts>>

(* The server broadcasts a byte.  Before the bind nobody hears it.         *)
Broadcast(byte) ==
  /\ setting_sock = "open"
  /\ Arrive("setting", <<byte>>)
  /\ UNCHANGED <<pc, node, replies, clock, restarts>>

(* The SNTP client, which was given the address of the server, sets the    *)
(* clock.                                                                  *)
SetClock ==
  /\ registered = 1
  /\ server_addr = "server"
  /\ clock' = "set"
  /\ UNCHANGED <<pc, node, replies, inbox, restarts>>

(* A panic reboots the node, which keeps nothing but the system time.      *)
Restart ==
  /\ restarts < Restarts
  /\ restarts' = restarts + 1
  /\ clock' = IF clock = "boot" THEN "boot" ELSE "kept"
  /\ pc' = "init_sock"
  /\ init_sock' = "none" /\ sock' = "none" /\ setting_sock' = "none"
  /\ sensorID' = 0 /\ data_port' = <<0, 0, 0, 0>> /\ server_addr' = "none"
  /\ retry' = 0 /\ timeinfo' = FALSE
  /\ startMeasurement' = 0
  /\ gptimer' = FALSE /\ send_task' = "none"
  /\ registered' = 0 /\ synced' = 0
  /\ replies' = << >>
  /\ inbox' = [s \in {"init", "setting"} |-> << >>]

Environment ==
  \/ Deliver
  \/ Lose
  \/ \E byte \in {0, 1} : Broadcast(byte)
  \/ SetClock
  \/ Restart

Next == AppMain \/ Environment

Spec == Init /\ [][Next]_vars

(* app_main runs on, and a network that loses nothing delivers.  The       *)
(* server and the SNTP client owe us nothing.                              *)
FairSpec == Spec /\ WF_vars(AppMain) /\ WF_vars(Deliver)

-----------------------------------------------------------------------------
TypeOK ==
  /\ {init_sock, sock, setting_sock} \subseteq {"none", "open", "failed"}
  /\ sensorID \in Byte /\ startMeasurement \in Byte
  /\ data_port \in [1 .. 4 -> Byte]
  /\ server_addr \in {"none", "server"}
  /\ retry \in 0 .. retry_max + 1
  /\ {timeinfo, gptimer} \subseteq BOOLEAN
  /\ send_task \in {"none", "created", "failed"}
  /\ {registered, synced} \subseteq {-1, 0, 1}
  /\ \A s \in {"init", "setting"} : Len(inbox[s]) <= MailboxSize
  /\ clock \in {"boot", "kept", "set"}

(* A node that measures listens to the start signal, has a socket to send  *)
(* on and a clock that was set, if perhaps before a restart; and if its    *)
(* first socket call succeeded, it uses the ID and the port the server has *)
(* assigned.  Stated for a network that keeps the order of the replies.    *)
ConfiguredBeforeMeasuring ==
  gptimer =>
    /\ sock = "open" /\ startMeasurement = 1 /\ clock # "boot"
    /\ init_sock = "open" => sensorID = AssignedID /\ data_port = PortReply

(* A start signal that arrives after the bind is obeyed even if it comes   *)
(* while the node still waits for the time, and whatever other bytes come  *)
(* before or after it, unless the time never comes or the node restarts.   *)
SignalWaits ==
  /\ synced # -1
  /\ \E i \in DOMAIN inbox["setting"] : inbox["setting"][i] = <<1>>

StartSignalKept == SignalWaits ~> (gptimer \/ synced = -1 \/ pc = "init_sock")

(* On a network that loses nothing, registration and time sync come to an  *)
(* end, whatever order the replies come in and even if the time never      *)
(* comes.                                                                  *)
StartupEnds == <>(pc \in {"listen", "create", "returned"})

(* "-1 if Init failed // 1 if Init successfull", says the comment on       *)
(* init_udp (main.c:120).                                                  *)
InitUdpReportsFailure ==
  registered = 1 =>
    /\ init_sock = "open" /\ setting_sock = "open"
    /\ server_addr = "server"

(* "-1 if failed / 1 if Timesync is successfull", says the comment on      *)
(* obtain_time (main.c:147): a node that reports a failure has no time.    *)
TimeFailureReported == synced = -1 => ~timeinfo

(* The same comment: a node that reports success has the server's time.    *)
TimeSuccessReported == synced = 1 => clock = "set"

-----------------------------------------------------------------------------
(* The inductive invariant behind the two safety properties.               *)

(* What is on its way consists of bytes; of the replies, the first, the    *)
(* second or both have still to be delivered.                              *)
DatagramShape ==
  /\ inbox \in [{"init", "setting"} -> Seq(Seq(Byte))]
  /\ replies \in {<< >>, <<IdReply>>, <<PortReply>>, <<IdReply, PortReply>>}
  /\ pc \in {"init_sock", "register"} => inbox["init"] = << >> /\ replies = << >>

(* Every step of app_main knows what the steps before it have achieved.    *)
ProgressShape ==
  /\ pc \in {"init_sock", "register", "recv_id", "recv_port", "data_sock",
              "setting_sock", "time", "wait", "listen", "create", "returned"}
  /\ pc \in {"setting_sock", "time", "wait", "listen", "create"} => sock = "open"
  /\ pc \notin {"listen", "create", "returned"} => retry <= retry_max
  /\ timeinfo => clock # "boot"
  /\ pc \in {"listen", "create"} => timeinfo
  /\ pc = "create" => startMeasurement = 1
  /\ gptimer => /\ pc \in {"create", "returned"}
               /\ sock = "open" /\ startMeasurement = 1 /\ timeinfo

(* On a network that keeps their order nothing is left behind the second   *)
(* reply, so that app_main only gets past a wait for it when it has read   *)
(* the first one as the ID and the second one as the port.                 *)
OrderShape ==
  ~Reordering /\ init_sock = "open" =>
    CASE pc = "register" -> TRUE
      [] pc = "recv_id" ->
           \/ inbox["init"] = << >>
           \/ inbox["init"] = <<IdReply>> /\ replies \in {<< >>, <<PortReply>>}
           \/ inbox["init"] \in {<<PortReply>>, <<IdReply, PortReply>>} /\ replies = << >>
      [] pc = "recv_port" ->
           \/ inbox["init"] = << >> /\ replies = << >>
           \/ /\ sensorID = AssignedID
              /\ \/ inbox["init"] = << >> /\ replies = <<PortReply>>
                 \/ inbox["init"] = <<PortReply>> /\ replies = << >>
      [] OTHER -> sensorID = AssignedID /\ data_port = PortReply

StartupInv ==
  /\ TypeOK
  /\ DatagramShape
  /\ ProgressShape
  /\ OrderShape
=============================================================================
