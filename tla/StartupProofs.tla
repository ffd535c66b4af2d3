---------------------------- MODULE StartupProofs ---------------------------
(***************************************************************************)
(* Proofs about the start of the node, for every answer of the server,     *)
(* every size of a mailbox, every number of waits for the time and of      *)
(* restarts, with every failure that module Startup allows.                *)
(***************************************************************************)
EXTENDS Startup, SequenceTheorems, TLAPS

Sockets == {"init", "setting"}
InFlight == {<< >>, <<IdReply>>, <<PortReply>>, <<IdReply, PortReply>>}

-----------------------------------------------------------------------------
(* Datagrams.                                                              *)

(* The two replies differ and consist of bytes.                            *)
LEMMA Replies ==
  /\ IdReply \in Seq(Byte) /\ PortReply \in Seq(Byte)
  /\ IdReply # PortReply
<1>1. 0 \in Byte /\ AssignedID \in Byte /\ PortHigh \in Byte /\ PortLow \in Byte
  BY ReplyAssumption DEF Byte
<1>2. IdReply \in Seq(Byte)
  BY <1>1 DEF IdReply
<1>3. PortReply \in Seq(Byte)
  BY <1>1 DEF PortReply
<1>4. Len(IdReply) = 1 /\ Len(PortReply) = 4
  BY DEF IdReply, PortReply
<1> QED  BY <1>2, <1>3, <1>4

(* A buffer of one byte stays one byte and gets the first of a datagram.   *)
LEMMA ReceivedByte ==
  ASSUME NEW byte \in Byte, NEW datagram \in Seq(Byte)
  PROVE  /\ Received(<<byte>>, datagram)[1] \in Byte
         /\ datagram = IdReply => Received(<<byte>>, datagram)[1] = AssignedID
<1>1. Received(<<byte>>, datagram)[1] =
        IF 1 \in DOMAIN datagram THEN datagram[1] ELSE byte
  BY DEF Received
<1>2. 1 \in DOMAIN datagram => datagram[1] \in Byte
  BY LenProperties
<1>3. 1 \in DOMAIN IdReply /\ IdReply[1] = AssignedID
  BY DEF IdReply
<1> QED  BY <1>1, <1>2, <1>3

(* A buffer of four bytes stays one and is the second reply once that has  *)
(* been received.                                                          *)
LEMMA ReceivedPort ==
  ASSUME NEW buffer \in [1 .. 4 -> Byte], NEW datagram \in Seq(Byte)
  PROVE  /\ Received(buffer, datagram) \in [1 .. 4 -> Byte]
         /\ datagram = PortReply => Received(buffer, datagram) = PortReply
<1>1. \A i \in DOMAIN datagram : datagram[i] \in Byte
  BY LenProperties
<1>2. Received(buffer, datagram) =
        [i \in 1 .. 4 |-> IF i \in DOMAIN datagram THEN datagram[i] ELSE buffer[i]]
  BY DEF Received
<1>3. Received(buffer, datagram) \in [1 .. 4 -> Byte]
  BY <1>1, <1>2
<1>4. PortReply \in [1 .. 4 -> Byte] /\ DOMAIN PortReply = 1 .. 4
  <2>1. Len(PortReply) = 4
    BY DEF PortReply
  <2> QED  BY <2>1, Replies, LenProperties
<1> HIDE DEF Received
<1>5. datagram = PortReply => Received(buffer, datagram) = PortReply
  BY <1>2, <1>4
<1> QED  BY <1>3, <1>5

(* Removing one of at most two datagrams.                                  *)
LEMMA RemoveFromInFlight ==
  /\ RemoveAt(<<IdReply>>, 1) = << >>
  /\ RemoveAt(<<PortReply>>, 1) = << >>
  /\ RemoveAt(<<IdReply, PortReply>>, 1) = <<PortReply>>
  /\ RemoveAt(<<IdReply, PortReply>>, 2) = <<IdReply>>
<1>1. ASSUME NEW a PROVE RemoveAt(<<a>>, 1) = << >>
  BY DEF RemoveAt
<1>2. ASSUME NEW a, NEW b
      PROVE  RemoveAt(<<a, b>>, 1) = <<b>> /\ RemoveAt(<<a, b>>, 2) = <<a>>
  <2> DEFINE s == <<a, b>>
  <2>1. s \in Seq({a, b}) /\ Len(s) = 2 /\ s[1] = a /\ s[2] = b
    OBVIOUS
  <2>2. /\ Len(SubSeq(s, 1, 0)) = 0 /\ Len(SubSeq(s, 3, 2)) = 0
        /\ Len(SubSeq(s, 2, 2)) = 1 /\ SubSeq(s, 2, 2)[1] = b
        /\ Len(SubSeq(s, 1, 1)) = 1 /\ SubSeq(s, 1, 1)[1] = a
        /\ {SubSeq(s, 1, 0), SubSeq(s, 3, 2), SubSeq(s, 2, 2), SubSeq(s, 1, 1)}
              \subseteq Seq({a, b})
    BY <2>1
  <2>3. SubSeq(s, 1, 0) = << >> /\ SubSeq(s, 3, 2) = << >>
    BY <2>2, EmptySeq
  <2>4. SubSeq(s, 2, 2) = <<b>> /\ SubSeq(s, 1, 1) = <<a>>
    <3>1. /\ <<a>> \in Seq({a, b}) /\ Len(<<a>>) = 1 /\ <<a>>[1] = a
          /\ <<b>> \in Seq({a, b}) /\ Len(<<b>>) = 1 /\ <<b>>[1] = b
      OBVIOUS
    <3>2. \A t, u \in Seq({a, b}) : Len(t) = 1 /\ Len(u) = 1 /\ t[1] = u[1] => t = u
      BY SeqEqual
    <3> QED  BY <2>2, <3>1, <3>2
  <2>5. RemoveAt(s, 1) = << >> \o <<b>> /\ RemoveAt(s, 2) = <<a>> \o << >>
    <3>1. 1 - 1 = 0 /\ 1 + 1 = 2 /\ 2 - 1 = 1 /\ 2 + 1 = 3
      OBVIOUS
    <3> HIDE DEF s
    <3> QED  BY <2>1, <2>3, <2>4, <3>1 DEF RemoveAt
  <2> QED  BY <2>5, ConcatEmptySeq
<1> QED  BY <1>1, <1>2

(* One of the replies leaves the network; if it is the foremost, those     *)
(* behind it stay.                                                         *)
LEMMA OneLess ==
  ASSUME NEW flight \in InFlight, NEW i \in DOMAIN flight
  PROVE  /\ flight[i] \in {IdReply, PortReply}
         /\ RemoveAt(flight, i) \in InFlight
         /\ i = 1 => \/ flight = <<IdReply>> /\ flight[i] = IdReply
                        /\ RemoveAt(flight, i) = << >>
                     \/ flight = <<PortReply>> /\ flight[i] = PortReply
                        /\ RemoveAt(flight, i) = << >>
                     \/ flight = <<IdReply, PortReply>> /\ flight[i] = IdReply
                        /\ RemoveAt(flight, i) = <<PortReply>>
<1>1. CASE flight = << >>
  BY <1>1
<1>2. CASE flight = <<IdReply>>
  <2>1. i = 1 /\ flight[1] = IdReply
    BY <1>2
  <2> QED  BY <1>2, <2>1, RemoveFromInFlight DEF InFlight
<1>3. CASE flight = <<PortReply>>
  <2>1. i = 1 /\ flight[1] = PortReply
    BY <1>3
  <2> QED  BY <1>3, <2>1, RemoveFromInFlight DEF InFlight
<1>4. CASE flight = <<IdReply, PortReply>>
  <2>1. i \in {1, 2} /\ flight[1] = IdReply /\ flight[2] = PortReply
    BY <1>4
  <2> QED  BY <1>4, <2>1, RemoveFromInFlight DEF InFlight
<1> QED  BY <1>1, <1>2, <1>3, <1>4 DEF InFlight

-----------------------------------------------------------------------------
(* Mailboxes.                                                              *)

Mailboxes ==
  /\ inbox \in [Sockets -> Seq(Seq(Byte))]
  /\ \A s \in Sockets : Len(inbox[s]) <= MailboxSize

(* A datagram that arrives lies behind the others, or nothing happens.     *)
LEMMA ArriveKeepsMailboxes ==
  ASSUME Mailboxes, NEW s \in Sockets, NEW datagram \in Seq(Byte), Arrive(s, datagram)
  PROVE  /\ Mailboxes'
         /\ inbox'[s] \in {inbox[s], Append(inbox[s], datagram)}
         /\ \A t \in Sockets : t # s => inbox'[t] = inbox[t]
<1>1. CASE Len(inbox[s]) < MailboxSize
  <2>1. inbox' = [inbox EXCEPT ![s] = Append(@, datagram)]
    BY <1>1 DEF Arrive
  <2>2. /\ inbox[s] \in Seq(Seq(Byte)) /\ Append(inbox[s], datagram) \in Seq(Seq(Byte))
        /\ Len(Append(inbox[s], datagram)) = Len(inbox[s]) + 1 /\ Len(inbox[s]) \in Nat
    BY DEF Mailboxes
  <2>3. Len(Append(inbox[s], datagram)) <= MailboxSize
    BY <1>1, <2>2, BoundAssumption
  <2> QED  BY <2>1, <2>2, <2>3 DEF Mailboxes
<1>2. CASE ~(Len(inbox[s]) < MailboxSize)
  BY <1>2 DEF Arrive, Mailboxes
<1> QED  BY <1>1, <1>2

(* A datagram that is read is the foremost one and leaves the mailbox.     *)
LEMMA ReadKeepsMailboxes ==
  ASSUME Mailboxes, NEW s \in Sockets, inbox[s] # << >>,
         inbox' = [inbox EXCEPT ![s] = Tail(@)]
  PROVE  /\ Mailboxes'
         /\ Head(inbox[s]) \in Seq(Byte)
         /\ inbox'[s] = Tail(inbox[s])
         /\ \A t \in Sockets : t # s => inbox'[t] = inbox[t]
<1>1. /\ inbox[s] \in Seq(Seq(Byte)) /\ Len(inbox[s]) <= MailboxSize
      /\ inbox \in [Sockets -> Seq(Seq(Byte))]
  BY DEF Mailboxes
<1>2. /\ Head(inbox[s]) \in Seq(Byte) /\ Tail(inbox[s]) \in Seq(Seq(Byte))
      /\ Len(Tail(inbox[s])) = Len(inbox[s]) - 1 /\ Len(inbox[s]) \in Nat
  BY <1>1, HeadTailProperties, LenProperties
<1>3. Len(Tail(inbox[s])) <= MailboxSize
  BY <1>1, <1>2, BoundAssumption
<1> QED  BY <1>1, <1>2, <1>3 DEF Mailboxes

-----------------------------------------------------------------------------
(* The initial states, to which a restart returns but for the clock.       *)

LEMMA InitEstablishesStartupInv == Init => StartupInv
<1> SUFFICES ASSUME Init PROVE StartupInv
  OBVIOUS
<1> USE DEF Init
<1>1. << >> \in Seq(Seq(Byte)) /\ Len(<< >>) = 0
  OBVIOUS
<1>2. TypeOK
  <2>1. 0 \in Byte /\ 0 \in 0 .. retry_max + 1 /\ <<0, 0, 0, 0>> \in [1 .. 4 -> Byte]
    BY BoundAssumption DEF Byte
  <2>2. \A s \in {"init", "setting"} : Len(inbox[s]) <= MailboxSize
    BY <1>1, BoundAssumption
  <2> QED  BY <2>1, <2>2 DEF TypeOK
<1>3. DatagramShape
  BY <1>1 DEF DatagramShape
<1>4. ProgressShape
  BY BoundAssumption DEF ProgressShape
<1>5. OrderShape
  BY DEF OrderShape
<1> QED  BY <1>2, <1>3, <1>4, <1>5 DEF StartupInv

(* A panic at any moment is harmless.                                      *)
LEMMA RestartKeeps ==
  ASSUME StartupInv, Restart
  PROVE  StartupInv'
<1> USE DEF Restart
<1>1. << >> \in Seq(Seq(Byte)) /\ Len(<< >>) = 0
  OBVIOUS
<1>2. TypeOK'
  <2>1. 0 \in Byte /\ 0 \in 0 .. retry_max + 1 /\ <<0, 0, 0, 0>> \in [1 .. 4 -> Byte]
    BY BoundAssumption DEF Byte
  <2>2. \A s \in {"init", "setting"} : Len(inbox'[s]) <= MailboxSize
    BY <1>1, BoundAssumption
  <2> QED  BY <2>1, <2>2 DEF TypeOK
<1>3. DatagramShape'
  BY <1>1 DEF DatagramShape
<1>4. ProgressShape'
  BY BoundAssumption DEF ProgressShape
<1>5. OrderShape'
  BY DEF OrderShape
<1> QED  BY <1>2, <1>3, <1>4, <1>5 DEF StartupInv

-----------------------------------------------------------------------------
(* A step of app_main.                                                     *)

(* What the types of the mailboxes are in the words of the lemmas above.   *)
LEMMA HasMailboxes == StartupInv => Mailboxes /\ replies \in InFlight
BY DEF StartupInv, TypeOK, DatagramShape, Mailboxes, InFlight, Sockets

(* The four steps that talk to the server for the registration.            *)
LEMMA RegistrationKeepsType ==
  ASSUME StartupInv, OpenInitSock \/ Register \/ ReceiveID \/ ReceivePort
  PROVE  TypeOK' /\ DatagramShape'
<1>0. /\ TypeOK /\ DatagramShape /\ Mailboxes
      /\ sensorID \in Byte /\ data_port \in [1 .. 4 -> Byte]
  BY HasMailboxes DEF StartupInv, TypeOK
<1> USE DEF sockets, assigned, timing, outcome, node, environment
<1>1. CASE OpenInitSock
  BY <1>0, <1>1 DEF OpenInitSock, Outcomes, TypeOK, DatagramShape
<1>2. CASE Register
  BY <1>0, <1>2 DEF Register, TypeOK, DatagramShape
<1>3. CASE (ReceiveID \/ ReceivePort) /\ InitSockError
  <2>1. ~InitSockDatagram
    BY <1>3 DEF InitSockError, InitSockDatagram
  <2> QED  BY <1>0, <1>3, <2>1 DEF ReceiveID, ReceivePort, InitSockError, TypeOK, DatagramShape
<1>4. CASE (ReceiveID \/ ReceivePort) /\ ~InitSockError
  <2>1. InitSockDatagram
    BY <1>4 DEF ReceiveID, ReceivePort
  <2>2. Mailboxes' /\ Head(inbox["init"]) \in Seq(Byte)
    BY <1>0, <2>1, ReadKeepsMailboxes DEF InitSockDatagram, Sockets
  <2>3. sensorID' \in Byte /\ data_port' \in [1 .. 4 -> Byte]
    BY <1>0, <1>4, <2>2, ReceivedByte, ReceivedPort DEF ReceiveID, ReceivePort
  <2>4. /\ server_addr' = "server" /\ UNCHANGED replies /\ pc' \notin {"init_sock", "register"}
        /\ UNCHANGED <<sockets, timing, outcome, clock>>
    BY <1>4, <2>1 DEF ReceiveID, ReceivePort, InitSockDatagram
  <2> QED  BY <1>0, <2>2, <2>3, <2>4 DEF TypeOK, DatagramShape, Mailboxes, Sockets
<1> QED  BY <1>1, <1>2, <1>3, <1>4

(* The other steps touch the network in Listen only.                       *)
LEMMA OtherStepsKeepType ==
  ASSUME StartupInv,
         \/ OpenSock \/ BindSettingSock \/ WaitForTime \/ ReadTime \/ TimeDone
         \/ Listen \/ StartTimer \/ CreateSendTask
  PROVE  TypeOK' /\ DatagramShape'
<1>0. TypeOK /\ DatagramShape /\ ProgressShape /\ Mailboxes
  BY HasMailboxes DEF StartupInv
<1> USE DEF sockets, assigned, timing, outcome, node, environment
<1>1. CASE OpenSock
  BY <1>0, <1>1 DEF OpenSock, Outcomes, TypeOK, DatagramShape
<1>2. CASE BindSettingSock
  BY <1>0, <1>2 DEF BindSettingSock, Outcomes, TypeOK, DatagramShape
<1>3. CASE WaitForTime
  BY <1>0, <1>3, BoundAssumption DEF WaitForTime, TypeOK, DatagramShape
<1>4. CASE ReadTime
  BY <1>0, <1>4 DEF ReadTime, TypeOK, DatagramShape
<1>5. CASE TimeDone
  <2>1. retry' \in 0 .. retry_max + 1
    BY <1>0, <1>5, BoundAssumption DEF TimeDone, TypeOK, ProgressShape
  <2> QED  BY <1>0, <1>5, <2>1 DEF TimeDone, TypeOK, DatagramShape
<1>6. CASE Listen
  <2>1. Mailboxes' /\ Head(inbox["setting"]) \in Seq(Byte)
    BY <1>0, <1>6, ReadKeepsMailboxes DEF Listen, Sockets
  <2>2. startMeasurement' \in Byte
    BY <1>0, <1>6, <2>1, ReceivedByte DEF Listen, TypeOK
  <2> QED  BY <1>0, <1>6, <2>1, <2>2 DEF Listen, TypeOK, DatagramShape, Mailboxes, Sockets
<1>7. CASE StartTimer
  BY <1>0, <1>7 DEF StartTimer, TypeOK, DatagramShape
<1>8. CASE CreateSendTask
  BY <1>0, <1>8 DEF CreateSendTask, Outcomes, TypeOK, DatagramShape
<1> QED  BY <1>1, <1>2, <1>3, <1>4, <1>5, <1>6, <1>7, <1>8

(* The loop for the time is left for the start signal only with a time.    *)
LEMMA AppMainKeepsProgress ==
  ASSUME StartupInv, AppMain
  PROVE  ProgressShape'
<1>0. TypeOK /\ ProgressShape
  BY DEF StartupInv
<1> USE DEF sockets, assigned, timing, outcome, node, environment
<1>1. CASE OpenInitSock
  BY <1>0, <1>1 DEF OpenInitSock, ProgressShape
<1>2. CASE Register
  BY <1>0, <1>2 DEF Register, ProgressShape
<1>3. CASE ReceiveID \/ ReceivePort
  <2>1. /\ pc \in {"recv_id", "recv_port"} /\ pc' \in {"recv_port", "data_sock"}
        /\ UNCHANGED <<sockets, timing, outcome, clock>>
    BY <1>3 DEF ReceiveID, ReceivePort
  <2> QED  BY <1>0, <2>1 DEF ProgressShape
<1>4. CASE OpenSock
  BY <1>0, <1>4 DEF OpenSock, Outcomes, ProgressShape
<1>5. CASE BindSettingSock
  BY <1>0, <1>5 DEF BindSettingSock, ProgressShape
<1>6. CASE WaitForTime
  BY <1>0, <1>6, BoundAssumption DEF WaitForTime, ProgressShape, TypeOK
<1>7. CASE ReadTime
  BY <1>0, <1>7 DEF ReadTime, ProgressShape
<1>8. CASE TimeDone
  <2>1. ~timeinfo => pc' = "returned"
    BY <1>0, <1>8, BoundAssumption DEF TimeDone, TypeOK
  <2> QED  BY <1>0, <1>8, <2>1 DEF TimeDone, ProgressShape
<1>9. CASE Listen
  BY <1>0, <1>9 DEF Listen, ProgressShape
<1>10. CASE StartTimer
  BY <1>0, <1>10 DEF StartTimer, ProgressShape
<1>11. CASE CreateSendTask
  BY <1>0, <1>11 DEF CreateSendTask, ProgressShape
<1> QED  BY <1>1, <1>2, <1>3, <1>4, <1>5, <1>6, <1>7, <1>8, <1>9, <1>10, <1>11 DEF AppMain

(* Heads and tails of the mailbox as they occur below.                     *)
LEMMA Foremost ==
  /\ Head(<<IdReply>>) = IdReply /\ Tail(<<IdReply>>) = << >>
  /\ Head(<<PortReply>>) = PortReply /\ Tail(<<PortReply>>) = << >>
  /\ Head(<<IdReply, PortReply>>) = IdReply /\ Tail(<<IdReply, PortReply>>) = <<PortReply>>
  /\ Append(<< >>, IdReply) = <<IdReply>> /\ Append(<< >>, PortReply) = <<PortReply>>
  /\ Append(<<IdReply>>, PortReply) = <<IdReply, PortReply>>
<1>1. ASSUME NEW a
      PROVE  Head(<<a>>) = a /\ Tail(<<a>>) = << >> /\ Append(<< >>, a) = <<a>>
  OBVIOUS
<1>2. ASSUME NEW a, NEW b
      PROVE  Head(<<a, b>>) = a /\ Tail(<<a, b>>) = <<b>> /\ Append(<<a>>, b) = <<a, b>>
  <2>1. Head(<<a, b>>) = a
    OBVIOUS
  <2>2. Tail(<<a, b>>) = <<b>>
    OBVIOUS
  <2>3. Append(<<a>>, b) = <<a, b>>
    <3>1. /\ <<a>> \in Seq({a, b}) /\ <<a, b>> \in Seq({a, b})
          /\ Len(<<a>>) = 1 /\ <<a>>[1] = a
          /\ Len(<<a, b>>) = 2 /\ <<a, b>>[1] = a /\ <<a, b>>[2] = b
      OBVIOUS
    <3>2. /\ Append(<<a>>, b) \in Seq({a, b}) /\ Len(Append(<<a>>, b)) = 2
          /\ Append(<<a>>, b)[1] = a /\ Append(<<a>>, b)[2] = b
      BY <3>1, AppendProperties
    <3>3. \A t, u \in Seq({a, b}) :
            Len(t) = 2 /\ Len(u) = 2 /\ t[1] = u[1] /\ t[2] = u[2] => t = u
      <4> SUFFICES ASSUME NEW t \in Seq({a, b}), NEW u \in Seq({a, b}), Len(t) = 2,
                          Len(u) = 2, t[1] = u[1], t[2] = u[2]
                   PROVE  t = u
        OBVIOUS
      <4>1. \A i \in 1 .. Len(t) : t[i] = u[i]
        OBVIOUS
      <4> QED  BY <4>1, SeqEqual
    <3> QED  BY <3>1, <3>2, <3>3
  <2> QED  BY <2>1, <2>2, <2>3
<1> QED  BY <1>1, <1>2

(* Whoever reads a reply reads the next one, or all that were left.        *)
LEMMA AppMainKeepsOrder ==
  ASSUME StartupInv, AppMain
  PROVE  OrderShape'
<1>0. /\ TypeOK /\ DatagramShape /\ OrderShape /\ Mailboxes
      /\ sensorID \in Byte /\ data_port \in [1 .. 4 -> Byte]
  BY HasMailboxes DEF StartupInv, TypeOK
<1> SUFFICES ASSUME ~Reordering, init_sock' = "open" PROVE OrderShape'
  BY DEF OrderShape
<1> USE DEF sockets, assigned, timing, outcome, node, environment
<1>1. CASE OpenInitSock
  BY <1>1 DEF OpenInitSock, OrderShape
<1>2. CASE Register
  BY <1>0, <1>2 DEF Register, OrderShape, DatagramShape
<1>3. CASE ReceiveID
  <2>1. /\ pc = "recv_id" /\ pc' = "recv_port" /\ init_sock = "open" /\ UNCHANGED replies
        /\ InitSockDatagram
        /\ sensorID' = Received(<<sensorID>>, Head(inbox["init"]))[1]
    BY <1>3 DEF ReceiveID, InitSockError
  <2>2. Head(inbox["init"]) \in Seq(Byte) /\ inbox'["init"] = Tail(inbox["init"])
    BY <1>0, <2>1, ReadKeepsMailboxes DEF InitSockDatagram, Sockets
  <2>3. CASE inbox["init"] = <<IdReply>> /\ replies \in {<< >>, <<PortReply>>}
    <3>1. sensorID' = AssignedID
      BY <1>0, <2>1, <2>2, <2>3, ReceivedByte, Foremost
    <3>2. inbox'["init"] = << >>
      BY <2>2, <2>3, Foremost
    <3> QED  BY <2>1, <2>3, <3>1, <3>2 DEF OrderShape
  <2>4. CASE inbox["init"] = <<PortReply>> /\ replies = << >>
    <3>1. inbox'["init"] = << >>
      BY <2>2, <2>4, Foremost
    <3> QED  BY <2>1, <2>4, <3>1 DEF OrderShape
  <2>5. CASE inbox["init"] = <<IdReply, PortReply>> /\ replies = << >>
    <3>1. sensorID' = AssignedID
      BY <1>0, <2>1, <2>2, <2>5, ReceivedByte, Foremost
    <3>2. inbox'["init"] = <<PortReply>>
      BY <2>2, <2>5, Foremost
    <3> QED  BY <2>1, <2>5, <3>1, <3>2 DEF OrderShape
  <2> QED  BY <1>0, <2>1, <2>3, <2>4, <2>5 DEF OrderShape, InitSockDatagram
<1>4. CASE ReceivePort
  <2>1. /\ pc = "recv_port" /\ pc' = "data_sock" /\ init_sock = "open"
        /\ InitSockDatagram /\ UNCHANGED sensorID
        /\ data_port' = Received(data_port, Head(inbox["init"]))
    BY <1>4 DEF ReceivePort, InitSockError
  <2>2. inbox["init"] # << >> /\ Head(inbox["init"]) \in Seq(Byte)
    BY <1>0, <2>1, ReadKeepsMailboxes DEF InitSockDatagram, Sockets
  <2>3. sensorID = AssignedID /\ inbox["init"] = <<PortReply>>
    BY <1>0, <2>1, <2>2 DEF OrderShape
  <2>4. data_port' = PortReply
    BY <1>0, <2>1, <2>2, <2>3, ReceivedPort, Foremost
  <2> QED  BY <2>1, <2>3, <2>4 DEF OrderShape
<1>5. CASE OpenSock \/ BindSettingSock \/ WaitForTime \/ ReadTime \/ TimeDone
           \/ Listen \/ StartTimer \/ CreateSendTask
  <2>1. /\ pc \notin {"init_sock", "register", "recv_id", "recv_port"}
        /\ pc' \notin {"init_sock", "register", "recv_id", "recv_port"}
        /\ UNCHANGED <<init_sock, sensorID, data_port>>
    BY <1>5 DEF OpenSock, BindSettingSock, WaitForTime, ReadTime, TimeDone, Listen,
                StartTimer, CreateSendTask
  <2> QED  BY <1>0, <2>1 DEF OrderShape
<1> QED  BY <1>1, <1>2, <1>3, <1>4, <1>5 DEF AppMain

-----------------------------------------------------------------------------
(* A step of the network, the server or the SNTP client.                   *)

(* A reply arrives in its turn.                                            *)
LEMMA DeliverKeeps ==
  ASSUME StartupInv, Deliver
  PROVE  StartupInv'
<1>0. /\ TypeOK /\ DatagramShape /\ ProgressShape /\ OrderShape /\ Mailboxes
      /\ replies \in InFlight
  BY HasMailboxes DEF StartupInv
<1> USE DEF sockets, assigned, timing, outcome, node
<1>1. PICK i \in DOMAIN replies :
        /\ i = 1 \/ Reordering
        /\ Arrive("init", replies[i])
        /\ replies' = RemoveAt(replies, i)
        /\ UNCHANGED <<pc, node, clock, restarts>>
  BY DEF Deliver
<1>2. replies[i] \in {IdReply, PortReply} /\ replies' \in InFlight
  BY <1>0, <1>1, OneLess
<1>3. /\ Mailboxes'
      /\ inbox'["init"] \in {inbox["init"], Append(inbox["init"], replies[i])}
  BY <1>0, <1>1, <1>2, Replies, ArriveKeepsMailboxes DEF Sockets
<1>4. replies # << >> /\ pc \notin {"init_sock", "register"}
  <2>1. replies # << >>
    BY <1>1
  <2> QED  BY <1>0, <2>1 DEF DatagramShape
<1>5. TypeOK'
  BY <1>0, <1>1, <1>3 DEF TypeOK, Mailboxes, Sockets
<1>6. DatagramShape'
  BY <1>1, <1>2, <1>3, <1>4 DEF DatagramShape, Mailboxes, Sockets, InFlight
<1>7. ProgressShape'
  BY <1>0, <1>1 DEF ProgressShape
<1>8. OrderShape'
  <2> SUFFICES ASSUME ~Reordering, init_sock = "open" PROVE OrderShape'
    BY <1>1 DEF OrderShape
  <2>1. \/ replies = <<IdReply>> /\ replies[i] = IdReply /\ replies' = << >>
        \/ replies = <<PortReply>> /\ replies[i] = PortReply /\ replies' = << >>
        \/ replies = <<IdReply, PortReply>> /\ replies[i] = IdReply
           /\ replies' = <<PortReply>>
    BY <1>0, <1>1, OneLess
  <2>2. CASE pc = "recv_id"
    <3>1. CASE inbox["init"] = << >>
      BY <1>1, <1>3, <2>1, <2>2, <3>1, Foremost DEF OrderShape
    <3>2. CASE inbox["init"] = <<IdReply>> /\ replies \in {<< >>, <<PortReply>>}
      <4>1. replies = <<PortReply>> /\ replies[i] = PortReply /\ replies' = << >>
        BY <1>4, <2>1, <3>2
      <4> QED  BY <1>1, <1>3, <2>2, <3>2, <4>1, Foremost DEF OrderShape
    <3> QED  BY <1>0, <1>4, <2>2, <3>1, <3>2 DEF OrderShape
  <2>3. CASE pc = "recv_port"
    <3>1. sensorID = AssignedID /\ inbox["init"] = << >> /\ replies = <<PortReply>>
      BY <1>0, <1>4, <2>3 DEF OrderShape
    <3>2. replies[i] = PortReply /\ replies' = << >>
      BY <2>1, <3>1
    <3> QED  BY <1>1, <1>3, <2>3, <3>1, <3>2, Foremost DEF OrderShape
  <2>4. CASE pc \notin {"recv_id", "recv_port"}
    BY <1>0, <1>1, <1>4, <2>4 DEF OrderShape
  <2> QED  BY <2>2, <2>3, <2>4
<1> QED  BY <1>5, <1>6, <1>7, <1>8 DEF StartupInv

(* A reply that gets lost lets nobody pass.                                *)
LEMMA LoseKeeps ==
  ASSUME StartupInv, Lose
  PROVE  StartupInv'
<1>0. /\ TypeOK /\ DatagramShape /\ ProgressShape /\ OrderShape
      /\ replies \in InFlight
  BY HasMailboxes DEF StartupInv
<1> USE DEF sockets, assigned, timing, outcome, node
<1>1. PICK i \in DOMAIN replies : replies' = RemoveAt(replies, i)
  BY DEF Lose
<1>2. UNCHANGED <<pc, node, inbox, clock, restarts>>
  BY DEF Lose
<1>3. replies' \in InFlight /\ replies # << >>
  BY <1>0, <1>1, OneLess
<1>4. TypeOK' /\ ProgressShape'
  BY <1>0, <1>2 DEF TypeOK, ProgressShape
<1>5. DatagramShape'
  BY <1>0, <1>2, <1>3 DEF DatagramShape, InFlight
<1>6. OrderShape'
  <2>1. replies = <<PortReply>> => replies' = << >>
    <3>1. replies = <<PortReply>> => i = 1
      BY <1>1
    <3> QED  BY <1>1, <3>1, RemoveFromInFlight
  <2> QED  BY <1>0, <1>2, <1>3, <2>1 DEF OrderShape
<1> QED  BY <1>4, <1>5, <1>6 DEF StartupInv

(* A broadcast reaches the other socket, a new time nobody but the clock.  *)
LEMMA ServerKeeps ==
  ASSUME StartupInv, (\E byte \in {0, 1} : Broadcast(byte)) \/ SetClock
  PROVE  StartupInv'
<1>0. /\ TypeOK /\ DatagramShape /\ ProgressShape /\ OrderShape /\ Mailboxes
  BY HasMailboxes DEF StartupInv
<1> USE DEF sockets, assigned, timing, outcome, node
<1>1. CASE SetClock
  BY <1>0, <1>1 DEF SetClock, StartupInv, TypeOK, DatagramShape, ProgressShape, OrderShape
<1>2. ASSUME NEW byte \in {0, 1}, Broadcast(byte) PROVE StartupInv'
  <2>1. <<byte>> \in Seq(Byte)
    BY DEF Byte
  <2>2. Mailboxes' /\ inbox'["init"] = inbox["init"]
    BY <1>0, <1>2, <2>1, ArriveKeepsMailboxes DEF Broadcast, Sockets
  <2>3. UNCHANGED <<pc, node, replies, clock, restarts>>
    BY <1>2 DEF Broadcast
  <2>4. TypeOK' /\ ProgressShape'
    BY <1>0, <2>2, <2>3 DEF TypeOK, ProgressShape, Mailboxes, Sockets
  <2>5. DatagramShape' /\ OrderShape'
    BY <1>0, <2>2, <2>3 DEF DatagramShape, OrderShape, Mailboxes, Sockets
  <2> QED  BY <2>4, <2>5 DEF StartupInv
<1> QED  BY <1>1, <1>2

-----------------------------------------------------------------------------
(* The theorems.                                                           *)

(* StartupInv holds in every state of a node that starts.                  *)
THEOREM StartupInvariance == Spec => []StartupInv
<1>1. StartupInv /\ [Next]_vars => StartupInv'
  <2> SUFFICES ASSUME StartupInv, [Next]_vars PROVE StartupInv'
    OBVIOUS
  <2>1. CASE AppMain
    <3>1. TypeOK' /\ DatagramShape'
      BY <2>1, RegistrationKeepsType, OtherStepsKeepType DEF AppMain
    <3> QED  BY <2>1, <3>1, AppMainKeepsProgress, AppMainKeepsOrder DEF StartupInv
  <2>2. CASE Environment
    BY <2>2, DeliverKeeps, LoseKeeps, ServerKeeps, RestartKeeps DEF Environment
  <2>3. CASE UNCHANGED vars
    BY <2>3 DEF StartupInv, TypeOK, DatagramShape, ProgressShape, OrderShape,
                vars, node, environment, sockets, assigned, timing, outcome
  <2> QED  BY <2>1, <2>2, <2>3 DEF Next
<1> QED  BY <1>1, InitEstablishesStartupInv, PTL DEF Spec

(* Every variable keeps its type and no mailbox overflows, on every        *)
(* network and through every failure.                                      *)
THEOREM StartupTypes == Spec => []TypeOK
BY StartupInvariance, PTL DEF StartupInv

(* A node that measures has been told to, has a socket and a time, and on  *)
(* a network that keeps the order of datagrams it has the identity that    *)
(* the server assigned, if its first socket call succeeded.                *)
THEOREM ConfiguredFirst ==
  ASSUME ~Reordering
  PROVE  Spec => []ConfiguredBeforeMeasuring
<1>1. ASSUME StartupInv PROVE ConfiguredBeforeMeasuring
  BY <1>1 DEF StartupInv, ProgressShape, OrderShape, ConfiguredBeforeMeasuring
<1> QED  BY <1>1, StartupInvariance, PTL

(* The order matters to the identity alone: on any network a node that     *)
(* measures has the start signal, a socket and a time.                     *)
THEOREM ReadyBeforeMeasuring ==
  Spec => [](gptimer => sock = "open" /\ startMeasurement = 1 /\ clock # "boot")
<1>1. StartupInv => (gptimer => sock = "open" /\ startMeasurement = 1 /\ clock # "boot")
  BY DEF StartupInv, ProgressShape
<1> QED  BY <1>1, StartupInvariance, PTL
=============================================================================
