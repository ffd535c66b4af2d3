----------------------------- MODULE WifiProofs -----------------------------
(***************************************************************************)
(* Proofs about the way into the network and the LED, for every number of  *)
(* retries and with any further tasks that never call set_led.             *)
(***************************************************************************)
EXTENDS WifiSetting, SequenceTheorems, TLAPS

StepName == {"clear", "green", "red", "blue", "enable", "transmit", "wait", "disable", "none"}

-----------------------------------------------------------------------------
(* Colours and steps.                                                      *)

(* The colours that are asked for are colours, and none of them is None.   *)
LEMMA Colours ==
  /\ Requested \subseteq AnyColour
  /\ Dark \in Requested /\ Red \in Requested /\ Green \in Requested /\ Blue \in Requested
  /\ None \notin AnyColour
<1>1. \A r, g, b \in {0, 6} : Colour(r, g, b) \in AnyColour
  BY DEF Colour, AnyColour, Channel
<1>2. DOMAIN None = {} /\ \A c \in AnyColour : DOMAIN c # {}
  BY DEF None, AnyColour, Channel
<1> QED  BY <1>1, <1>2 DEF Requested, Dark, Red, Green, Blue

(* A byte is followed by the next one, the last one by rmt_enable.         *)
LEMMA AfterByte ==
  /\ After("green") = "red" /\ After("red") = "blue" /\ After("blue") = "enable"
<1>1. /\ Steps[1] = "green" /\ Steps[2] = "red" /\ Steps[3] = "blue" /\ Steps[4] = "enable"
      /\ Steps[5] = "transmit" /\ Steps[6] = "wait" /\ Steps[7] = "disable"
  BY DEF Steps
<1>2. \A i \in 1 .. 7 : i \in {1, 2, 3, 4, 5, 6, 7}
  OBVIOUS
<1>3. /\ (CHOOSE i \in 1 .. 7 : Steps[i] = "green") = 1
      /\ (CHOOSE i \in 1 .. 7 : Steps[i] = "red") = 2
      /\ (CHOOSE i \in 1 .. 7 : Steps[i] = "blue") = 3
  <2>1. \A i \in 1 .. 7 : (Steps[i] = "green" <=> i = 1) /\ (Steps[i] = "red" <=> i = 2)
                          /\ (Steps[i] = "blue" <=> i = 3)
    BY <1>1, <1>2
  <2> QED  BY <2>1
<1> QED  BY <1>1, <1>3 DEF After

(* The names of the steps.                                                 *)
LEMMA StepNames == {Steps[i] : i \in 1 .. 8} \cup {"clear"} = StepName
<1>1. /\ Steps[1] = "green" /\ Steps[2] = "red" /\ Steps[3] = "blue" /\ Steps[4] = "enable"
      /\ Steps[5] = "transmit" /\ Steps[6] = "wait" /\ Steps[7] = "disable"
      /\ Steps[8] = "none"
  BY DEF Steps
<1>2. 1 .. 8 = {1, 2, 3, 4, 5, 6, 7, 8}
  OBVIOUS
<1> HIDE DEF Steps
<1> QED  BY <1>1, <1>2 DEF StepName

(* Every step of a call, with the names spelt out.                         *)
LEMMA CallType ==
  LedTypeOK => call \in [Task -> [step : StepName, colour : Requested, alone : BOOLEAN]]
BY StepNames DEF LedTypeOK

(* A step of a call changes where the call stands, and nothing else of it  *)
(* or of any other.                                                        *)
LEMMA OneStep ==
  ASSUME LedTypeOK, NEW t \in Task, NEW step \in StepName, GoTo(t, step)
  PROVE  /\ call' \in [Task -> [step : StepName, colour : Requested, alone : BOOLEAN]]
         /\ At(t)' = step
         /\ \A u \in Task : u # t => At(u)' = At(u)
         /\ \A u \in Task : call'[u].colour = call[u].colour /\ call'[u].alone = call[u].alone
BY CallType DEF GoTo, At

-----------------------------------------------------------------------------
(* The LED: a call begins.                                                 *)

LEMMA BeginKeepsLedInv ==
  ASSUME LedInv, NEW t \in Task, NEW colour \in Requested, NEW step \in {"clear", "green"},
         Begin(t, colour, step), step = "clear" => colour = Dark
  PROVE  /\ LedInv'
         /\ \A u \in Task : Calling(u) => Calling(u)'
         /\ \A u \in Task : u # t => At(u)' = At(u)
<1> DEFINE called == [u \in Task |->
             IF u = t
               THEN [step |-> step, colour |-> colour,
                     alone |-> \A v \in Task : ~Calling(v)]
               ELSE [call[u] EXCEPT !.alone = FALSE]]
<1>0. /\ LedTypeOK /\ ChannelShape /\ ~Calling(t)
      /\ call \in [Task -> [step : StepName, colour : Requested, alone : BOOLEAN]]
      /\ call' = called /\ latest' = colour
      /\ UNCHANGED <<pixel_buf, rmt, sending, shown>>
  BY CallType DEF LedInv, Begin
<1>1. (\A v \in Task : ~Calling(v)) \in BOOLEAN
  OBVIOUS
<1>2. /\ call' \in [Task -> [step : StepName, colour : Requested, alone : BOOLEAN]]
      /\ call'[t].step = step /\ call'[t].colour = colour
      /\ call'[t].alone <=> \A v \in Task : ~Calling(v)
      /\ \A u \in Task : u # t =>
           /\ call'[u].step = call[u].step /\ call'[u].colour = call[u].colour
           /\ call'[u].alone = FALSE
  <2>1. step \in StepName
    BY DEF StepName
  <2> QED  BY <1>0, <1>1, <2>1
<1> HIDE DEF called
<1>3. LedTypeOK'
  BY <1>0, <1>2, StepNames DEF LedTypeOK
<1>4. \A u \in Task : u # t => At(u)' = At(u)
  BY <1>2 DEF At
<1>5. \A u \in Task : (Holding(u) <=> Holding(u)') /\ (At(u) = "wait" <=> At(u)' = "wait")
  <2>1. ~Holding(t) /\ ~Holding(t)' /\ At(t) # "wait" /\ At(t)' # "wait"
    BY <1>0, <1>2 DEF Holding, At, Calling
  <2> QED  BY <1>4, <2>1 DEF Holding
<1>6. ChannelShape'
  BY <1>0, <1>5 DEF ChannelShape
<1>7. ASSUME NEW u \in Task, Calling(u)', call'[u].alone PROVE AloneShape(u)'
  <2>1. u = t /\ \A v \in Task : ~Calling(v)
    BY <1>2, <1>7
  <2>2. \A v \in Task : v # u => ~Calling(v)'
    BY <1>4, <2>1 DEF Calling
  <2>3. At(u)' = step /\ call'[u].colour = colour
    BY <1>2, <2>1 DEF At
  <2> QED  BY <2>2, <2>3 DEF AloneShape
<1>8. \A u \in Task : Calling(u) => Calling(u)'
  BY <1>0, <1>4 DEF Calling
<1> QED  BY <1>3, <1>4, <1>6, <1>7, <1>8 DEF LedInv

(* set_led and config_led begin with the byte for green and with the       *)
(* clearing of the pixel.                                                  *)
LEMMA CallsKeepLedInv ==
  ASSUME LedInv, NEW t \in Task, NEW colour \in Requested,
         set_led(t, colour) \/ config_led(t)
  PROVE  /\ LedInv'
         /\ \A u \in Task : Calling(u) => Calling(u)'
         /\ \A u \in Task : u # t => At(u)' = At(u)
BY BeginKeepsLedInv, Colours DEF set_led, config_led

-----------------------------------------------------------------------------
(* The LED: a step of a call, or of the hardware.                          *)

(* Nobody is alone beside another call.                                    *)
LEMMA OthersAreNotAlone ==
  ASSUME LedInv, NEW t \in Task, Calling(t), NEW u \in Task, u # t, Calling(u)
  PROVE  ~call[u].alone
BY DEF LedInv, AloneShape

(* A step that neither enables nor disables the channel and sends nothing  *)
(* leaves it as it is.                                                     *)
LEMMA QuietStepKeepsChannel ==
  ASSUME LedInv, NEW t \in Task, NEW step \in StepName, GoTo(t, step),
         Holding(t)' <=> Holding(t), At(t) = "wait" => sending = None,
         UNCHANGED <<rmt, sending>>
  PROVE  ChannelShape'
<1>1. /\ \A u \in Task : u # t => At(u)' = At(u)
      /\ ChannelShape
  BY OneStep DEF LedInv
<1>2. \A u \in Task : Holding(u)' <=> Holding(u)
  BY <1>1 DEF Holding
<1>3. sending # None => \E u \in Task : At(u)' = "wait"
  BY <1>1 DEF ChannelShape
<1> QED  BY <1>1, <1>2, <1>3 DEF ChannelShape

LEMMA LedStepKeepsLedInv ==
  ASSUME LedInv, NEW t \in Task, LedStep(t)
  PROVE  /\ LedInv'
         /\ \A u \in Task : u # t => At(u)' = At(u)
         /\ Calling(t) /\ ~Calling(t)' /\ call[t].alone => shown = call[t].colour
<1> DEFINE colour == call[t].colour
<1>0. /\ LedTypeOK /\ ChannelShape
      /\ call \in [Task -> [step : StepName, colour : Requested, alone : BOOLEAN]]
      /\ pixel_buf \in AnyColour /\ colour \in AnyColour
  BY CallType, Colours DEF LedInv, LedTypeOK
<1>1. ASSUME NEW step \in StepName, GoTo(t, step), Calling(t),
             LedTypeOK', ChannelShape',
             call[t].alone /\ step # "none" => AloneShape(t)'
      PROVE  LedInv' /\ \A u \in Task : u # t => At(u)' = At(u)
  <2>1. /\ At(t)' = step
        /\ \A u \in Task : u # t => At(u)' = At(u)
        /\ \A u \in Task : call'[u].alone = call[u].alone
    BY <1>0, <1>1, OneStep
  <2>2. ASSUME NEW u \in Task, Calling(u)', call'[u].alone PROVE AloneShape(u)'
    <3>1. CASE u = t
      BY <1>1, <2>1, <2>2, <3>1 DEF Calling
    <3>2. CASE u # t
      BY <1>1, <2>1, <2>2, <3>2, OthersAreNotAlone DEF Calling
    <3> QED  BY <3>1, <3>2
  <2> QED  BY <1>1, <2>1, <2>2 DEF LedInv
<1>2. Calling(t) /\ (call[t].alone => AloneShape(t))
  BY DEF LedInv, LedStep, Clear, SetByte, Enable, Transmit, AllDone, Disable, Calling, Channel
<1>3. ASSUME NEW step \in StepName, GoTo(t, step)
      PROVE  /\ At(t)' = step /\ call'[t].colour = colour
             /\ (\A u \in Task : u # t => ~Calling(u)) =>
                  (\A u \in Task : u # t => ~Calling(u))'
             /\ LedTypeOK /\ UNCHANGED latest
                 /\ pixel_buf' \in AnyColour /\ shown' \in AnyColour
                 /\ rmt' \in {"init", "enabled"} /\ sending' \in AnyColour \cup {None}
                 => LedTypeOK'
  <2>1. /\ call' \in [Task -> [step : StepName, colour : Requested, alone : BOOLEAN]]
        /\ At(t)' = step /\ call'[t].colour = colour
        /\ \A u \in Task : u # t => At(u)' = At(u)
    BY <1>0, <1>3, OneStep
  <2> QED  BY <2>1, StepNames DEF LedTypeOK, Calling
<1>4. CASE Clear(t)
  <2>1. /\ At(t) = "clear" /\ pixel_buf' = Dark /\ GoTo(t, "enable") /\ "enable" \in StepName
        /\ UNCHANGED <<rmt, sending, shown, latest>>
    BY <1>4 DEF Clear, StepName
  <2>2. At(t)' = "enable" /\ call'[t].colour = colour
    BY <1>3, <2>1
  <2>3. LedTypeOK'
    BY <1>0, <1>3, <2>1, Colours DEF LedTypeOK
  <2>4. ChannelShape'
    BY <2>1, <2>2, QuietStepKeepsChannel DEF Holding
  <2>5. call[t].alone => AloneShape(t)'
    BY <1>2, <1>3, <2>1, <2>2 DEF AloneShape
  <2>6. LedInv' /\ \A u \in Task : u # t => At(u)' = At(u)
    BY <1>1, <1>2, <2>1, <2>3, <2>4, <2>5
  <2> QED  BY <2>2, <2>6 DEF Calling
<1>5. CASE SetByte(t)
  <2>1. /\ At(t) \in {"green", "red", "blue"}
        /\ pixel_buf' = [pixel_buf EXCEPT ![At(t)] = colour[At(t)]]
        /\ GoTo(t, After(At(t))) /\ After(At(t)) \in StepName
        /\ UNCHANGED <<rmt, sending, shown, latest>>
    BY <1>5, AfterByte DEF SetByte, StepName, Channel
  <2>2. At(t)' = After(At(t)) /\ call'[t].colour = colour
    BY <1>3, <2>1
  <2>3. /\ pixel_buf' \in AnyColour
        /\ pixel_buf'[At(t)] = colour[At(t)]
        /\ \A c \in Channel : c # At(t) => pixel_buf'[c] = pixel_buf[c]
    BY <1>0, <2>1 DEF AnyColour, Channel
  <2>4. LedTypeOK'
    BY <1>0, <1>3, <2>1, <2>3 DEF LedTypeOK
  <2>5. ChannelShape'
    BY <2>1, <2>2, AfterByte, QuietStepKeepsChannel DEF Holding
  <2>6. call[t].alone => AloneShape(t)'
    <3> SUFFICES ASSUME call[t].alone PROVE AloneShape(t)'
      OBVIOUS
    <3>1. AloneShape(t) /\ (\A u \in Task : u # t => ~Calling(u))'
      BY <1>2, <1>3, <2>1 DEF AloneShape
    <3>2. CASE At(t) = "green"
      <4>1. At(t)' = "red" /\ pixel_buf'["green"] = colour["green"]
        BY <2>2, <2>3, <3>2, AfterByte
      <4> QED  BY <2>2, <3>1, <4>1 DEF AloneShape
    <3>3. CASE At(t) = "red"
      <4>1. /\ At(t)' = "blue" /\ pixel_buf'["red"] = colour["red"]
            /\ pixel_buf'["green"] = colour["green"]
        BY <2>2, <2>3, <3>1, <3>3, AfterByte DEF AloneShape, Channel
      <4> QED  BY <2>2, <3>1, <4>1 DEF AloneShape
    <3>4. CASE At(t) = "blue"
      <4>1. /\ At(t)' = "enable" /\ pixel_buf'["blue"] = colour["blue"]
            /\ pixel_buf'["green"] = colour["green"] /\ pixel_buf'["red"] = colour["red"]
        BY <2>2, <2>3, <3>1, <3>4, AfterByte DEF AloneShape, Channel
      <4>2. pixel_buf' = colour
        BY <1>0, <2>3, <4>1 DEF AnyColour, Channel
      <4> QED  BY <2>2, <3>1, <4>1, <4>2 DEF AloneShape
    <3> QED  BY <2>1, <3>2, <3>3, <3>4
  <2>7. LedInv' /\ \A u \in Task : u # t => At(u)' = At(u)
    BY <1>1, <1>2, <2>1, <2>4, <2>5, <2>6
  <2> QED  BY <2>1, <2>2, <2>7, AfterByte DEF Calling
<1>6. CASE Enable(t)
  <2> DEFINE step == IF rmt = "init" THEN "transmit" ELSE "none"
  <2>1. /\ At(t) = "enable" /\ GoTo(t, step) /\ step \in StepName /\ rmt' = "enabled"
        /\ UNCHANGED <<pixel_buf, sending, shown, latest>>
    BY <1>6 DEF Enable, StepName
  <2>2. /\ At(t)' = step /\ call'[t].colour = colour
        /\ \A u \in Task : u # t => At(u)' = At(u)
    BY <1>0, <1>3, <2>1, OneStep
  <2>3. LedTypeOK'
    BY <1>0, <1>3, <2>1 DEF LedTypeOK
  <2>4. ~Holding(t) /\ rmt \in {"init", "enabled"}
    BY <1>0, <2>1 DEF Holding, LedTypeOK
  <2>5. \A u \in Task : Holding(u)' <=> IF rmt = "init" THEN u = t ELSE Holding(u)
    <3>1. \A u \in Task : rmt = "init" => ~Holding(u)
      BY <1>0 DEF ChannelShape
    <3> QED  BY <2>2, <2>4, <3>1 DEF Holding
  <2>6. sending # None => \E u \in Task : At(u)' = "wait"
    BY <1>0, <2>1, <2>2 DEF ChannelShape
  <2>7. ChannelShape'
    BY <1>0, <2>1, <2>4, <2>5, <2>6 DEF ChannelShape
  <2>8. call[t].alone => rmt = "init"
    <3>1. call[t].alone => \A u \in Task : ~Holding(u)
      BY <1>2, <2>4 DEF AloneShape, Holding, Calling
    <3> QED  BY <1>0, <2>4, <3>1 DEF ChannelShape
  <2>9. call[t].alone /\ step # "none" => AloneShape(t)'
    BY <1>2, <1>3, <2>1, <2>2, <2>8 DEF AloneShape
  <2>10. LedInv' /\ \A u \in Task : u # t => At(u)' = At(u)
    BY <1>1, <1>2, <2>1, <2>3, <2>7, <2>9
  <2> QED  BY <2>2, <2>8, <2>10 DEF Calling
<1>7. CASE Transmit(t)
  <2>1. /\ At(t) = "transmit" /\ rmt = "enabled"
    BY <1>0, <1>7 DEF Transmit, ChannelShape, Holding
  <2>2. /\ sending' = pixel_buf /\ GoTo(t, "wait") /\ "wait" \in StepName
        /\ UNCHANGED <<pixel_buf, rmt, shown, latest>>
    BY <1>7, <2>1 DEF Transmit, StepName
  <2>3. /\ At(t)' = "wait" /\ call'[t].colour = colour
        /\ \A u \in Task : u # t => At(u)' = At(u)
    BY <1>0, <1>3, <2>2, OneStep
  <2>4. LedTypeOK'
    BY <1>0, <1>3, <2>2 DEF LedTypeOK
  <2>5. \A u \in Task : Holding(u)' <=> Holding(u)
    BY <2>1, <2>3 DEF Holding
  <2>6. ChannelShape'
    BY <1>0, <2>2, <2>3, <2>5 DEF ChannelShape
  <2>7. call[t].alone => AloneShape(t)'
    BY <1>0, <1>2, <1>3, <2>1, <2>2, <2>3, Colours DEF AloneShape
  <2>8. LedInv' /\ \A u \in Task : u # t => At(u)' = At(u)
    BY <1>1, <1>2, <2>2, <2>4, <2>6, <2>7
  <2> QED  BY <2>3, <2>8 DEF Calling
<1>8. CASE AllDone(t)
  <2>1. /\ At(t) = "wait" /\ sending = None /\ GoTo(t, "disable") /\ "disable" \in StepName
        /\ UNCHANGED <<pixel_buf, rmt, sending, shown, latest>>
    BY <1>8 DEF AllDone, Blocked, StepName
  <2>2. At(t)' = "disable" /\ call'[t].colour = colour
    BY <1>3, <2>1
  <2>3. LedTypeOK'
    BY <1>0, <1>3, <2>1 DEF LedTypeOK
  <2>4. ChannelShape'
    BY <2>1, <2>2, QuietStepKeepsChannel DEF Holding
  <2>5. call[t].alone => AloneShape(t)'
    BY <1>2, <1>3, <2>1, <2>2 DEF AloneShape
  <2>6. LedInv' /\ \A u \in Task : u # t => At(u)' = At(u)
    BY <1>1, <1>2, <2>1, <2>3, <2>4, <2>5
  <2> QED  BY <2>2, <2>6 DEF Calling
<1>9. CASE Disable(t)
  <2>1. /\ At(t) = "disable" /\ rmt' = "init" /\ GoTo(t, "none") /\ "none" \in StepName
        /\ UNCHANGED <<pixel_buf, sending, shown, latest>>
    BY <1>9 DEF Disable, StepName
  <2>2. /\ At(t)' = "none" /\ call'[t].colour = colour
        /\ \A u \in Task : u # t => At(u)' = At(u)
    BY <1>0, <1>3, <2>1, OneStep
  <2>3. LedTypeOK'
    BY <1>0, <1>3, <2>1 DEF LedTypeOK
  <2>4. \A u \in Task : ~Holding(u)' /\ At(u) # "wait"
    BY <1>0, <2>1, <2>2 DEF ChannelShape, Holding
  <2>5. ChannelShape'
    BY <1>0, <2>1, <2>4 DEF ChannelShape
  <2>6. LedInv' /\ \A u \in Task : u # t => At(u)' = At(u)
    BY <1>1, <1>2, <2>1, <2>3, <2>5
  <2>7. call[t].alone => shown = colour
    BY <1>2, <2>1 DEF AloneShape
  <2> QED  BY <2>6, <2>7
<1> QED  BY <1>4, <1>5, <1>6, <1>7, <1>8, <1>9 DEF LedStep

(* The end of a transmission.                                              *)
LEMMA ShineKeepsLedInv ==
  ASSUME LedInv, Shine
  PROVE  LedInv' /\ UNCHANGED call
<1>1. /\ sending # None /\ shown' = sending /\ sending' = None
      /\ UNCHANGED <<pixel_buf, rmt, call, latest>>
      /\ LedTypeOK /\ ChannelShape
  BY DEF Shine, LedInv
<1>2. LedTypeOK'
  BY <1>1 DEF LedTypeOK
<1>3. \A t \in Task : At(t)' = At(t) /\ (Calling(t) <=> Calling(t)') /\ (Holding(t) <=> Holding(t)')
  BY <1>1 DEF At, Calling, Holding
<1>4. ChannelShape'
  BY <1>1, <1>3 DEF ChannelShape
<1>5. ASSUME NEW t \in Task, Calling(t), call[t].alone PROVE AloneShape(t)'
  <2>1. AloneShape(t) /\ \A u \in Task : u # t => ~Calling(u)
    BY <1>5 DEF LedInv, AloneShape
  <2>2. At(t) = "wait"
    BY <1>1, <2>1 DEF ChannelShape, Calling
  <2> QED  BY <1>1, <1>3, <2>1, <2>2 DEF AloneShape
<1> QED  BY <1>1, <1>2, <1>3, <1>4, <1>5 DEF LedInv

(* Before the first call the channel is at rest.                           *)
LEMMA LedInitEstablishes == LedInit => LedInv
<1> SUFFICES ASSUME LedInit PROVE LedInv
  OBVIOUS
<1>1. \A t \in Task : ~Calling(t) /\ ~Holding(t) /\ At(t) # "wait"
  BY DEF LedInit, Calling, Holding, At
<1>2. LedTypeOK
  <2>1. call \in [Task -> [step : StepName, colour : Requested, alone : BOOLEAN]]
    BY Colours DEF LedInit, StepName
  <2> QED  BY <2>1, Colours, StepNames DEF LedInit, LedTypeOK
<1>3. ChannelShape
  BY <1>1 DEF LedInit, ChannelShape
<1> QED  BY <1>1, <1>2, <1>3 DEF LedInv

-----------------------------------------------------------------------------
(* The link and the verdict.                                               *)

(* Queues of at most two events, as they occur below.                      *)
LEMMA EventQueues ==
  ASSUME NEW a, NEW b
  PROVE  /\ Len(<< >>) = 0 /\ Len(<<a>>) = 1 /\ Len(<<a, b>>) = 2
         /\ Head(<<a>>) = a /\ Tail(<<a>>) = << >>
         /\ Head(<<a, b>>) = a /\ Tail(<<a, b>>) = <<b>>
         /\ Append(<< >>, a) = <<a>> /\ Append(<<a>>, b) = <<a, b>>
<1>1. /\ Len(<< >>) = 0 /\ Len(<<a>>) = 1 /\ Len(<<a, b>>) = 2
      /\ Head(<<a>>) = a /\ Tail(<<a>>) = << >> /\ Append(<< >>, a) = <<a>>
  OBVIOUS
<1>2. Head(<<a, b>>) = a
  OBVIOUS
<1>3. Tail(<<a, b>>) = <<b>>
  OBVIOUS
<1>4. Append(<<a>>, b) = <<a, b>>
  <2>1. /\ <<a>> \in Seq({a, b}) /\ <<a, b>> \in Seq({a, b})
        /\ Len(<<a>>) = 1 /\ <<a>>[1] = a
        /\ Len(<<a, b>>) = 2 /\ <<a, b>>[1] = a /\ <<a, b>>[2] = b
    OBVIOUS
  <2>2. /\ Append(<<a>>, b) \in Seq({a, b}) /\ Len(Append(<<a>>, b)) = 2
        /\ Append(<<a>>, b)[1] = a /\ Append(<<a>>, b)[2] = b
    BY <2>1, AppendProperties
  <2>3. \A s, t \in Seq({a, b}) :
          Len(s) = 2 /\ Len(t) = 2 /\ s[1] = t[1] /\ s[2] = t[2] => s = t
    <3> SUFFICES ASSUME NEW s \in Seq({a, b}), NEW t \in Seq({a, b}), Len(s) = 2,
                        Len(t) = 2, s[1] = t[1], s[2] = t[2]
                 PROVE  s = t
      OBVIOUS
    <3>1. \A i \in 1 .. Len(s) : s[i] = t[i]
      OBVIOUS
    <3> QED  BY <3>1, SeqEqual
  <2> QED  BY <2>1, <2>2, <2>3
<1> QED  BY <1>1, <1>2, <1>3, <1>4

(* The event loop holds what the state of the link allows; whichever event *)
(* is handled, the link is in the state that posted it.                    *)
LEMMA Handled ==
  ASSUME WifiInv, NEW event, Handle(event)
  PROVE  \/ /\ event = "STA_START" /\ events = <<"STA_START">>
            /\ events' = << >> /\ link = "idle"
         \/ /\ event = "STA_DISCONNECTED" /\ events = <<"STA_DISCONNECTED">>
            /\ events' = << >> /\ link = "idle"
         \/ /\ event = "STA_GOT_IP" /\ events = <<"STA_GOT_IP">>
            /\ events' = << >> /\ link = "up"
         \/ /\ event = "STA_GOT_IP" /\ events = <<"STA_GOT_IP", "STA_DISCONNECTED">>
            /\ events' = <<"STA_DISCONNECTED">> /\ link = "idle"
<1>1. events # << >> /\ event = Head(events) /\ events' = Tail(events)
      /\ link \in {"idle", "joining", "up"} /\ LinkShape
  BY DEF Handle, WifiInv, TypeOK
<1>2. \/ link = "up" /\ events = <<"STA_GOT_IP">>
      \/ link = "idle" /\ events \in {<<"STA_START">>, <<"STA_DISCONNECTED">>,
                                     <<"STA_GOT_IP", "STA_DISCONNECTED">>}
  BY <1>1 DEF LinkShape
<1>3. CASE events = <<"STA_GOT_IP">>
  <2>1. event = "STA_GOT_IP" /\ events' = << >>
    BY <1>1, <1>3, EventQueues
  <2>2. link = "up"
    <3>1. /\ <<"STA_GOT_IP">>[1] # <<"STA_START">>[1]
          /\ <<"STA_GOT_IP">>[1] # <<"STA_DISCONNECTED">>[1]
      OBVIOUS
    <3>2. Len(<<"STA_GOT_IP">>) # Len(<<"STA_GOT_IP", "STA_DISCONNECTED">>)
      BY EventQueues
    <3> QED  BY <1>2, <1>3, <3>1, <3>2
  <2> QED  BY <1>3, <2>1, <2>2
<1>4. CASE link = "idle" /\ events = <<"STA_START">>
  BY <1>1, <1>4, EventQueues
<1>5. CASE link = "idle" /\ events = <<"STA_DISCONNECTED">>
  BY <1>1, <1>5, EventQueues
<1>6. CASE link = "idle" /\ events = <<"STA_GOT_IP", "STA_DISCONNECTED">>
  BY <1>1, <1>6, EventQueues
<1> QED  BY <1>2, <1>3, <1>4, <1>5, <1>6

(* What the event loop, the driver and the main task have to agree on.     *)
LinkOK ==
  /\ Len(events) <= 2
  /\ link \in {"idle", "joining", "up"}
  /\ s_retry_num \in 0 .. ESP_MAXIMUM_RETRY
  /\ bits \subseteq {CONNECTED, FAIL}
  /\ main \in {"boot", "config", "wait", "connected", "failed",
               "connected and timed", "failed and timed"}
  /\ LinkShape
  /\ VerdictShape

LEMMA WifiInvParts == WifiInv <=> LedInv /\ LinkOK
BY DEF WifiInv, TypeOK, LedInv, LinkOK

(* The initial states.                                                     *)
LEMMA InitEstablishesWifiInv == Init => WifiInv
<1> SUFFICES ASSUME Init PROVE LedInv /\ LinkOK
  BY WifiInvParts
<1>1. LedInv
  BY LedInitEstablishes DEF Init
<1>2. LinkOK
  BY RetryAssumption, EventQueues DEF Init, LinkOK, LinkShape, VerdictShape, Abandoned
<1> QED  BY <1>1, <1>2

(* The queues that occur.                                                  *)
LEMMA Queues ==
  /\ Len(<< >>) <= 2
  /\ \A q \in {<<"STA_START">>, <<"STA_DISCONNECTED">>, <<"STA_GOT_IP">>,
              <<"STA_GOT_IP", "STA_DISCONNECTED">>} : q # << >> /\ Len(q) <= 2
<1>1. \A a, b : <<a>> # << >> /\ Len(<<a>>) <= 2 /\ <<a, b>> # << >> /\ Len(<<a, b>>) <= 2
  BY EventQueues
<1> QED  BY <1>1, EventQueues

(* A link that is, or is about to be, tried or used.                       *)
LEMMA LinkInUse ==
  ASSUME main' \in {"wait", "connected", "connected and timed"},
         s_retry_num' \in 0 .. ESP_MAXIMUM_RETRY,
         bits' \subseteq {CONNECTED}, bits' \subseteq {CONNECTED, FAIL}, FAIL \notin bits',
         \/ link' = "joining" /\ events' = << >>
         \/ link' = "up" /\ events' = << >>
         \/ link' = "up" /\ events' = <<"STA_GOT_IP">>
         \/ /\ link' = "idle"
            /\ events' \in {<<"STA_START">>, <<"STA_DISCONNECTED">>,
                           <<"STA_GOT_IP", "STA_DISCONNECTED">>}
  PROVE  LinkOK'
<1>1. Len(events') <= 2 /\ (link' = "idle" => events' # << >>)
      /\ link' \in {"idle", "joining", "up"}
  BY Queues
<1>2. LinkShape'
  BY DEF LinkShape
<1>3. VerdictShape'
  BY <1>1 DEF VerdictShape, Abandoned
<1>4. main' \in {"boot", "config", "wait", "connected", "failed",
                "connected and timed", "failed and timed"}
  OBVIOUS
<1> QED  BY <1>1, <1>2, <1>3, <1>4 DEF LinkOK

(* While there is an event or the link is not idle no verdict has fallen.  *)
LEMMA NoVerdict ==
  ASSUME WifiInv, link # "idle" \/ events # << >>
  PROVE  /\ main \in {"wait", "connected", "connected and timed"}
         /\ bits \subseteq {CONNECTED} /\ FAIL \notin bits
<1>1. LinkShape /\ VerdictShape /\ bits \subseteq {CONNECTED, FAIL}
      /\ main \in {"boot", "config", "wait", "connected", "failed",
                   "connected and timed", "failed and timed"}
  BY DEF WifiInv, TypeOK
<1>2. FAIL \notin bits
  BY <1>1 DEF VerdictShape, Abandoned
<1>3. main \notin {"boot", "config", "failed", "failed and timed"}
  BY <1>1, <1>2 DEF LinkShape, VerdictShape
<1> QED  BY <1>1, <1>2, <1>3

(* No event is handled after the verdict, and the retries give up at their *)
(* limit.                                                                  *)
LEMMA EventTaskKeepsLink ==
  ASSUME WifiInv, EventTask
  PROVE  LinkOK'
<1>0. LinkOK /\ s_retry_num \in 0 .. ESP_MAXIMUM_RETRY
  BY WifiInvParts DEF LinkOK
<1>1. CASE LedStep("event") /\ UNCHANGED wifiVars
  BY <1>0, <1>1 DEF wifiVars, LinkOK, LinkShape, VerdictShape, Abandoned
<1>2. FAIL # CONNECTED
  BY DEF FAIL, CONNECTED
<1>3. CASE StationStart \/ Retry
  <2>1. /\ Handle("STA_START") \/ Handle("STA_DISCONNECTED")
        /\ events # << >> /\ esp_wifi_connect /\ UNCHANGED <<bits, main>>
    BY <1>3 DEF StationStart, Retry, Handle
  <2>2. s_retry_num' \in 0 .. ESP_MAXIMUM_RETRY
    <3>1. CASE StationStart
      BY <1>0, <3>1 DEF StationStart
    <3>2. CASE Retry
      BY <1>0, <3>2, RetryAssumption DEF Retry
    <3> QED  BY <1>3, <3>1, <3>2
  <2>3. events' = << >> /\ link' = "joining"
    BY <2>1, Handled DEF esp_wifi_connect
  <2>4. /\ main' \in {"wait", "connected", "connected and timed"}
        /\ bits' \subseteq {CONNECTED} /\ bits' \subseteq {CONNECTED, FAIL} /\ FAIL \notin bits'
    BY <2>1, NoVerdict
  <2> QED  BY <2>2, <2>3, <2>4, LinkInUse
<1>4. CASE GiveUp
  <2>1. /\ Handle("STA_DISCONNECTED") /\ events # << >> /\ bits' = bits \cup {FAIL}
        /\ UNCHANGED <<link, s_retry_num, main>>
    BY <1>4 DEF GiveUp, Handle
  <2>2. events' = << >> /\ link = "idle"
    BY <2>1, Handled
  <2>3. main \in {"wait", "connected", "connected and timed"}
    BY <2>1, NoVerdict
  <2>4. LinkShape' /\ VerdictShape'
    BY <2>1, <2>2, <2>3 DEF LinkShape, VerdictShape, Abandoned
  <2>5. Len(events') <= 2
    BY <2>2, Queues
  <2> QED  BY <1>0, <2>1, <2>4, <2>5 DEF LinkOK
<1>5. CASE GotIp
  <2>1. /\ Handle("STA_GOT_IP") /\ events # << >> /\ bits' = bits \cup {CONNECTED}
        /\ s_retry_num' = 0 /\ 0 \in 0 .. ESP_MAXIMUM_RETRY /\ UNCHANGED <<link, main>>
    BY <1>5, RetryAssumption DEF GotIp, Handle
  <2>2. \/ link' = "up" /\ events' = << >>
        \/ link' = "idle" /\ events' = <<"STA_DISCONNECTED">>
    BY <2>1, Handled
  <2>3. /\ main' \in {"wait", "connected", "connected and timed"}
        /\ bits' \subseteq {CONNECTED} /\ bits' \subseteq {CONNECTED, FAIL} /\ FAIL \notin bits'
    BY <1>2, <2>1, NoVerdict
  <2> QED  BY <2>1, <2>2, <2>3, LinkInUse
<1> QED  BY <1>1, <1>3, <1>4, <1>5 DEF EventTask

(* The driver posts one event for each change of the link.                 *)
LEMMA DriverKeepsLink ==
  ASSUME WifiInv, AttemptEnds \/ LinkLost
  PROVE  LinkOK'
<1>0. LinkOK /\ s_retry_num \in 0 .. ESP_MAXIMUM_RETRY
  BY WifiInvParts DEF LinkOK
<1>1. /\ link # "idle" /\ UNCHANGED <<s_retry_num, bits, main>>
  BY DEF AttemptEnds, LinkLost, Post
<1>2. \/ link' = "up" /\ events' = <<"STA_GOT_IP">>
      \/ /\ link' = "idle"
         /\ events' \in {<<"STA_DISCONNECTED">>, <<"STA_GOT_IP", "STA_DISCONNECTED">>}
  <2>1. CASE AttemptEnds
    <3>1. events = << >>
      BY <1>0, <2>1 DEF AttemptEnds, Post, LinkOK, LinkShape
    <3>2. \A a : Append(<< >>, a) = <<a>>
      BY EventQueues
    <3> QED  BY <2>1, <3>1, <3>2 DEF AttemptEnds, Post
  <2>2. CASE LinkLost
    <3>1. /\ events \in {<< >>, <<"STA_GOT_IP">>} /\ link' = "idle"
          /\ events' = Append(events, "STA_DISCONNECTED")
      BY <1>0, <2>2 DEF LinkLost, Post, LinkOK, LinkShape
    <3>2. /\ Append(<< >>, "STA_DISCONNECTED") = <<"STA_DISCONNECTED">>
          /\ Append(<<"STA_GOT_IP">>, "STA_DISCONNECTED") = <<"STA_GOT_IP", "STA_DISCONNECTED">>
      BY EventQueues
    <3>3. CASE events = << >>
      BY <3>1, <3>2, <3>3
    <3>4. CASE events = <<"STA_GOT_IP">>
      BY <3>1, <3>2, <3>4
    <3> QED  BY <3>1, <3>3, <3>4
  <2> QED  BY <2>1, <2>2
<1>3. /\ main' \in {"wait", "connected", "connected and timed"}
      /\ bits' \subseteq {CONNECTED} /\ bits' \subseteq {CONNECTED, FAIL} /\ FAIL \notin bits'
  BY <1>1, NoVerdict
<1> QED  BY <1>0, <1>1, <1>2, <1>3, LinkInUse

(* The main task starts the station and reports, but changes no verdict.   *)
LEMMA MainTaskKeepsLink ==
  ASSUME WifiInv, MainTask
  PROVE  LinkOK'
<1>0. LinkOK /\ s_retry_num \in 0 .. ESP_MAXIMUM_RETRY
  BY WifiInvParts DEF LinkOK
<1>1. CASE ConfigLed
  BY <1>0, <1>1 DEF ConfigLed, MainGoes, LinkOK, LinkShape, VerdictShape, Abandoned
<1>2. CASE WifiStart
  <2>1. /\ main = "config" /\ main' = "wait" /\ events' = Append(events, "STA_START")
        /\ UNCHANGED <<link, s_retry_num, bits>>
    BY <1>2 DEF WifiStart, MainGoes
  <2>2. events = << >> /\ link = "idle" /\ bits = {}
    BY <1>0, <2>1 DEF LinkOK, LinkShape
  <2>3. events' = <<"STA_START">>
    BY <2>1, <2>2, EventQueues
  <2> QED  BY <1>0, <2>1, <2>2, <2>3, LinkInUse
<1>3. CASE ReportConnected
  BY <1>0, <1>3 DEF ReportConnected, MainGoes, LinkOK, LinkShape, VerdictShape, Abandoned
<1>4. CASE ReportFailed
  BY <1>0, <1>4 DEF ReportFailed, MainGoes, LinkOK, LinkShape, VerdictShape, Abandoned
<1>5. CASE ReportTime
  BY <1>0, <1>5 DEF ReportTime, MainGoes, LinkOK, LinkShape, VerdictShape, Abandoned
<1>6. CASE MainInLed
  BY <1>0, <1>6 DEF MainInLed, wifiVars, LinkOK, LinkShape, VerdictShape, Abandoned
<1> QED  BY <1>1, <1>2, <1>3, <1>4, <1>5, <1>6 DEF MainTask

-----------------------------------------------------------------------------
(* The LED, whatever the two tasks ask of it.                              *)

(* No call is disturbed from outside, and one that was alone ends with its *)
(* colour shown.                                                           *)
LEMMA StepKeepsLed ==
  ASSUME LedInv, Next
  PROVE  /\ LedInv'
         /\ \A t \in Task :
              Calling(t) /\ ~Calling(t)' /\ call[t].alone => shown = call[t].colour
<1>0. "main" \in Task /\ "event" \in Task
      /\ Red \in Requested /\ Green \in Requested /\ Blue \in Requested
  BY TaskAssumption, Colours
<1>1. ASSUME NEW t \in Task, LedStep(t)
      PROVE  /\ LedInv'
             /\ \A u \in Task :
                  Calling(u) /\ ~Calling(u)' /\ call[u].alone => shown = call[u].colour
  BY <1>1, LedStepKeepsLedInv DEF Calling
<1>2. ASSUME NEW t \in Task, NEW colour \in Requested, set_led(t, colour) \/ config_led(t)
      PROVE  /\ LedInv'
             /\ \A u \in Task : Calling(u) => Calling(u)'
  BY <1>2, CallsKeepLedInv
<1>3. ASSUME UNCHANGED ledVars
      PROVE  LedInv' /\ \A u \in Task : Calling(u) => Calling(u)'
  BY <1>3 DEF ledVars, LedInv, LedTypeOK, ChannelShape, Holding, AloneShape, Calling, At
<1>4. CASE EventTask
  BY <1>0, <1>1, <1>2, <1>3, <1>4 DEF EventTask, StationStart, Retry, GiveUp, GotIp
<1>5. CASE MainTask
  BY <1>0, <1>1, <1>2, <1>3, <1>5
     DEF MainTask, ConfigLed, WifiStart, ReportConnected, ReportFailed, ReportTime, MainInLed
<1>6. CASE AttemptEnds \/ LinkLost
  BY <1>3, <1>6 DEF AttemptEnds, LinkLost, Post
<1>7. CASE Shine
  <2>1. \A u \in Task : Calling(u) => Calling(u)'
    BY <1>7, ShineKeepsLedInv DEF Calling, At
  <2> QED  BY <1>7, <2>1, ShineKeepsLedInv
<1> QED  BY <1>4, <1>5, <1>6, <1>7 DEF Next

-----------------------------------------------------------------------------
(* The theorems.                                                           *)

(* WifiInv holds in every state of the way into the network.               *)
THEOREM WifiInvariance == Spec => []WifiInv
<1>1. WifiInv /\ [Next]_vars => WifiInv'
  <2> SUFFICES ASSUME WifiInv, [Next]_vars PROVE LedInv' /\ LinkOK'
    BY WifiInvParts DEF WifiInv, TypeOK, LedInv, LinkOK
  <2>0. LedInv /\ LinkOK
    BY WifiInvParts
  <2>1. CASE Next
    <3>1. LedInv'
      BY <2>0, <2>1, StepKeepsLed
    <3>2. CASE Shine /\ UNCHANGED wifiVars
      BY <2>0, <3>1, <3>2 DEF wifiVars, LinkOK, LinkShape, VerdictShape, Abandoned
    <3> QED  BY <2>1, <3>1, <3>2, EventTaskKeepsLink, MainTaskKeepsLink, DriverKeepsLink
             DEF Next
  <2>2. CASE UNCHANGED vars
    <3>1. UNCHANGED ledVars /\ UNCHANGED wifiVars
      BY <2>2 DEF vars
    <3>2. LedInv'
      BY <2>0, <3>1 DEF ledVars, LedInv, LedTypeOK, ChannelShape, Holding, AloneShape,
                        Calling, At
    <3>3. LinkOK'
      BY <2>0, <3>1 DEF wifiVars, LinkOK, LinkShape, VerdictShape, Abandoned
    <3> QED  BY <3>2, <3>3
  <2> QED  BY <2>1, <2>2
<1> QED  BY <1>1, InitEstablishesWifiInv, PTL DEF Spec

(* Every variable keeps its type, the counter of the retries stays within  *)
(* its limit, and never more than two events wait.                         *)
THEOREM WifiTypes == Spec => []TypeOK
BY WifiInvariance, PTL DEF WifiInv

(* The failure bit is set exactly when nobody will try to join again.      *)
THEOREM FailureMeansAbandoned == Spec => []FailMeansAbandoned
<1>1. WifiInv => FailMeansAbandoned
  BY DEF WifiInv, VerdictShape, FailMeansAbandoned
<1> QED  BY <1>1, WifiInvariance, PTL

(* What wifi_init_sta reports as a failure stays one.                      *)
THEOREM FailureStays == Spec => []FailureIsFinal
<1>1. WifiInv => FailureIsFinal
  BY DEF WifiInv, VerdictShape, Abandoned, FailureIsFinal
<1> QED  BY <1>1, WifiInvariance, PTL

(* Two tasks in set_led may spoil each other's colours, but never the      *)
(* channel: the next call that is left alone shows its colour.             *)
THEOREM AloneIsShown == Spec => UndisturbedShown
<1>1. WifiInv /\ [Next]_vars =>
        [\A t \in Task :
           Calling(t) /\ ~Calling(t)' /\ call[t].alone => shown = call[t].colour]_vars
  BY StepKeepsLed DEF WifiInv
<1> QED  BY <1>1, WifiInvariance, PTL DEF Spec, UndisturbedShown
=============================================================================
