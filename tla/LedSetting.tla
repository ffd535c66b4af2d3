----------------------------- MODULE LedSetting -----------------------------
(***************************************************************************)
(* The status LED: set_led and config_led of main/led_setting.c over the   *)
(* RMT back end of the led_strip component.  There is one pixel buffer,    *)
(* one RMT channel and no lock, and two tasks call set_led: every byte of  *)
(* the pixel and every call of the RMT driver is a step of its own.        *)
(* Errors come back to set_led, which drops them.                          *)
(***************************************************************************)
EXTENDS Integers

CONSTANT Task   \* the tasks that call set_led

VARIABLES
  pixel_buf,   \* the colour the next transmission will carry
  rmt,         \* state of the RMT channel: "init" or "enabled"
  sending,     \* the colour on the wire, or None
  shown,       \* the colour of the LED
  call,        \* for each task, its call of set_led: step, colour, alone
  latest       \* history: the colour asked for last

ledVars == <<pixel_buf, rmt, sending, shown, call, latest>>

Channel == {"green", "red", "blue"}
Colour(r, g, b) ==
  [c \in Channel |-> CASE c = "red" -> r [] c = "green" -> g [] c = "blue" -> b]

Dark  == Colour(0, 0, 0)
Red   == Colour(6, 0, 0)
Green == Colour(0, 6, 0)
Blue  == Colour(0, 0, 6)
Requested == {Dark, Red, Green, Blue}

None == << >>

(* The steps of a call, in their order; the bytes go out as G, R, B.       *)
Steps == <<"green", "red", "blue", "enable", "transmit", "wait", "disable", "none">>
After(step) == Steps[1 + CHOOSE i \in 1 .. 7 : Steps[i] = step]

At(t) == call[t].step
Calling(t) == At(t) # "none"
GoTo(t, step) == call' = [call EXCEPT ![t].step = step]

(* A blocked task leaves the processor to tasks of lower priority.         *)
Blocked(t) == At(t) = "wait" /\ sending # None

(* The LED keeps its colour over a reset of the processor.                 *)
LedInit ==
  /\ pixel_buf = Dark
  /\ rmt = "init"
  /\ sending = None
  /\ shown \in Requested
  /\ call = [t \in Task |-> [step |-> "none", colour |-> Dark, alone |-> TRUE]]
  /\ latest = shown

(* A call begins.  Field alone records that no other call has been under   *)
(* way since.                                                              *)
Begin(t, colour, step) ==
  /\ ~Calling(t)
  /\ call' = [u \in Task |->
       IF u = t
         THEN [step |-> step, colour |-> colour,
               alone |-> \A v \in Task : ~Calling(v)]
         ELSE [call[u] EXCEPT !.alone = FALSE]]
  /\ latest' = colour
  /\ UNCHANGED <<pixel_buf, rmt, sending, shown>>

set_led(t, colour) == Begin(t, colour, "green")
config_led(t) == Begin(t, Dark, "clear")

(* led_strip_clear zeroes the whole buffer, set_pixel one byte at a time.  *)
Clear(t) ==
  /\ At(t) = "clear"
  /\ pixel_buf' = Dark
  /\ GoTo(t, "enable")
  /\ UNCHANGED <<rmt, sending, shown, latest>>

SetByte(t) ==
  /\ At(t) \in Channel
  /\ pixel_buf' = [pixel_buf EXCEPT ![At(t)] = call[t].colour[At(t)]]
  /\ GoTo(t, After(At(t)))
  /\ UNCHANGED <<rmt, sending, shown, latest>>

(* rmt_enable and rmt_transmit return an error in the wrong state of the   *)
(* channel; the refresh ends there.                                        *)
Enable(t) ==
  /\ At(t) = "enable"
  /\ GoTo(t, IF rmt = "init" THEN "transmit" ELSE "none")
  /\ rmt' = "enabled"
  /\ UNCHANGED <<pixel_buf, sending, shown, latest>>

(* The 24 bits fit into the memory of the channel at once: what the buffer *)
(* holds now is what will be shown.                                        *)
Transmit(t) ==
  /\ At(t) = "transmit"
  /\ IF rmt = "enabled"
       THEN sending' = pixel_buf /\ GoTo(t, "wait")
       ELSE GoTo(t, "none") /\ UNCHANGED sending
  /\ UNCHANGED <<pixel_buf, rmt, shown, latest>>

AllDone(t) ==
  /\ At(t) = "wait"
  /\ ~Blocked(t)
  /\ GoTo(t, "disable")
  /\ UNCHANGED <<pixel_buf, rmt, sending, shown, latest>>

(* Mutated form: the channel left enabled.                                 *)
return_enabled(t) ==
  /\ At(t) = "disable"
  /\ GoTo(t, "none")
  /\ UNCHANGED <<pixel_buf, rmt, sending, shown, latest>>

Disable(t) ==
  /\ At(t) = "disable"
  /\ rmt' = "init"
  /\ GoTo(t, "none")
  /\ UNCHANGED <<pixel_buf, sending, shown, latest>>

LedStep(t) ==
  \/ Clear(t)
  \/ SetByte(t)
  \/ Enable(t)
  \/ Transmit(t)
  \/ AllDone(t)
  \/ Disable(t)

(* The hardware ends a transmission, and the LED takes the new colour.     *)
Shine ==
  /\ sending # None
  /\ shown' = sending
  /\ sending' = None
  /\ UNCHANGED <<pixel_buf, rmt, call, latest>>

-----------------------------------------------------------------------------
AnyColour == [Channel -> {0, 6}]

LedTypeOK ==
  /\ {pixel_buf, shown} \subseteq AnyColour
  /\ rmt \in {"init", "enabled"}
  /\ sending \in AnyColour \cup {None}
  /\ latest \in Requested
  /\ call \in [Task -> [step : {Steps[i] : i \in 1 .. 8} \cup {"clear"},
                        colour : Requested, alone : BOOLEAN]]

(* The state of the channel does the work of a lock: whoever has enabled   *)
(* it keeps it until it disables it again, whatever the others try, and    *)
(* nothing is on the wire but what that task waits for.                    *)
Holding(t) == At(t) \in {"transmit", "wait", "disable"}

ChannelShape ==
  /\ rmt = "enabled" <=> \E t \in Task : Holding(t)
  /\ \A t, u \in Task : Holding(t) /\ Holding(u) => t = u
  /\ sending # None => \E t \in Task : At(t) = "wait"

(* A call that is alone has brought its colour as far as its step says.    *)
AloneShape(t) ==
  LET colour == call[t].colour IN
  /\ \A u \in Task : u # t => ~Calling(u)
  /\ At(t) = "clear" => colour = Dark
  /\ At(t) \in {"red", "blue"} => pixel_buf["green"] = colour["green"]
  /\ At(t) = "blue" => pixel_buf["red"] = colour["red"]
  /\ At(t) \in {"enable", "transmit"} => pixel_buf = colour
  /\ At(t) = "wait" => (IF sending = None THEN shown ELSE sending) = colour
  /\ At(t) = "disable" => shown = colour

LedInv ==
  /\ LedTypeOK
  /\ ChannelShape
  /\ \A t \in Task : Calling(t) /\ call[t].alone => AloneShape(t)
=============================================================================
