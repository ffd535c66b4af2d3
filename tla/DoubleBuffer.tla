----------------------------- MODULE DoubleBuffer ---------------------------
(***************************************************************************)
(* What the two ring buffers and their mutexes are for: two slots that are *)
(* filled in turn and drained when they are full, with one slot at a time  *)
(* at each end.  Neither mutexes, nor flags, nor samples.                  *)
(***************************************************************************)
EXTENDS Integers

Buffers == {1, 2}

VARIABLES
  slot,   \* for each buffer: "empty", "filling", "full" or "draining"
  turn    \* the buffer that is filled, or will be filled next

Move(b, from, to) == slot[b] = from /\ slot' = [slot EXCEPT ![b] = to]

Init ==
  /\ slot = [b \in Buffers |-> "empty"]
  /\ turn = 1

BeginFill == Move(turn, "empty", "filling") /\ UNCHANGED turn

EndFill == Move(turn, "filling", "full") /\ turn' = 3 - turn

BeginDrain(b) ==
  /\ \A c \in Buffers : slot[c] # "draining"
  /\ Move(b, "full", "draining")
  /\ UNCHANGED turn

EndDrain(b) == Move(b, "draining", "empty") /\ UNCHANGED turn

Next ==
  \/ BeginFill
  \/ EndFill
  \/ \E b \in Buffers : BeginDrain(b) \/ EndDrain(b)

Spec == Init /\ [][Next]_<<slot, turn>>
=============================================================================
