------------------------------ MODULE SendPause -----------------------------
(***************************************************************************)
(* The running measurement of module SendTaskUdp with a history variable   *)
(* that counts the alarms since sendto was last called.  The code measures *)
(* that time as well, as the difference of two wrapped clocks taken the    *)
(* wrong way round, and drops the datagram it has just gathered when the   *)
(* difference is small.  The variable changes nothing: it only remembers.  *)
(***************************************************************************)
EXTENDS SendTaskUdp

ASSUME GapBelowTurn == SendGap < WordRange

(* The pause after which the wrapped difference is small again: about 71   *)
(* minutes less SendGap.                                                   *)
LongPause == WordRange - SendGap

VARIABLE silence   \* alarms since the last sendto; LongPause stands for
                   \* LongPause or more, and for no sendto so far

pauseVars == <<vars, silence>>

PauseInit == Init /\ silence = LongPause

(* An alarm, which is the only step of an idle callback, counts.           *)
PauseWrite ==
  /\ WriteStep
  /\ UNCHANGED senderVars
  /\ silence' = IF isr = "idle" /\ silence # LongPause THEN silence + 1 ELSE silence

PauseTake == TakeMutex /\ UNCHANGED silence

PauseSend == Send /\ silence' = 0

PauseRest ==
  /\ Header \/ ReadOne \/ Leave \/ SendDue \/ SendSkipped
  /\ UNCHANGED silence

PauseStep == PauseTake \/ PauseSend \/ PauseRest

PauseNext == PauseWrite \/ PauseStep

PauseSpec == PauseInit /\ [][PauseNext]_pauseVars

(* Fairness as in FairSpec.                                                *)
PauseFairSpec ==
  /\ PauseSpec
  /\ WF_pauseVars(PauseWrite)
  /\ SF_pauseVars(PauseTake)
  /\ WF_pauseVars(PauseStep)

-----------------------------------------------------------------------------
(* A task that keeps sending loses no datagram to the test before sendto:  *)
(* one is dropped only when none has been sent for LongPause, or when it   *)
(* was gathered within the period of the last sendto.  True of a clock     *)
(* that nobody sets back, and only because each sendto renews endSend.     *)
DroppedAfterSilence ==
  [][SendSkipped => silence \in {0, LongPause}]_pauseVars

(* The inductive invariant behind it: endSend is as old as the last sendto *)
(* is.                                                                     *)
PauseInv ==
  /\ silence \in 0 .. LongPause
  /\ silence < LongPause => (endSend + silence) % WordRange = now
=============================================================================
