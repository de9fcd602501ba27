----------------------------- MODULE SquareWave -----------------------------
(***************************************************************************)
(* What the timer driver promises: a square wave.  The LED is switched off *)
(* after being on for "duty" units and on again after "period - duty"      *)
(* units.  The period and the duty may change at any moment; the phase     *)
(* under way then ends when it would have ended anyway ("smooth            *)
(* transition", timer.c:92-93) and the phases after it have the new        *)
(* lengths.                                                                *)
(***************************************************************************)
EXTENDS Integers

VARIABLES
  edge,    \* the next edge: "off" or "on"
  left,    \* time until that edge
  period,
  duty

waveVars == <<edge, left, period, duty>>

Shape(p, d) == p \in Nat /\ d \in Nat /\ 0 < d /\ d < p

Init ==
  /\ Shape(period, duty)
  /\ edge = "off"
  /\ left = duty

\* Time goes by inside a phase.
Elapse ==
  /\ left > 0
  /\ left' = left - 1
  /\ UNCHANGED <<edge, period, duty>>

\* The phase ends and the other one begins.
Toggle ==
  /\ left = 0
  /\ \/ edge = "off" /\ edge' = "on" /\ left' = period - duty
     \/ edge = "on" /\ edge' = "off" /\ left' = duty
  /\ UNCHANGED <<period, duty>>

\* A new period and duty for the phases to come.
Change ==
  /\ Shape(period', duty')
  /\ UNCHANGED <<edge, left>>

Next == Elapse \/ Toggle \/ Change

Spec == Init /\ [][Next]_waveVars
=============================================================================
