----------------------------- MODULE TimerMath -----------------------------
(***************************************************************************)
(* The integer arithmetic of the timer driver (timer.c): how a button step *)
(* scales the period and the duty time, and how the first expiries are     *)
(* chosen when the timers are re-phased.                                   *)
(***************************************************************************)
EXTENDS Integers

CONSTANTS
  PressFactor,  \* press_factor, in percent (120 in the code)
  DutyPercent,  \* duty, in percent of the period (50 in main)
  LongMax,      \* largest value of the signed type of period_ns and duty_ns
  MaxPeriod,    \* bound: no button step makes the period longer
  MinPhase      \* bound: no button step makes a phase shorter (0: no bound)

ASSUME TimerMathAssumption ==
  /\ PressFactor \in Nat \ {0}
  /\ DutyPercent \in 0..100
  /\ LongMax \in Nat
  /\ MaxPeriod \in Nat /\ MinPhase \in Nat

\* Is <<p, d>> within the bounds of the model?
InRange(p, d) ==
  /\ p <= MaxPeriod
  /\ MinPhase > 0 => d >= MinPhase /\ p - d >= MinPhase

\* C division rounds towards zero, \div rounds down.
CDiv(a, b) == IF a >= 0 THEN a \div b ELSE -((-a) \div b)

\* Two's complement wrap-around of a signed product.
Wrap(x) ==
  IF -LongMax - 1 <= x /\ x <= LongMax
    THEN x
    ELSE ((x + LongMax + 1) % (2 * (LongMax + 1))) - (LongMax + 1)

\* duty_ns of a fresh period, in init_timers
InitDuty(p) == CDiv(Wrap(p * DutyPercent), 100)

\* increase_timer_period and decrease_timer_period, on either quantity
Increase(x) == CDiv(Wrap(x * 100), PressFactor)
Decrease(x) == CDiv(Wrap(x * PressFactor), 100)

\* (mutants) a sign slip; the two phases swapped; the wave started afresh
RephasedBackwards(r1, r2, p, d) ==
  IF r1 < r2 THEN <<r1, r1 + (p - d)>> ELSE <<r2 - d, r2>>
RephasedSwapped(r1, r2, p, d) ==
  IF r1 < r2 THEN <<r1, r1 + d>> ELSE <<r2 + (p - d), r2>>
RephasedAfresh(r1, r2, p, d) == <<d, p>>

\* The sums cannot overflow: a product is divided by at least 100 after it wrapped, so
\* no period exceeds a hundredth of LongMax (the start period, an int of milliseconds,
\* is below it too).
\* update_timers_value(true): the timer that expires next keeps its moment,
\* the other one is placed one phase after it.  <<it_value of p1, of p2>>
Rephased(r1, r2, p, d) ==
  IF r1 < r2 THEN <<r1, r1 + (p - d)>> ELSE <<r2 + d, r2>>
=============================================================================
