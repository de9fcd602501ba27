------------------------------ MODULE SillyLed ------------------------------
(***************************************************************************)
(* 04_system/silly/silly_led_control.c: the LED is blinked by a loop that  *)
(* reads the clock without a pause.  Between one reading and the next, and *)
(* between a reading and the write it leads to, the process may lose the   *)
(* processor for a while.                                                  *)
(***************************************************************************)
EXTENDS Integers

CONSTANTS
  Periods,  \* the periods asked for on the command line
  MaxGap    \* time that may pass between two of these steps

\* What the constants have to be; whoever gives them values assumes it.
SillyLedAssumption == Periods \subseteq Nat /\ MaxGap \in Nat

VARIABLES
  period,  \* argv[1]
  pin,     \* the LED's pin: "free", "exported" or "claimed" by a driver
  at,      \* where the program is
  ready,   \* did opening the value attribute succeed?
  k,       \* the phase: 0 lit, 1 dark
  delta,   \* the time since t1 at the last reading of the clock
  since,   \* the time since t1
  lit,     \* is the LED on?
  age,     \* the time since the program last changed the LED
  gap,     \* the time since the last reading of the clock, or write
  onset    \* history: is this the LED's first phase? (no guard reads it)

svars == <<period, pin, at, ready, k, delta, since, lit, age, gap, onset>>

\* duty is 2 %, and the division comes first.
P1 == (period \div 100) * 2
P2 == period - P1

Phase == IF k = 0 THEN P1 ELSE P2

Init ==
  /\ period \in Periods
  /\ pin \in {"free", "exported", "claimed"}
  /\ at = "unexport" /\ ready = FALSE
  /\ k = 0 /\ delta = 0 /\ since = 0
  /\ lit = FALSE /\ age = 0 /\ gap = 0 /\ onset = TRUE

-----------------------------------------------------------------------------
(* open_led: nothing is tested; what a driver has claimed cannot be exported *)

Unexport ==
  /\ at = "unexport"
  /\ pin' = IF pin = "exported" THEN "free" ELSE pin
  /\ at' = "export"
  /\ UNCHANGED <<period, ready, k, delta, since, lit, age, gap, onset>>

Export ==
  /\ at = "export"
  /\ pin' = IF pin = "free" THEN "exported" ELSE pin
  /\ at' = "config"
  /\ UNCHANGED <<period, ready, k, delta, since, lit, age, gap, onset>>

\* The direction, the value attribute and the first pwrite ...
Configure ==
  /\ at = "config"
  /\ ready' = (pin = "exported")
  /\ lit' = (pin = "exported")
  /\ age' = 0 /\ gap' = 0
  /\ at' = "start"
  /\ UNCHANGED <<period, pin, k, delta, since, onset>>

\* ... and then the first clock_gettime(&t1).
StartClock ==
  /\ at = "start"
  /\ since' = 0 /\ gap' = 0
  /\ at' = "clock"
  /\ UNCHANGED <<period, pin, ready, k, delta, lit, age, onset>>

-----------------------------------------------------------------------------
(* The loop *)

ReadClock ==
  /\ at = "clock"
  /\ delta' = since
  /\ at' = "test"
  /\ gap' = 0
  /\ UNCHANGED <<period, pin, ready, k, since, lit, age, onset>>

\* (mutant) k is not toggled
TestStuck ==
  /\ at = "test"
  /\ IF delta >= Phase
       THEN since' = since - delta /\ at' = "write"
       ELSE at' = "clock" /\ UNCHANGED since
  /\ UNCHANGED <<period, pin, ready, k, delta, lit, age, gap, onset>>

\* (mutant) the phases are swapped
TestSwapped ==
  /\ at = "test"
  /\ IF delta >= period - Phase
       THEN k' = (k + 1) % 2 /\ since' = since - delta /\ at' = "write"
       ELSE at' = "clock" /\ UNCHANGED <<k, since>>
  /\ UNCHANGED <<period, pin, ready, delta, lit, age, gap, onset>>

\* t1 = t2
Test ==
  /\ at = "test"
  /\ IF delta >= Phase
       THEN k' = (k + 1) % 2 /\ since' = since - delta /\ at' = "write"
       ELSE at' = "clock" /\ UNCHANGED <<k, since>>
  /\ UNCHANGED <<period, pin, ready, delta, lit, age, gap, onset>>

\* pwrite; without an open attribute it fails and nobody notices.
WriteLed ==
  /\ at = "write"
  /\ lit' = IF ready THEN k = 0 ELSE lit
  /\ age' = 0 /\ gap' = 0 /\ onset' = FALSE
  /\ at' = "clock"
  /\ UNCHANGED <<period, pin, ready, k, delta, since>>

Loop == Unexport \/ Export \/ Configure \/ StartClock \/ ReadClock \/ Test \/ WriteLed

Tick ==
  /\ at \in {"start", "clock", "test", "write"}
  /\ gap < MaxGap
  /\ since' = IF at = "start" THEN since ELSE since + 1
  /\ age' = age + 1 /\ gap' = gap + 1
  /\ UNCHANGED <<period, pin, at, ready, k, delta, lit, onset>>

Next == Loop \/ Tick

\* The process runs, and so does time.
Spec == Init /\ [][Next]_svars /\ WF_svars(Loop) /\ SF_svars(Tick)

-----------------------------------------------------------------------------
(* Properties *)

\* Type invariant; t1 is never later than the clock.
TypeOK ==
  /\ at \in {"unexport", "export", "config", "start", "clock", "test", "write"}
  /\ k \in {0, 1} /\ lit \in BOOLEAN /\ onset \in BOOLEAN
  /\ 0 <= since /\ since <= age + MaxGap
  /\ 0 <= delta /\ gap \in 0..MaxGap

\* t1 is read up to MaxGap before the write that begins a phase, but in the first
\* phase up to MaxGap after it (silly_led_control.c:78-81, 92-98).
Slack == IF onset THEN MaxGap ELSE 0

\* However the process is scheduled, the LED stays as it is for its phase, short by
\* at most the delay of the write before, and long by at most one round of the loop
\* and the delay of the write; the first phase is never short, and long by the delay
\* of the first reading of the clock as well.  The lateness of one edge is not made up
\* for, but it does not grow within a phase either.
PhaseLength ==
  [][lit' # lit /\ ready =>
       /\ age >= (IF lit THEN P1 ELSE P2) - MaxGap + Slack
       /\ age <= (IF lit THEN P1 ELSE P2) + 2 * MaxGap + Slack]_svars

\* The LED blinks for ever, whatever the period and whoever had exported its pin
\* before, unless a driver has claimed it: then the program runs on without it.
LedBlinks == pin # "claimed" => []<>lit /\ []<>~lit
=============================================================================
