---------------------------- MODULE BlinkTimers ----------------------------
(***************************************************************************)
(* The timer driver of the smart LED program                               *)
(* (04_system/smart/drivers/timer/timer.c), one system call at a time.     *)
(*                                                                         *)
(* Two periodic timers of the same period drive the LED: p1 expires when   *)
(* it must go off, p2 when it must go on.  A button press changes the      *)
(* period; the driver then reads both timers (timerfd_gettime), computes   *)
(* new first expiries that keep the next edge in place, and restarts the   *)
(* timers (timerfd_settime), while time goes on between those calls.       *)
(***************************************************************************)
EXTENDS TimerFd, TimerMath

CONSTANTS
  InitPeriods,  \* periods the program may be started with (argv[1])
  MaxLag,       \* units of time that may go by during one update
  LateExpiry    \* TRUE: a system call may run before a due expiry interrupt

ASSUME BlinkTimersAssumption ==
  /\ MaxLag \in Nat
  /\ LateExpiry \in BOOLEAN
  /\ InitPeriods \subseteq Int
  /\ \A p \in InitPeriods : InRange(p, InitDuty(p))

VARIABLES
  period_ns, duty_ns,            \* the period and the duty in force
  init_period_ns, init_duty_ns,  \* those of the start, restored by K2
  p1, p2,                        \* the kernel's two timers
  pc,                            \* the next system call of an update
  cur,                           \* what timerfd_gettime said of p1 (0 when dead)
  val,                           \* it_value of p1_timer_value, p2_timer_value
  lag,                           \* time spent in the update under way
  led,                           \* is the LED lit?
  spent                          \* history: a timer was given no time (no guard reads it)

vars ==
  <<period_ns, duty_ns, init_period_ns, init_duty_ns, p1, p2, pc, cur, val, lag, led, spent>>

Init ==
  /\ period_ns \in InitPeriods
  /\ duty_ns = InitDuty(period_ns)
  /\ init_period_ns = period_ns
  /\ init_duty_ns = duty_ns
  /\ p1 = Created /\ p2 = Created
  /\ pc = "set1"
  /\ cur = 0
  /\ val = <<duty_ns, period_ns>>
  /\ lag = 0
  /\ led = TRUE
  /\ spent = (val[1] = 0 \/ val[2] = 0)

\* Expiry interrupts run before the process does, unless they may be late.
Prompt == LateExpiry \/ ~(Due(p1) \/ Due(p2))

-----------------------------------------------------------------------------
(* The three callers of update_timers_value(true) *)

Update(p, d) ==
  /\ pc = "idle" /\ Prompt
  /\ InRange(p, d)
  /\ period_ns' = p
  /\ duty_ns' = d
  /\ pc' = "get1"
  /\ UNCHANGED <<init_period_ns, init_duty_ns, p1, p2, cur, val, lag, led, spent>>

IncreaseTimerPeriod == Update(Increase(period_ns), Increase(duty_ns))
DecreaseTimerPeriod == Update(Decrease(period_ns), Decrease(duty_ns))
ResetTimerPeriod == Update(init_period_ns, init_duty_ns)

\* History: did this reading, or an earlier one, find a timer with no time left?
\* (Not at a negative period: timerfd_settime will refuse whatever is made of it.)
Spent(p) == spent \/ (period_ns >= 0 /\ Remaining(p) = 0)

\* timerfd_gettime(fd_p1)
Get1 ==
  /\ pc = "get1" /\ Prompt
  /\ cur' = Remaining(p1)
  /\ spent' = Spent(p1)
  /\ pc' = "get2"
  /\ UNCHANGED <<period_ns, duty_ns, init_period_ns, init_duty_ns, p1, p2, val, lag, led>>

\* timerfd_gettime(fd_p2) and the new first expiries
Get2 ==
  /\ pc = "get2" /\ Prompt
  /\ val' = Rephased(cur, Remaining(p2), period_ns, duty_ns)
  /\ cur' = 0
  /\ spent' = Spent(p2)
  /\ pc' = "set1"
  /\ UNCHANGED <<period_ns, duty_ns, init_period_ns, init_duty_ns, p1, p2, lag, led>>

\* start_timers: timerfd_settime(fd_p1), then timerfd_settime(fd_p2)
Set1 ==
  /\ pc = "set1" /\ Prompt
  /\ p1' = Settime(p1, val[1], period_ns)
  /\ pc' = "set2"
  /\ UNCHANGED <<period_ns, duty_ns, init_period_ns, init_duty_ns, p2, cur, val, lag, led, spent>>

\* (mutant) only p1 is restarted
Set2Forgotten ==
  /\ pc = "set2" /\ Prompt
  /\ pc' = "idle"
  /\ lag' = 0
  /\ UNCHANGED <<period_ns, duty_ns, init_period_ns, init_duty_ns, p1, p2, cur, val, led, spent>>

Set2 ==
  /\ pc = "set2" /\ Prompt
  /\ p2' = Settime(p2, val[2], period_ns)
  /\ pc' = "idle"
  /\ lag' = 0
  /\ UNCHANGED <<period_ns, duty_ns, init_period_ns, init_duty_ns, p1, cur, val, led, spent>>

\* The event loop's handlers of the two timers: clear_timer_event, then the LED.
HandleP1 ==
  /\ pc = "idle" /\ Prompt /\ p1.pend
  /\ p1' = Cleared(p1)
  /\ led' = FALSE
  /\ UNCHANGED <<period_ns, duty_ns, init_period_ns, init_duty_ns, p2, pc, cur, val, lag, spent>>

HandleP2 ==
  /\ pc = "idle" /\ Prompt /\ p2.pend
  /\ p2' = Cleared(p2)
  /\ led' = TRUE
  /\ UNCHANGED <<period_ns, duty_ns, init_period_ns, init_duty_ns, p1, pc, cur, val, lag, spent>>

-----------------------------------------------------------------------------
(* The clock and the kernel *)

Elapse ==
  /\ ~Due(p1) /\ ~Due(p2)
  /\ p1.armed \/ p2.armed
  /\ IF pc = "idle" THEN UNCHANGED lag ELSE lag < MaxLag /\ lag' = lag + 1
  /\ p1' = Elapsed(p1)
  /\ p2' = Elapsed(p2)
  /\ UNCHANGED <<period_ns, duty_ns, init_period_ns, init_duty_ns, pc, cur, val, led, spent>>

Expire1 ==
  /\ Due(p1)
  /\ p1' = Expired(p1)
  /\ UNCHANGED <<period_ns, duty_ns, init_period_ns, init_duty_ns, p2, pc, cur, val, lag, led, spent>>

Expire2 ==
  /\ Due(p2)
  /\ p2' = Expired(p2)
  /\ UNCHANGED <<period_ns, duty_ns, init_period_ns, init_duty_ns, p1, pc, cur, val, lag, led, spent>>

Next ==
  \/ IncreaseTimerPeriod \/ DecreaseTimerPeriod \/ ResetTimerPeriod
  \/ Get1 \/ Get2 \/ Set1 \/ Set2
  \/ HandleP1 \/ HandleP2
  \/ Elapse \/ Expire1 \/ Expire2

Spec == Init /\ [][Next]_vars

-----------------------------------------------------------------------------
(* Properties *)

\* Type invariant: durations never go negative, the first expiries neither.
TypeOK ==
  /\ period_ns \in Nat /\ duty_ns \in Nat
  /\ init_period_ns \in InitPeriods /\ init_duty_ns = InitDuty(init_period_ns)
  /\ p1 \in Timer /\ p2 \in Timer
  /\ pc \in {"idle", "get1", "get2", "set1", "set2"}
  /\ cur \in Nat
  /\ val \in Nat \X Nat
  /\ lag \in 0..MaxLag
  /\ led \in BOOLEAN
  /\ spent \in BOOLEAN

\* A shape that can be shown: the period is positive and the duty fits in it.  Steps
\* leave it at period 0 and by overflow, and the reset comes back to it.
Sound == 0 < period_ns /\ 0 <= duty_ns /\ duty_ns <= period_ns

\* Why the LED freezes, and that it does so for ever.  Whatever happens between the
\* system calls of an update, however late the interrupts and wherever the period
\* has been, at rest both timers run with the period in force until an update finds
\* a timer with no time left: just expired, or run out at period 0.  From then on one
\* of them is off for good, whatever the buttons do: timerfd_gettime answers 0 of a
\* timer that is off, and start_timers hands that 0 back (timer.c:96-111, 180-185).
BlinkArmed ==
  pc = "idle" => /\ spent => ~(p1.armed /\ p2.armed)
                 /\ ~spent /\ Sound => /\ p1.armed /\ p1.intv = period_ns
                                       /\ p2.armed /\ p2.intv = period_ns

Near(x, y) == y - MaxLag <= x /\ x <= y + MaxLag

\* Both phases last longer than an update.
Thick == MaxLag < duty_ns /\ MaxLag < period_ns - duty_ns

\* At rest a LED that runs stays on for duty_ns and off for period_ns - duty_ns, to
\* within the time one update took, even when a timer expired between the
\* timerfd_gettime and the timerfd_settime of that update, and whatever shapes the
\* updates before it went through.
WaveAccurate ==
  pc = "idle" /\ p1.armed /\ p2.armed /\ Thick =>
    IF p1.rem < p2.rem THEN Near(p2.rem - p1.rem, period_ns - duty_ns)
                       ELSE Near(p1.rem - p2.rem, duty_ns)

\* What the LED's next edge is and when: from the timers, or from the values
\* about to be loaded into them.
Left1 == IF pc \in {"set1", "set2"} THEN val[1] ELSE p1.rem
Left2 == IF pc \in {"set1", "set2"} THEN val[2] ELSE p2.rem
NextEdge == IF Left1 < Left2 THEN "off" ELSE "on"
NextLeft == IF Left1 < Left2 THEN Left1 ELSE Left2

\* Seen through its timers the driver is a square wave whose shape changes
\* without moving the edge that comes next (when an update takes no time).
Wave == INSTANCE SquareWave WITH
  edge <- NextEdge,
  left <- NextLeft,
  period <- period_ns,
  duty <- duty_ns

ImplementsWave == Wave!Spec
=============================================================================
