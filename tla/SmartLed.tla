------------------------------ MODULE SmartLed ------------------------------
(***************************************************************************)
(* The smart LED program (04_system/smart): one process, an epoll loop over *)
(* six descriptors (the timers p1, p2 and press, the buttons k1, k2, k3),   *)
(* the user at the buttons and the clock.  A call of the timer driver is    *)
(* one step here; BlinkTimers looks inside it.                              *)
(***************************************************************************)
EXTENDS TimerFd, TimerMath, Sequences, FiniteSets, Functions

CONSTANTS
  InitPeriod,  \* period the program is started with
  PressTime,   \* press_time_ns: the auto-repeat interval of a held button
  MaxEvents,   \* size of the events array given to epoll_wait (2)
  Buttons,     \* the buttons the user touches
  Hands,       \* bound: buttons held or not yet read at the same time
  MayFail      \* TRUE: epoll calls may fail (a signal, a missing descriptor)

Keys == {"k1", "k2", "k3"}
Events == {"p1", "p2", "press"} \union Keys

ASSUME SmartLedAssumption ==
  /\ InitPeriod \in Nat /\ InitDuty(InitPeriod) \in 0..InitPeriod
  /\ InRange(InitPeriod, InitDuty(InitPeriod))
  /\ PressTime \in Nat \ {0}
  /\ MaxEvents \in Nat \ {0}
  /\ Buttons \subseteq Keys /\ Hands \in Nat
  /\ MayFail \in BOOLEAN

VARIABLES
  period_ns, duty_ns,
  p1, p2, press,       \* the kernel's timers
  led,                 \* is the LED lit?
  button,              \* the buttons held down
  edge,                \* the buttons with an edge not yet read
  increase, decrease,  \* which button repeats
  ready,               \* epoll's ready list
  batch,               \* events returned by epoll_wait, not yet handled
  pc

driver == <<period_ns, duty_ns, p1, p2>>
user == <<button, edge>>
loop == <<ready, batch, pc>>
vars == <<driver, press, led, user, increase, decrease, loop>>

\* EPOLLIN of a timer, EPOLLPRI of a button
Live(e) ==
  \/ e = "p1" /\ p1.pend
  \/ e = "p2" /\ p2.pend
  \/ e = "press" /\ press.pend
  \/ e \in edge

Init ==
  /\ period_ns = InitPeriod /\ duty_ns = InitDuty(InitPeriod)
  /\ p1 = Created /\ p2 = Created /\ press = Created
  /\ led = TRUE
  /\ button \in SUBSET Buttons /\ Cardinality(button) <= Hands
  /\ edge = {}
  /\ increase = FALSE /\ decrease = FALSE
  /\ ready = <<>> /\ batch = <<>>
  /\ pc = "init"

-----------------------------------------------------------------------------
(* epoll *)

\* A descriptor becomes ready: it joins the list unless it is on it already.
Wake(e) ==
  ready' = IF pc = "init" \/ \E i \in DOMAIN ready : ready[i] = e
             THEN ready
             ELSE Append(ready, e)

\* EPOLL_CTL_ADD lists what is ready already: of the buttons, those used since
\* open_buttons.
IfLive(e) == IF Live(e) THEN <<e>> ELSE <<>>
Registered == IfLive("k1") \o IfLive("k2") \o IfLive("k3")

\* The live ones of the first n items of the list.
LiveIn[n \in 0..Len(ready)] == IF n = 0 THEN <<>> ELSE LiveIn[n - 1] \o IfLive(ready[n])

\* (mutant) a maxevents one larger than the events array
EpollWaitOverrun ==
  /\ pc = "wait"
  /\ \E n \in 1..Len(ready) :
       /\ n = Len(ready) \/ Len(LiveIn[n]) = MaxEvents + 1
       /\ \A m \in 1..(n - 1) : Len(LiveIn[m]) < MaxEvents + 1
       /\ batch' = LiveIn[n]
       /\ ready' = SubSeq(ready, n + 1, Len(ready)) \o LiveIn[n]
       /\ pc' = IF LiveIn[n] = <<>> THEN "wait" ELSE "handle"
  /\ UNCHANGED <<driver, press, led, user, increase, decrease>>

\* epoll_wait scans the list up to MaxEvents live items.  The items it returns
\* are level-triggered and go back to the end, the dead ones leave the list.
EpollWait ==
  /\ pc = "wait"
  /\ \E n \in 1..Len(ready) :
       /\ n = Len(ready) \/ Len(LiveIn[n]) = MaxEvents
       /\ \A m \in 1..(n - 1) : Len(LiveIn[m]) < MaxEvents
       /\ batch' = LiveIn[n]
       /\ ready' = SubSeq(ready, n + 1, Len(ready)) \o LiveIn[n]
       /\ pc' = IF LiveIn[n] = <<>> THEN "wait" ELSE "handle"
  /\ UNCHANGED <<driver, press, led, user, increase, decrease>>

\* epoll_wait fails (EINTR on SIGCONT, say): main leaves its loop and gives the
\* pin of the LED back (close_led), whose level is then the kernel's business.
EpollFail ==
  /\ MayFail
  /\ pc = "wait"
  /\ pc' = "exited"
  /\ led' \in BOOLEAN
  /\ UNCHANGED <<driver, press, user, increase, decrease, ready, batch>>

-----------------------------------------------------------------------------
(* The timer driver, one call per operator *)

Start(p, d, v) ==
  /\ period_ns' = p /\ duty_ns' = d
  /\ p1' = Settime(p1, v[1], p)
  /\ p2' = Settime(p2, v[2], p)

\* A step beyond the bounds of the model leaves the period alone.
Restart(p, d) ==
  LET np == IF InRange(p, d) THEN p ELSE period_ns
      nd == IF InRange(p, d) THEN d ELSE duty_ns
  IN  Start(np, nd, Rephased(Remaining(p1), Remaining(p2), np, nd))

IncreaseTimerPeriod == Restart(Increase(period_ns), Increase(duty_ns))
DecreaseTimerPeriod == Restart(Decrease(period_ns), Decrease(duty_ns))
ResetTimerPeriod == Restart(InitPeriod, InitDuty(InitPeriod))

StartPressTimer == press' = Settime(press, PressTime, PressTime)
StopPressTimer == press' = Settime(press, 0, 0)

\* init_app: the timers start once all the descriptors are registered, else
\* the program exits.
InitApp ==
  /\ pc = "init"
  /\ \/ /\ Start(period_ns, duty_ns, <<duty_ns, period_ns>>)
        /\ ready' = Registered
        /\ pc' = "wait"
        /\ UNCHANGED led
     \/ /\ MayFail
        /\ pc' = "exited"
        /\ led' \in BOOLEAN
        /\ UNCHANGED <<driver, ready>>
  /\ UNCHANGED <<press, user, increase, decrease, batch>>

-----------------------------------------------------------------------------
(* handle_events: one action per case of the switch.  clear_timer_event     *)
(* reads a blocking descriptor, so it waits for an expiration to read.      *)

Handling(e) == pc = "handle" /\ Head(batch) = e

Handled ==
  /\ batch' = Tail(batch)
  /\ pc' = IF Tail(batch) = <<>> THEN "wait" ELSE "handle"
  /\ UNCHANGED ready

\* (mutant) turn_off_led forgotten
HandleP1Dark ==
  /\ Handling("p1") /\ p1.pend
  /\ p1' = Cleared(p1)
  /\ Handled
  /\ UNCHANGED <<period_ns, duty_ns, p2, press, led, user, increase, decrease>>

HandleP1 ==
  /\ Handling("p1") /\ p1.pend
  /\ p1' = Cleared(p1)
  /\ led' = FALSE
  /\ Handled
  /\ UNCHANGED <<period_ns, duty_ns, p2, press, user, increase, decrease>>

HandleP2 ==
  /\ Handling("p2") /\ p2.pend
  /\ p2' = Cleared(p2)
  /\ led' = TRUE
  /\ Handled
  /\ UNCHANGED <<period_ns, duty_ns, p1, press, user, increase, decrease>>

HandlePress ==
  /\ Handling("press") /\ press.pend
  /\ press' = Cleared(press)
  /\ IF increase THEN IncreaseTimerPeriod
     ELSE IF decrease THEN DecreaseTimerPeriod
     ELSE UNCHANGED driver
  /\ Handled
  /\ UNCHANGED <<led, user, increase, decrease>>

\* (mutant) no read: the edge stays pending
ClearButtonEventUnread(k) == UNCHANGED user

\* clear_button_event: the read of the value also forgets the edge.
ClearButtonEvent(k) == edge' = edge \ {k} /\ UNCHANGED button

\* (mutant) "&& !decrease" dropped
HandleK1Unguarded ==
  /\ Handling("k1")
  /\ ClearButtonEvent("k1")
  /\ IF "k1" \in button
       THEN IncreaseTimerPeriod /\ StartPressTimer /\ increase' = TRUE
       ELSE StopPressTimer /\ increase' = FALSE /\ UNCHANGED driver
  /\ Handled
  /\ UNCHANGED <<led, decrease>>

\* (mutant) stop_press_timer forgotten
HandleK1Runaway ==
  /\ Handling("k1")
  /\ ClearButtonEvent("k1")
  /\ IF "k1" \in button /\ ~decrease
       THEN IncreaseTimerPeriod /\ StartPressTimer /\ increase' = TRUE
       ELSE increase' = FALSE /\ UNCHANGED <<driver, press>>
  /\ Handled
  /\ UNCHANGED <<led, decrease>>

HandleK1 ==
  /\ Handling("k1")
  /\ ClearButtonEvent("k1")
  /\ IF "k1" \in button /\ ~decrease
       THEN IncreaseTimerPeriod /\ StartPressTimer /\ increase' = TRUE
       ELSE StopPressTimer /\ increase' = FALSE /\ UNCHANGED driver
  /\ Handled
  /\ UNCHANGED <<led, decrease>>

HandleK2 ==
  /\ Handling("k2")
  /\ ClearButtonEvent("k2")
  /\ ResetTimerPeriod
  /\ Handled
  /\ UNCHANGED <<press, led, increase, decrease>>

HandleK3 ==
  /\ Handling("k3")
  /\ ClearButtonEvent("k3")
  /\ IF "k3" \in button /\ ~increase
       THEN DecreaseTimerPeriod /\ StartPressTimer /\ decrease' = TRUE
       ELSE StopPressTimer /\ decrease' = FALSE /\ UNCHANGED driver
  /\ Handled
  /\ UNCHANGED <<led, increase>>

Handle == HandleP1 \/ HandleP2 \/ HandlePress \/ HandleK1 \/ HandleK2 \/ HandleK3

\* Expiry interrupts run before the process does.
NoneDue == ~(Due(p1) \/ Due(p2) \/ Due(press))

Process == NoneDue /\ (InitApp \/ EpollWait \/ Handle)

-----------------------------------------------------------------------------
(* The user *)

\* k1 and k3 signal both edges, k2 the rising one (open_buttons).
Push(k) ==
  /\ k \in Buttons \ button
  /\ Cardinality(button \union edge \union {k}) <= Hands
  /\ button' = button \union {k}
  /\ edge' = edge \union {k}
  /\ Wake(k)
  /\ UNCHANGED <<driver, press, led, increase, decrease, batch, pc>>

Release(k) ==
  /\ k \in button
  /\ button' = button \ {k}
  /\ IF k = "k2" THEN UNCHANGED <<edge, ready>> ELSE edge' = edge \union {k} /\ Wake(k)
  /\ UNCHANGED <<driver, press, led, increase, decrease, batch, pc>>

User == \E k \in Keys : Push(k) \/ Release(k)

-----------------------------------------------------------------------------
(* The clock and the kernel *)

Elapse ==
  /\ pc # "exited"
  /\ NoneDue
  /\ p1' = Elapsed(p1) /\ p2' = Elapsed(p2) /\ press' = Elapsed(press)
  /\ UNCHANGED <<period_ns, duty_ns, led, user, increase, decrease, loop>>

ExpireP1 ==
  /\ Due(p1) /\ p1' = Expired(p1) /\ Wake("p1")
  /\ UNCHANGED <<period_ns, duty_ns, p2, press, led, user, increase, decrease, batch, pc>>

ExpireP2 ==
  /\ Due(p2) /\ p2' = Expired(p2) /\ Wake("p2")
  /\ UNCHANGED <<period_ns, duty_ns, p1, press, led, user, increase, decrease, batch, pc>>

ExpirePress ==
  /\ Due(press) /\ press' = Expired(press) /\ Wake("press")
  /\ UNCHANGED <<driver, led, user, increase, decrease, batch, pc>>

Expire == ExpireP1 \/ ExpireP2 \/ ExpirePress

Next == Process \/ EpollFail \/ User \/ Elapse \/ Expire

Spec == Init /\ [][Next]_vars

\* The process gets the processor, if only between two expiry interrupts (hence
\* strong fairness), and the clock does not stop; nothing is assumed of the user.
Fairness == SF_vars(Process) /\ WF_vars(Elapse) /\ WF_vars(Expire)

FairSpec == Spec /\ Fairness

-----------------------------------------------------------------------------
(* Properties *)

\* Type invariant.  Of the loop: the ready list has no duplicates, and the
\* events array (handle_events, line 137) is never overrun.
TypeOK ==
  /\ period_ns \in Nat /\ duty_ns \in Nat
  /\ p1 \in Timer /\ p2 \in Timer /\ press \in Timer
  /\ led \in BOOLEAN
  /\ button \subseteq Buttons /\ edge \subseteq Buttons
  /\ increase \in BOOLEAN /\ decrease \in BOOLEAN
  /\ ready \in Seq(Events) /\ IsInjective(ready)
  /\ batch \in Seq(Events) /\ Len(batch) <= MaxEvents
  /\ pc = "handle" <=> batch # <<>>
  /\ pc \in {"init", "wait", "handle", "exited"}

\* The two directions never repeat together (the "&& !decrease" and
\* "&& !increase" of the handlers of k1 and k3), and a direction repeats only
\* while its button is held or its release is still to be read: however the
\* edges of the buttons and the expiries of the press timer are batched and
\* reordered, no repeat is left without an owner.
RepeatHasOwner ==
  /\ ~(increase /\ decrease)
  /\ increase => "k1" \in button \union edge
  /\ decrease => "k3" \in button \union edge
  /\ press.armed \/ press.pend => increase \/ decrease

\* The process waits for an expiration of a timer that is stopped.
Stuck ==
  /\ pc = "handle"
  /\ \/ Head(batch) = "p1" /\ ~p1.pend /\ ~p1.armed
     \/ Head(batch) = "p2" /\ ~p2.pend /\ ~p2.armed
     \/ Head(batch) = "press" /\ ~press.pend /\ ~press.armed

Over == Stuck \/ pc = "exited"

\* Every edge of a button is read sooner or later, the timers and the other
\* buttons notwithstanding, unless the loop is over.
ButtonServed == \A k \in Keys : k \in edge ~> k \notin edge \/ Over

\* Once k1 and k3 stay released the auto-repeat stops for good.
RepeatStops ==
  <>[](button \cap {"k1", "k3"} = {}) => <>[](~press.armed \/ Over)

\* At rest, with nothing left to read, the LED shows the phase of the timers.
InPhase ==
  pc = "wait" /\ ~p1.pend /\ ~p2.pend => led = (p1.rem < p2.rem)

\* Has the process something to do right now?
Busy ==
  \/ pc = "init"
  \/ pc = "wait" /\ ready # <<>>
  \/ pc = "handle" /\ (Head(batch) \in Keys \/ Live(Head(batch)))

\* The process keeps up: no time passes while it has something to do.
KeepsUp == [][Elapse => ~Busy]_vars

\* A button may cost the LED an edge (start_timers forgets what expired), but once
\* the buttons stay released and the process keeps up, the LED falls back into
\* phase and stays there.
LedRecovers ==
  <>[](button = {}) /\ <>KeepsUp => <>[](InPhase \/ Over)

\* "Read to clear the event" (smart_led_control.c:164): a read of the press
\* timer has an event to clear or one to come.
PressReadReturns ==
  pc = "handle" /\ Head(batch) = "press" => press.pend \/ press.armed

\* What the LED's next edge is and when; before the start, what it will be.
Left1 == IF p1 = Created THEN duty_ns ELSE p1.rem
Left2 == IF p2 = Created THEN period_ns ELSE p2.rem
NextEdge == IF Left1 < Left2 THEN "off" ELSE "on"
NextLeft == IF Left1 < Left2 THEN Left1 ELSE Left2

\* The whole program drives its timers as a square wave, too.
Wave == INSTANCE SquareWave WITH
  edge <- NextEdge,
  left <- NextLeft,
  period <- period_ns,
  duty <- duty_ns

ImplementsWave == Wave!Spec
=============================================================================
