---------------------------- MODULE PollDriver ----------------------------
(***************************************************************************)
(* The button driver with a poll operation (03_drivers/exercice07) and the *)
(* processes that wait for button interrupts with select(2).  The driver   *)
(* counts interrupts; every poll that finds the counter non-zero takes one *)
(* off.  select registers on the driver's wait queue, polls, sleeps until  *)
(* woken and polls again.                                                  *)
(***************************************************************************)
EXTENDS Integers, FiniteSets

CONSTANTS
  Pollers,        \* processes that run user/main.c
  MaxInterrupts   \* bound: button edges

\* What the constants have to be; whoever gives them values assumes it.
PollDriverAssumption == IsFiniteSet(Pollers) /\ MaxInterrupts \in Nat

VARIABLES
  nb_of_interrupts,  \* the driver's counter
  raised,            \* edges so far
  isr,               \* edges whose handler has yet to wake the queue
  queue,             \* pollers registered on the wait queue
  woken,             \* pollers woken since they last polled
  pc,
  interrupt_count    \* what each process printed last

vars == <<nb_of_interrupts, raised, isr, queue, woken, pc, interrupt_count>>

Init ==
  /\ nb_of_interrupts = 0 /\ raised = 0 /\ isr = 0
  /\ queue = {} /\ woken = {}
  /\ pc = [p \in Pollers |-> "select"]
  /\ interrupt_count = [p \in Pollers |-> 0]

-----------------------------------------------------------------------------
(* gpio_isr: count, then wake *)

IsrCount ==
  /\ raised < MaxInterrupts
  /\ raised' = raised + 1
  /\ nb_of_interrupts' = nb_of_interrupts + 1
  /\ isr' = isr + 1
  /\ UNCHANGED <<queue, woken, pc, interrupt_count>>

IsrWake ==
  /\ isr > 0
  /\ isr' = isr - 1
  /\ woken' = woken \union queue
  /\ UNCHANGED <<nb_of_interrupts, raised, queue, pc, interrupt_count>>

-----------------------------------------------------------------------------
(* select and skeleton_poll, as far as they touch the counter or the queue *)

Goto(p, from, to) == pc[p] = from /\ pc' = [pc EXCEPT ![p] = to]

\* (mutant) the poll method does not call poll_wait
PollWaitForgotten(p) ==
  /\ Goto(p, "select", "poll")
  /\ woken' = woken \ {p}
  /\ UNCHANGED <<nb_of_interrupts, raised, isr, queue, interrupt_count>>

\* poll_wait: the first poll of a select registers the process.
PollWait(p) ==
  /\ Goto(p, "select", "poll")
  /\ queue' = queue \union {p}
  /\ woken' = woken \ {p}
  /\ UNCHANGED <<nb_of_interrupts, raised, isr, interrupt_count>>

\* (mutant) the counter is not tested
PollReadBlind(p) ==
  /\ Goto(p, "poll", "dec")
  /\ UNCHANGED <<nb_of_interrupts, raised, isr, queue, woken, interrupt_count>>

\* atomic_read(&nb_of_interrupts) != 0
PollRead(p) ==
  /\ \/ nb_of_interrupts # 0 /\ Goto(p, "poll", "dec")
     \/ nb_of_interrupts = 0 /\ Goto(p, "poll", "sleep")
  /\ UNCHANGED <<nb_of_interrupts, raised, isr, queue, woken, interrupt_count>>

\* (mutant) atomic_inc
PollDecUp(p) ==
  /\ Goto(p, "dec", "ready")
  /\ nb_of_interrupts' = nb_of_interrupts + 1
  /\ queue' = queue \ {p}
  /\ UNCHANGED <<raised, isr, woken, interrupt_count>>

\* atomic_dec(&nb_of_interrupts), and select leaves the wait queue
PollDec(p) ==
  /\ Goto(p, "dec", "ready")
  /\ nb_of_interrupts' = nb_of_interrupts - 1
  /\ queue' = queue \ {p}
  /\ UNCHANGED <<raised, isr, woken, interrupt_count>>

\* select sleeps until a wake-up that came after its registration or its last poll
WakeUp(p) ==
  /\ p \in woken
  /\ Goto(p, "sleep", "poll")
  /\ woken' = woken \ {p}
  /\ UNCHANGED <<nb_of_interrupts, raised, isr, queue, interrupt_count>>

\* user/main.c counts one interrupt per select.
Count(p) ==
  /\ Goto(p, "ready", "select")
  /\ interrupt_count' = [interrupt_count EXCEPT ![p] = @ + 1]
  /\ interrupt_count[p] <= MaxInterrupts
  /\ UNCHANGED <<nb_of_interrupts, raised, isr, queue, woken>>

Isr == IsrCount \/ IsrWake

Step(p) == PollWait(p) \/ PollRead(p) \/ PollDec(p) \/ WakeUp(p) \/ Count(p)

Next == Isr \/ \E p \in Pollers : Step(p)

Spec == Init /\ [][Next]_vars

\* Interrupt handlers finish and processes are scheduled; nobody has to press.
FairSpec == Spec /\ WF_vars(IsrWake) /\ \A p \in Pollers : WF_vars(Step(p))

-----------------------------------------------------------------------------
(* Properties *)

\* Is there only one process?
Alone == \E p \in Pollers : Pollers = {p}

\* Type invariant.
TypeOK ==
  /\ nb_of_interrupts \in Int /\ nb_of_interrupts <= raised
  /\ raised \in 0..MaxInterrupts /\ isr \in 0..raised
  /\ queue \subseteq Pollers /\ woken \subseteq Pollers
  /\ pc \in [Pollers -> {"select", "poll", "dec", "sleep", "ready"}]
  /\ interrupt_count \in [Pollers -> Nat]

\* "Interrupt occured ! Total number of interrupts" (user/main.c:25): no
\* process announces more interrupts than occurred.
CountIsReal == \A p \in Pollers : interrupt_count[p] <= raised

\* A process that is alone reports no more interrupts than there were: the test and
\* the decrement of the counter are two steps (skeleton.c:53, 56), and a counter
\* that went below zero would make every later poll succeed.
NoPhantom == Alone => CountIsReal /\ nb_of_interrupts >= 0

\* When the buttons are left alone every interrupt has been counted in the end,
\* exactly once, by a process that is alone: no wake-up is lost between the poll
\* that finds nothing and the sleep.
AllCounted ==
  <>[](/\ \A p \in Pollers : interrupt_count[p] = raised
       /\ nb_of_interrupts = 0)
=============================================================================
