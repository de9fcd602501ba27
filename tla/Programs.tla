------------------------------ MODULE Programs ------------------------------
(***************************************************************************)
(* The small programs and drivers of the repository, which have nothing to *)
(* do with one another: each behaviour runs one of them, prog, and leaves  *)
(* the variables of the others as they are.  The constants are those of    *)
(* the modules; MCPrograms gives them values.                              *)
(***************************************************************************)
EXTENDS Integers

CONSTANTS
  NumMsg, Timings, ChildDies,                     \* SocketPair
  Pollers, MaxInterrupts,                         \* PollDriver
  Procs, Junk, Size, MaxText,                     \* Attributes
  Vals, Config, TempSize, Stray, MaxCount, MaxOff,   \* ProcfsEntry
  Periods, MaxGap,                                \* SillyLed
  Signals, MaxSignals, MaxFd, Nap,                \* Daemon; SocketPair
  NbrBlocks, Limit,                               \* MemGroup
  Lines, Space, Rows, RowChars, CharWidth, Nibble, MaxFailures,   \* Oled; SmartStart
  Claimed, Leftover, MaxRuns                      \* SmartStart

VARIABLES
  prog,
  timely, msg_cnt, child, stream, closed, parent, buf, nbytes, signals, seen,
  nb_of_interrupts, raised, isr, queue, woken, pc, interrupt_count,
  attr, value, call,
  entry, val, pos, got, reader, whole, steady,
  period, pin, at, ready, k, delta, since, lit, age, gap, onset,
  conf, step, self, fd, log, next, left, caught, frames, pending,
  signal_catched, sent, past,
  configured, stage, group,
  doing, inGroup, limited, index, pmem, charged, denied,
  opened, part, row, written, page, column, on, screen, failures, hit,
  pins, direction, detected, fds, watched, calls, where, lost, runs, refused

socketVars == <<timely, msg_cnt, child, stream, closed, parent, buf, nbytes, signals, seen>>
pollVars == <<nb_of_interrupts, raised, isr, queue, woken, pc, interrupt_count>>
attributeVars == <<attr, value, call>>
procfsVars == <<entry, val, pos, got, reader, whole, steady>>
sillyVars == <<period, pin, at, ready, k, delta, since, lit, age, gap, onset>>
daemonVars == <<conf, step, self, fd, log, next, left, caught, frames, pending,
                signal_catched, sent, past>>
cpuVars == <<configured, stage, group>>
memVars == <<doing, inGroup, limited, index, pmem, charged, denied>>
oledVars == <<opened, part, row, written, page, column, on, screen, failures, hit>>
startVars == <<pins, direction, detected, fds, watched, calls, where, lost, runs, refused>>

vars == <<prog, socketVars, pollVars, attributeVars, procfsVars, sillyVars,
          daemonVars, cpuVars, memVars, oledVars, startVars>>

Socket == INSTANCE SocketPair
Poll == INSTANCE PollDriver
Attr == INSTANCE Attributes
Procfs == INSTANCE ProcfsEntry
Silly == INSTANCE SillyLed
Detach == INSTANCE Daemon WITH pc <- step
Cpu == INSTANCE CpuGroups WITH ready <- configured
Mem == INSTANCE MemGroup WITH i <- index
Display == INSTANCE Oled
Start == INSTANCE SmartStart WITH
  pin <- pins, fd <- fds, next <- calls, at <- where, failures <- refused

\* What the modules assume of the constants.
ASSUME ProgramsAssumption ==
  /\ Socket!SocketPairAssumption /\ Poll!PollDriverAssumption
  /\ Attr!AttributesAssumption /\ Procfs!ProcfsEntryAssumption
  /\ Silly!SillyLedAssumption /\ Detach!DaemonAssumption
  /\ Mem!MemGroupAssumption /\ Display!OledAssumption /\ Start!SmartStartAssumption

\* What is not run starts in one state only.
Init ==
  /\ prog \in {"socket", "poll", "attribute", "procfs", "silly", "daemon", "cpu", "mem", "oled",
              "start"}
  /\ Socket!Init /\ (prog # "socket" => timely = (CHOOSE t \in Timings : TRUE))
  /\ Poll!Init
  /\ Attr!Init /\ (prog # "attribute" => attr = "val")
  /\ Procfs!Init /\ (prog # "procfs" => entry = "val" /\ val = (CHOOSE v \in Vals : TRUE))
  /\ Silly!Init /\ (prog # "silly" => period = (CHOOSE p \in Periods : TRUE) /\ pin = "free")
  /\ Detach!Init /\ (prog # "daemon" => conf.daemon /\ conf.root)
  /\ Cpu!Init
  /\ Mem!Init
  /\ Display!Init /\ (prog # "oled" => ~opened)
  /\ Start!Init /\ (prog # "start" => pins = [p \in Start!Pins |-> "free"])

Next ==
  /\ UNCHANGED prog
  /\ IF prog = "socket" THEN Socket!Next ELSE UNCHANGED socketVars
  /\ IF prog = "poll" THEN Poll!Next ELSE UNCHANGED pollVars
  /\ IF prog = "attribute" THEN Attr!Next ELSE UNCHANGED attributeVars
  /\ IF prog = "procfs" THEN Procfs!Next ELSE UNCHANGED procfsVars
  /\ IF prog = "silly" THEN Silly!Next ELSE UNCHANGED sillyVars
  /\ IF prog = "daemon" THEN Detach!Next ELSE UNCHANGED daemonVars
  /\ IF prog = "cpu" THEN Cpu!Next ELSE UNCHANGED cpuVars
  /\ IF prog = "mem" THEN Mem!Next ELSE UNCHANGED memVars
  /\ IF prog = "oled" THEN Display!Next ELSE UNCHANGED oledVars
  /\ IF prog = "start" THEN Start!Next ELSE UNCHANGED startVars

\* The fairness each module states, for the program that is run.
Spec ==
  /\ Init /\ [][Next]_vars
  /\ WF_socketVars(prog = "socket" /\ Socket!Child)
  /\ WF_socketVars(prog = "socket" /\ Socket!Parent)
  /\ WF_pollVars(prog = "poll" /\ Poll!IsrWake)
  /\ \A p \in Pollers : WF_pollVars(prog = "poll" /\ Poll!Step(p))
  /\ WF_sillyVars(prog = "silly" /\ Silly!Loop)
  /\ SF_sillyVars(prog = "silly" /\ Silly!Tick)
  /\ WF_daemonVars(prog = "daemon" /\ Detach!MainStep)
  /\ WF_daemonVars(prog = "daemon" /\ Detach!Handler)

-----------------------------------------------------------------------------
(* The properties of the modules, under their own names *)

\* Every type invariant: SocketPair ... SmartStart.
TypeOK ==
  /\ Socket!TypeOK /\ Poll!TypeOK /\ Attr!TypeOK /\ Procfs!TypeOK /\ Silly!TypeOK
  /\ Detach!TypeOK /\ Cpu!TypeOK /\ Mem!TypeOK /\ Display!TypeOK
  /\ Start!TypeOK

\* SocketPair: messages are announced in order, once, and by a timely parent all of them.
InOrder == Socket!InOrder
\* SocketPair: a timely parent ends after "exit".
ParentEnds == prog = "socket" => Socket!ParentEnds

\* PollDriver: one process makes up no interrupt ...
NoPhantom == Poll!NoPhantom
\* ... and counts every one in the end.
AllCounted == prog = "poll" /\ Poll!Alone => Poll!AllCounted

\* Attributes: the strcpy of a show stops inside the buffer.
ShowStops == Attr!ShowStops
\* Attributes: an undisturbed write leaves what its text says.
StoreTakesEffect == Attr!StoreTakesEffect
\* Attributes: an undisturbed show returns the value.
ShowTellsTruth == Attr!ShowTellsTruth

\* ProcfsEntry: never more than the text, and all of it to who asks for all of it.
WholeText == Procfs!WholeText

\* SillyLed: every phase has its length, give or take the delays of one round.
PhaseLength == Silly!PhaseLength
\* SillyLed: the LED blinks for ever.
LedBlinks == prog = "silly" => Silly!LedBlinks

\* Daemon: the program comes to its body detached, or gives up for a cause.
Detaches == Detach!Detaches
\* Daemon: how far signal_catched can be trusted.
CountExact == Detach!CountExact
\* Daemon: it ends, or hangs in a handler called inside syslog.
DaemonEnds == prog = "daemon" => Detach!DaemonEnds

\* CpuGroups: who computes in which group.
GroupsApart == Cpu!GroupsApart

\* MemGroup: what was allocated is freed.
FreedAll == Mem!FreedAll

\* Oled: how far the damage of a failed write goes.
DamageContained == Display!DamageContained

\* SmartStart: a run comes to its loop with everything it needs or gives up for a cause,
\* and gives the LED's pin back.
CleanLife == Start!CleanLife
=============================================================================
