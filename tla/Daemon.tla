------------------------------- MODULE Daemon -------------------------------
(***************************************************************************)
(* 01_environment/daemon/daemon.c and 01_environment/process/process.c     *)
(* (the same without the forks): a process detaches itself step by step,   *)
(* sleeps, and counts the signals it catches.  A signal may come between   *)
(* any two steps.  Its handler calls syslog, which takes a lock and, when  *)
(* it has no connection, the lowest free descriptor.                       *)
(***************************************************************************)
EXTENDS Integers, Sequences

CONSTANTS
  Signals,     \* the signals of sigaction
  MaxSignals,  \* bound: signals sent
  MaxFd,       \* the last descriptor
  Nap          \* what is slept

\* What the constants have to be; whoever gives them values assumes it.
DaemonAssumption ==
  /\ Signals # {} /\ MaxSignals \in Nat
  /\ MaxFd \in Nat \ {0, 1, 2} /\ Nap \in Nat \ {0}

VARIABLES
  conf,     \* daemon.c or process.c, and started by root or not
  pc,       \* the step it is at, or how it ended
  self,     \* its place in its session, the session's terminal, its directory and ids
  fd,       \* what each descriptor refers to
  log,      \* the descriptor syslog believes to have, or None
  next,     \* the descriptor the loop of step 7 has come to
  left,     \* t: what is left to sleep
  caught,   \* the signals with a handler
  frames,   \* the handlers that run, the innermost last
  pending,  \* signals that wait for their own handler to end
  signal_catched,
  sent,     \* signals sent so far
  past      \* for the properties: what happened so far

setup == <<self, fd, log, next, left>>
signalling == <<caught, frames, pending, signal_catched, sent>>
dvars == <<conf, pc, setup, signalling, past>>

None == -1
Fds == 0..MaxFd

\* main, from step to step; process.c begins behind the forks.
Following ==
  [fork1 |-> "setsid", setsid |-> "fork2", fork2 |-> "sigaction", sigaction |-> "chdir",
   chdir |-> "close", close |-> "stdin", stdin |-> "dup", dup |-> "openlog",
   openlog |-> "user", user |-> "chroot", chroot |-> "setegid", setegid |-> "seteuid",
   seteuid |-> "sleep", sleep |-> "lastlog", lastlog |-> "ended"]
Ends == {"ended", "exited", "killed"}

Init ==
  /\ conf \in [daemon : BOOLEAN, root : BOOLEAN]
  /\ pc = IF conf.daemon THEN "fork1" ELSE "sigaction"
  /\ self = [who |-> "groupLeader", terminal |-> TRUE, dir |-> "anywhere", ids |-> <<>>]
  /\ fd = [i \in Fds |-> IF i <= 2 THEN "tty" ELSE "closed"] /\ log = None
  /\ next = MaxFd /\ left = Nap
  /\ caught = {} /\ frames = <<>> /\ pending = {} /\ signal_catched = 0 /\ sent = 0
  /\ past = [exit |-> "none", stray |-> FALSE, nested |-> FALSE, handled |-> 0]

-----------------------------------------------------------------------------
(* main *)

\* main runs when no handler does.
At(step) == frames = <<>> /\ pc = step

Advance == pc' = Following[pc] /\ UNCHANGED <<conf, signalling, past>>

Exit(why) ==
  /\ pc' = "exited"
  /\ past' = [past EXCEPT !.exit = why]
  /\ UNCHANGED <<conf, setup, signalling>>

\* fork_process: the parent exits, the child goes on.
ForkProcess ==
  \E step \in {"fork1", "fork2"} :
    /\ At(step)
    /\ \/ Advance /\ self' = [self EXCEPT !.who = "member"] /\ UNCHANGED <<fd, log, next, left>>
       \/ Exit("fork")

\* setsid fails for the leader of a group.
Setsid ==
  /\ At("setsid")
  /\ IF self.who = "member"
       THEN /\ Advance
            /\ self' = [self EXCEPT !.who = "sessionLeader", !.terminal = FALSE]
            /\ UNCHANGED <<fd, log, next, left>>
       ELSE Exit("setsid")

\* One sigaction after the other.
Sigaction ==
  /\ At("sigaction")
  /\ \E s \in Signals \ caught : caught' = caught \union {s}
  /\ pc' = IF caught' = Signals THEN Following[pc] ELSE pc
  /\ UNCHANGED <<conf, setup, frames, pending, signal_catched, sent, past>>

\* umask and chdir
Chdir ==
  /\ At("chdir")
  /\ \/ Advance /\ self' = [self EXCEPT !.dir = "top"] /\ UNCHANGED <<fd, log, next, left>>
     \/ Exit("chdir")

\* Every descriptor, from the highest down.
CloseAll ==
  /\ At("close")
  /\ fd' = [fd EXCEPT ![next] = "closed"]
  /\ IF next > 0 THEN next' = next - 1 /\ UNCHANGED pc ELSE pc' = Following[pc] /\ UNCHANGED next
  /\ UNCHANGED <<conf, self, log, left, signalling, past>>

\* The lowest free descriptor.
IsLowest(d, i) == d[i] = "closed" /\ \A j \in 0..(i - 1) : d[j] # "closed"

\* open("/dev/null") has to return 0.
OpenNull ==
  /\ At("stdin")
  /\ \/ /\ IsLowest(fd, 0)
        /\ Advance /\ fd' = [fd EXCEPT ![0] = "null"] /\ UNCHANGED <<self, log, next, left>>
     \/ ~IsLowest(fd, 0) /\ Exit("taken")
     \/ Exit("open")

\* dup2 onto stdout and stderr, whatever they are
Dup ==
  /\ At("dup")
  /\ \/ Advance /\ fd' = [fd EXCEPT ![1] = fd[0], ![2] = fd[0]] /\ UNCHANGED <<self, log, next, left>>
     \/ Exit("dup2")

\* syslog: what it takes for its connection and does not work it closes, and opens
\* another one.
Connect ==
  IF log # None /\ fd[log] = "log" THEN UNCHANGED <<fd, log>>
  ELSE LET d == IF log = None THEN fd ELSE [fd EXCEPT ![log] = "closed"]
       IN  IF \E i \in Fds : d[i] = "closed"
             THEN \E i \in Fds : IsLowest(d, i) /\ fd' = [d EXCEPT ![i] = "log"] /\ log' = i
             ELSE fd' = d /\ log' = None

LogMessage ==
  /\ At("openlog") \/ At("lastlog")
  /\ Connect
  /\ Advance /\ UNCHANGED <<self, next, left>>

GetUser ==
  /\ At("user")
  /\ \/ Advance /\ UNCHANGED setup
     \/ Exit("getpwnam")

\* Only root may change the root directory and its ids.
Chroot ==
  /\ At("chroot")
  /\ IF conf.root
       THEN Advance /\ self' = [self EXCEPT !.dir = "newRoot"] /\ UNCHANGED <<fd, log, next, left>>
       ELSE Exit("notRoot")

\* (mutant) the user first: it gives up the right to change the group
SetIdsSwapped ==
  \E s \in {<<"setegid", "user">>, <<"seteuid", "group">>} :
    /\ At(s[1])
    /\ IF conf.root /\ self.ids # <<"user">>
         THEN Advance /\ self' = [self EXCEPT !.ids = Append(@, s[2])] /\ UNCHANGED <<fd, log, next, left>>
         ELSE Exit(s[1])

\* Whoever has given up the user has no right to change the group.
SetIds ==
  \E s \in {<<"setegid", "group">>, <<"seteuid", "user">>} :
    /\ At(s[1])
    /\ IF conf.root /\ self.ids # <<"user">>
         THEN Advance /\ self' = [self EXCEPT !.ids = Append(@, s[2])] /\ UNCHANGED <<fd, log, next, left>>
         ELSE Exit(s[1])

\* (mutant) what sleep returns is not kept
SleepForgetful ==
  /\ At("sleep")
  /\ IF left > 0 THEN UNCHANGED <<conf, pc, setup, signalling, past>> ELSE Advance /\ UNCHANGED setup

\* One second of sleep(t); when nothing is left the loop ends.
Sleep ==
  /\ At("sleep")
  /\ IF left > 0
       THEN left' = left - 1 /\ UNCHANGED <<conf, pc, self, fd, log, next, signalling, past>>
       ELSE Advance /\ UNCHANGED setup

MainStep ==
  \/ ForkProcess \/ Setsid \/ Sigaction \/ Chdir \/ CloseAll \/ OpenNull \/ Dup
  \/ LogMessage \/ GetUser \/ Chroot \/ SetIds \/ Sleep

-----------------------------------------------------------------------------
(* Signals and catch_signal *)

Running(s) == \E i \in DOMAIN frames : frames[i].signal = s

\* The lock of syslog: it may or may not be held where main, or a handler that is
\* interrupted, is about to log.
LockMayBeHeld ==
  pc \in {"openlog", "lastlog"} \/ \E i \in DOMAIN frames : frames[i].at = "syslog"

Entered(s) ==
  \E at \in {"syslog"} \union (IF LockMayBeHeld THEN {"locked"} ELSE {}) :
    frames' = Append(frames, [signal |-> s, at |-> at, n |-> 0])

Hung == frames # <<>> /\ frames[Len(frames)].at = "locked"

\* A signal without a handler ends the process; one whose handler runs waits.  A
\* sleep that is interrupted returns the seconds that are left, rounded down.
Signal(s) ==
  /\ pc \notin Ends /\ ~Hung
  /\ sent < MaxSignals /\ sent' = sent + 1
  /\ \/ /\ s \notin caught
        /\ pc' = "killed" /\ frames' = <<>> /\ UNCHANGED <<pending, left, past>>
     \/ /\ s \in caught /\ Running(s)
        /\ pending' = pending \union {s} /\ UNCHANGED <<pc, frames, left, past>>
     \/ /\ s \in caught /\ ~Running(s)
        /\ Entered(s)
        /\ past' = [past EXCEPT !.nested = @ \/ frames # <<>>]
        /\ IF pc = "sleep" /\ frames = <<>> /\ left > 0 THEN left' \in {left, left - 1}
           ELSE UNCHANGED left
        /\ UNCHANGED <<pc, pending>>
  /\ UNCHANGED <<conf, self, fd, log, next, caught, signal_catched>>

Top == frames[Len(frames)]

\* (mutant) the count is not read again
HandlerStale ==
  /\ frames # <<>> /\ Top.at = "syslog"
  /\ Connect
  /\ frames' = [frames EXCEPT ![Len(frames)].at = "count"]
  /\ past' = [past EXCEPT !.stray = @ \/ (log' # log /\ log' \in 0..2)]
  /\ UNCHANGED <<conf, pc, self, next, left, caught, pending, signal_catched, sent>>

\* syslog; then signal_catched is loaded ...
HandlerLogs ==
  /\ frames # <<>> /\ Top.at = "syslog"
  /\ Connect
  /\ frames' = [frames EXCEPT ![Len(frames)].at = "count", ![Len(frames)].n = signal_catched]
  /\ past' = [past EXCEPT !.stray = @ \/ (log' # log /\ log' \in 0..2)]
  /\ UNCHANGED <<conf, pc, self, next, left, caught, pending, signal_catched, sent>>

\* ... and stored, one more.  A pending signal comes when its handler has ended.
HandlerCounts ==
  /\ frames # <<>> /\ Top.at = "count"
  /\ signal_catched' = Top.n + 1
  /\ IF Top.signal \in pending
       THEN frames' = [frames EXCEPT ![Len(frames)] =
                         [signal |-> Top.signal, at |-> "syslog", n |-> 0]]
       ELSE frames' = SubSeq(frames, 1, Len(frames) - 1)
  /\ pending' = pending \ {Top.signal}
  /\ past' = [past EXCEPT !.handled = @ + 1]
  /\ UNCHANGED <<conf, pc, setup, caught, sent>>

Handler == HandlerLogs \/ HandlerCounts

Next == MainStep \/ Handler \/ \E s \in Signals : Signal(s)

\* The process is scheduled.
Spec == Init /\ [][Next]_dvars /\ WF_dvars(MainStep) /\ WF_dvars(Handler)

-----------------------------------------------------------------------------
(* Properties *)

\* Type invariant; the process uses descriptors it has.
TypeOK ==
  /\ conf \in [daemon : BOOLEAN, root : BOOLEAN]
  /\ pc \in DOMAIN Following \union Ends
  /\ \A i \in Fds : fd[i] \in {"tty", "closed", "null", "log"}
  /\ log \in Fds \union {None} /\ left \in 0..Nap
  /\ caught \subseteq Signals /\ pending \subseteq caught
  /\ Len(frames) <= sent

\* In its body a daemon can get no terminal, has given up root in user and group, and
\* reads from and writes to /dev/null, with no descriptor left over but the log's
\* ("close all open file descriptors", "redirect stdin, stdout and stderr to
\* /dev/null", daemon.c:96, 101).  The exception is a signal that is caught while
\* the standard descriptors are closed: syslog takes one of them.
BodyReady ==
  pc \in {"sleep", "lastlog"} =>
    /\ self.dir = "newRoot" /\ self.ids = <<"group", "user">>
    /\ conf.daemon => self.who = "member" /\ ~self.terminal
    /\ ~past.stray => /\ \A i \in 0..2 : fd[i] = "null"
                      /\ \A i \in 3..MaxFd : fd[i] # "closed" => i = log

\* The steps are in an order in which none of them makes a later one fail: a program
\* that gives up was not started by root, saw a call fail by itself, or lost
\* descriptor 0 to the syslog of a handler.
GivesUpForCause ==
  /\ past.exit \notin {"setsid", "setegid", "seteuid"}
  /\ past.exit = "taken" => past.stray

\* The program comes to its body detached, or gives up for a cause.
Detaches == BodyReady /\ GivesUpForCause

\* No signal is counted twice, and one is lost only when a handler interrupts another
\* between the load and the store of signal_catched++.
CountExact ==
  /\ signal_catched <= past.handled
  /\ ~past.nested => signal_catched = past.handled

\* Whatever signals it gets, the program ends, or hangs in a handler that was called
\* inside syslog.
DaemonEnds == <>(pc \in Ends \/ Hung)
=============================================================================
