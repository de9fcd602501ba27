----------------------------- MODULE SocketPair -----------------------------
(***************************************************************************)
(* The two processes of 05_system/exercice01: a child that sends messages  *)
(* over a stream socket, sleeping after each, and a parent that reads      *)
(* until it sees "exit".  A stream keeps the bytes, not the messages: one  *)
(* read returns everything that is queued (79 bytes in all, the buffer     *)
(* has 256) and the parent looks at the first four bytes only.             *)
(***************************************************************************)
EXTENDS Naturals, Sequences

CONSTANTS
  NumMsg,      \* messages of the child, the last one is "exit"
  MaxSignals,  \* bound: signals sent to the parent
  Timings,     \* the values of "timely" looked at
  ChildDies    \* TRUE: the child may be killed

\* What the constants have to be; whoever gives them values assumes it.
SocketPairAssumption ==
  /\ NumMsg \in Nat \ {0} /\ MaxSignals \in Nat
  /\ Timings \subseteq BOOLEAN /\ ChildDies \in BOOLEAN

VARIABLES
  timely,   \* does the child's sleep outlast any delay of the parent? (fixed)
  msg_cnt,  \* the child's next message
  child,    \* "write", "sleep", "ended", "killed"
  stream,   \* messages written and not yet read
  closed,   \* is the child's end closed?
  parent,   \* "read", "test", "ended"
  buf,      \* what the last successful read put there
  nbytes,   \* did the last read return anything?
  signals,  \* signals the parent has caught
  seen      \* messages the parent has announced

vars == <<timely, msg_cnt, child, stream, closed, parent, buf, nbytes, signals, seen>>

Init ==
  /\ timely \in Timings
  /\ msg_cnt = 1 /\ child = "write"
  /\ stream = <<>> /\ closed = FALSE
  /\ parent = "read" /\ buf = <<>> /\ nbytes = FALSE
  /\ signals = 0 /\ seen = <<>>

-----------------------------------------------------------------------------
(* The child ignores the signals the parent catches. *)

Write ==
  /\ child = "write" /\ msg_cnt <= NumMsg
  /\ stream' = Append(stream, msg_cnt)
  /\ msg_cnt' = msg_cnt + 1
  /\ child' = "sleep"
  /\ UNCHANGED <<timely, closed, parent, buf, nbytes, signals, seen>>

Sleep ==
  /\ child = "sleep"
  /\ timely => stream = <<>> /\ parent # "test"
  /\ child' = "write"
  /\ UNCHANGED <<timely, msg_cnt, stream, closed, parent, buf, nbytes, signals, seen>>

Close ==
  /\ child = "write" /\ msg_cnt > NumMsg
  /\ child' = "ended"
  /\ closed' = TRUE
  /\ UNCHANGED <<timely, msg_cnt, stream, parent, buf, nbytes, signals, seen>>

Killed ==
  /\ ChildDies
  /\ child \in {"write", "sleep"}
  /\ child' = "killed"
  /\ closed' = TRUE
  /\ UNCHANGED <<timely, msg_cnt, stream, parent, buf, nbytes, signals, seen>>

Child == Write \/ Sleep \/ Close

-----------------------------------------------------------------------------
(* The parent *)

\* read returns what is queued, or 0 once the child's end is closed.
Read ==
  /\ parent = "read"
  /\ \/ stream # <<>> /\ buf' = stream /\ nbytes' = TRUE
     \/ stream = <<>> /\ closed /\ UNCHANGED buf /\ nbytes' = FALSE
  /\ stream' = <<>>
  /\ parent' = "test"
  /\ UNCHANGED <<timely, msg_cnt, child, closed, signals, seen>>

\* A caught signal interrupts a read that waits (EINTR).
Interrupt ==
  /\ signals < MaxSignals
  /\ parent = "read" /\ stream = <<>> /\ ~closed
  /\ signals' = signals + 1
  /\ nbytes' = FALSE
  /\ parent' = "test"
  /\ UNCHANGED <<timely, msg_cnt, child, stream, closed, buf, seen>>

\* (mutants) "0 < nbytes" left out; the break left out
TestStale ==
  /\ parent = "test"
  /\ IF buf # <<>>
       THEN /\ seen' = Append(seen, Head(buf))
            /\ parent' = IF Head(buf) = NumMsg THEN "ended" ELSE "read"
       ELSE parent' = "read" /\ UNCHANGED seen
  /\ UNCHANGED <<timely, msg_cnt, child, stream, closed, buf, nbytes, signals>>
TestForever ==
  /\ parent = "test"
  /\ parent' = "read"
  /\ seen' = IF nbytes THEN Append(seen, Head(buf)) ELSE seen
  /\ UNCHANGED <<timely, msg_cnt, child, stream, closed, buf, nbytes, signals>>

\* Only the first message is printed and compared with "exit"; a read that
\* returned nothing is tried again.
Test ==
  /\ parent = "test"
  /\ IF nbytes
       THEN /\ seen' = Append(seen, Head(buf))
            /\ parent' = IF Head(buf) = NumMsg THEN "ended" ELSE "read"
       ELSE parent' = "read" /\ UNCHANGED seen
  /\ UNCHANGED <<timely, msg_cnt, child, stream, closed, buf, nbytes, signals>>

Parent == Read \/ Test

Next == Child \/ Killed \/ Parent \/ Interrupt

Spec == Init /\ [][Next]_vars

\* Both processes are scheduled.
FairSpec == Spec /\ WF_vars(Child) /\ WF_vars(Parent)

-----------------------------------------------------------------------------
(* Properties *)

\* Type invariant.
TypeOK ==
  /\ timely \in Timings
  /\ msg_cnt \in 1..(NumMsg + 1)
  /\ child \in {"write", "sleep", "ended", "killed"}
  /\ stream \in Seq(1..NumMsg) /\ buf \in Seq(1..NumMsg) /\ seen \in Seq(1..NumMsg)
  /\ closed \in BOOLEAN /\ nbytes \in BOOLEAN
  /\ parent \in {"read", "test", "ended"}
  /\ signals \in 0..MaxSignals

\* However late the parent, whatever signals it gets and whenever the child
\* dies: no message is announced twice, or after a later one (the buffer keeps
\* its old contents when a read fails).  With a timely parent every message is
\* announced: the child is never more than one message ahead.
InOrder ==
  /\ \A i, j \in DOMAIN seen : i < j => seen[i] < seen[j]
  /\ timely => seen = [i \in 1..Len(seen) |-> i] /\ msg_cnt - 1 - Len(seen) <= 1

\* A timely parent ends once "exit" is sent, interrupted reads notwithstanding.
ParentEnds == timely /\ msg_cnt > NumMsg ~> parent = "ended"

\* "Terminating application..." (main.c:157): once "exit" is sent the parent
\* ends, timely or not.
ExitHeeded == msg_cnt > NumMsg ~> parent = "ended"
=============================================================================
