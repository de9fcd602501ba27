-------------------------- MODULE ProcessProofs --------------------------
(***************************************************************************)
(* What TLAPS proves of the programs made of processes that wait for one   *)
(* another or are interrupted by signals: the interrupt counter, the       *)
(* parent and its child, and the daemon; for any number of processes,      *)
(* interrupts, messages and signals.                                       *)
(***************************************************************************)
EXTENDS Programs, SequenceTheorems, TLAPS

-----------------------------------------------------------------------------
(* The interrupt counter *)

Places == {"select", "poll", "dec", "sleep", "ready"}

\* What both invariants rest on: types, and that whoever has polled, and may sleep,
\* is on the wait queue.
Registered ==
  /\ nb_of_interrupts \in Int /\ raised \in Nat /\ isr \in Nat
  /\ pc \in [Pollers -> Places]
  /\ interrupt_count \in [Pollers -> Int]
  /\ \A p \in Pollers : pc[p] \in {"poll", "sleep"} => p \in queue

\* An interrupt that is there to be counted does not leave a process asleep: it has
\* been woken, or a handler is about to wake the queue (skeleton.c:49-53).
NoneOversleeps ==
  \A p \in Pollers :
    pc[p] = "sleep" /\ nb_of_interrupts > 0 => p \in woken \/ isr > 0

WakeInv == Registered /\ NoneOversleeps

LEMMA WakeInit == Poll!Init => WakeInv
  BY DEF Poll!Init, WakeInv, Registered, NoneOversleeps, Places

\* An interrupt moves no process.
LEMMA WakeIsr == WakeInv /\ Poll!Isr => WakeInv'
<1> SUFFICES ASSUME WakeInv, Poll!Isr
             PROVE  WakeInv'
  OBVIOUS
<1> USE DEF WakeInv, Registered, NoneOversleeps
<1>1. CASE Poll!IsrCount
  BY <1>1 DEF Poll!IsrCount
<1>2. CASE Poll!IsrWake
  <2>1. \A p \in Pollers : pc[p] = "sleep" => p \in woken'
    BY <1>2 DEF Poll!IsrWake
  <2> QED
    BY <1>2, <2>1 DEF Poll!IsrWake
<1> QED
  BY <1>1, <1>2 DEF Poll!Isr

\* A process wakes up, and leaves the queue, only for itself, and only takes off
\* the counter.
LEMMA WakeStep == ASSUME WakeInv, NEW p \in Pollers, Poll!Step(p) PROVE WakeInv'
<1> USE DEF WakeInv, Registered, NoneOversleeps, Poll!Goto, Places
<1>1. CASE Poll!PollWait(p)
  BY <1>1 DEF Poll!PollWait
<1>2. CASE Poll!PollRead(p)
  <2>1. CASE nb_of_interrupts # 0 /\ pc[p] = "poll" /\ pc' = [pc EXCEPT ![p] = "dec"]
    BY <1>2, <2>1 DEF Poll!PollRead
  <2>2. CASE nb_of_interrupts = 0 /\ pc[p] = "poll" /\ pc' = [pc EXCEPT ![p] = "sleep"]
    BY <1>2, <2>2 DEF Poll!PollRead
  <2> QED
    BY <1>2, <2>1, <2>2 DEF Poll!PollRead
<1>3. CASE Poll!PollDec(p)
  BY <1>3 DEF Poll!PollDec
<1>4. CASE Poll!WakeUp(p)
  BY <1>4 DEF Poll!WakeUp
<1>5. CASE Poll!Count(p)
  BY <1>5 DEF Poll!Count
<1> QED
  BY <1>1, <1>2, <1>3, <1>4, <1>5 DEF Poll!Step

LEMMA WakeKept == WakeInv /\ [Poll!Next]_(Poll!vars) => WakeInv'
<1>1. WakeInv /\ UNCHANGED Poll!vars => WakeInv'
  BY DEF WakeInv, Registered, NoneOversleeps, Poll!vars
<1> QED
  BY <1>1, WakeIsr, WakeStep DEF Poll!Next

\* A step of the program that runs is one of the counter's, or leaves it alone.
LEMMA PollSteps == [Next]_vars => [Poll!Next]_(Poll!vars)
  BY DEF Next, vars, pollVars, Poll!vars

\* Between the poll that finds nothing and the sleep no wake-up is lost, for any
\* number of processes: the poll method registers before it tests.
THEOREM WakeUpsKept == Spec => []NoneOversleeps
<1>1. Init => WakeInv
  BY WakeInit DEF Init
<1>2. WakeInv /\ [Next]_vars => WakeInv'
  BY WakeKept, PollSteps
<1>3. WakeInv => NoneOversleeps
  BY DEF WakeInv
<1> QED
  BY <1>1, <1>2, <1>3, PTL DEF Spec

-----------------------------------------------------------------------------
(* One process *)

\* The counter holds what occurred and was not counted; one of it may be on its way
\* to the process that took it off.
ExactInv(p) ==
  /\ Registered
  /\ raised = nb_of_interrupts + interrupt_count[p] + (IF pc[p] = "ready" THEN 1 ELSE 0)
  /\ nb_of_interrupts >= 0
  /\ pc[p] = "dec" => nb_of_interrupts > 0

LEMMA ExactStep ==
  ASSUME NEW p, Pollers = {p}, ExactInv(p), [Poll!Next]_(Poll!vars)
  PROVE  ExactInv(p)'
<1> USE DEF ExactInv, Registered, Poll!Goto, Places
<1>1. CASE Poll!IsrCount
  BY <1>1 DEF Poll!IsrCount
<1>2. CASE Poll!IsrWake
  BY <1>2 DEF Poll!IsrWake
<1>3. CASE Poll!PollWait(p)
  BY <1>3 DEF Poll!PollWait
<1>4. CASE Poll!PollRead(p)
  <2>1. CASE nb_of_interrupts # 0 /\ pc[p] = "poll" /\ pc' = [pc EXCEPT ![p] = "dec"]
    BY <1>4, <2>1 DEF Poll!PollRead
  <2>2. CASE nb_of_interrupts = 0 /\ pc[p] = "poll" /\ pc' = [pc EXCEPT ![p] = "sleep"]
    BY <1>4, <2>2 DEF Poll!PollRead
  <2> QED
    BY <1>4, <2>1, <2>2 DEF Poll!PollRead
<1>5. CASE Poll!PollDec(p)
  BY <1>5 DEF Poll!PollDec
<1>6. CASE Poll!WakeUp(p)
  BY <1>6 DEF Poll!WakeUp
<1>7. CASE Poll!Count(p)
  <2>1. interrupt_count'[p] = interrupt_count[p] + 1
    BY <1>7 DEF Poll!Count
  <2> QED
    BY <1>7, <2>1 DEF Poll!Count
<1>8. CASE UNCHANGED Poll!vars
  BY <1>8 DEF Poll!vars
<1> QED
  BY <1>1, <1>2, <1>3, <1>4, <1>5, <1>6, <1>7, <1>8 DEF Poll!Next, Poll!Isr, Poll!Step

\* One process alone counts no interrupt that did not occur and drives the counter
\* below zero neither (poll_two shows that two of them do).
THEOREM OneCountsExactly == Spec => []NoPhantom
<1> DEFINE Exact == \A p : Pollers = {p} => ExactInv(p)
<1>1. Init => Exact
  BY DEF Init, Poll!Init, ExactInv, Registered, Places
<1>2. Exact /\ [Next]_vars => Exact'
  BY ExactStep, PollSteps
<1>3. Exact => NoPhantom
  BY DEF ExactInv, Registered, NoPhantom, Poll!NoPhantom, Poll!Alone, Poll!CountIsReal
<1> HIDE DEF Exact
<1> QED
  BY <1>1, <1>2, <1>3, PTL DEF Spec

-----------------------------------------------------------------------------
(* The parent and the child *)

\* The parent has a message in buf that it has not announced yet.
Pending == parent = "test" /\ nbytes

MessagesTyped ==
  /\ msg_cnt \in Nat \ {0}
  /\ stream \in Seq(Nat) /\ buf \in Seq(Nat) /\ seen \in Seq(Nat)
  /\ nbytes \in BOOLEAN

\* The stream ends with the message written last and has no gap.
StreamInOrder ==
  /\ Len(stream) < msg_cnt
  /\ \A i \in 1..Len(stream) : stream[i] = msg_cnt - 1 - Len(stream) + i

\* What was announced comes before what is in buf, and that before the stream.
SeenInOrder ==
  /\ \A i, j \in 1..Len(seen) : i < j => seen[i] < seen[j]
  /\ \A i \in 1..Len(seen) : seen[i] < msg_cnt - Len(stream)
  /\ Pending => /\ buf # <<>> /\ Head(buf) < msg_cnt - Len(stream)
                /\ \A i \in 1..Len(seen) : seen[i] < Head(buf)

\* A timely parent has taken one message before the child writes the next.
OneAhead ==
  timely =>
    /\ child = "write" => stream = <<>> /\ ~Pending
    /\ Len(stream) <= 1
    /\ Pending => stream = <<>> /\ Head(buf) = Len(seen) + 1 /\ msg_cnt = Len(seen) + 2
    /\ ~Pending => msg_cnt - 1 - Len(stream) = Len(seen)
    /\ \A i \in 1..Len(seen) : seen[i] = i

OrderInv == MessagesTyped /\ StreamInOrder /\ SeenInOrder /\ OneAhead

LEMMA OrderInit == Socket!Init => OrderInv
<1> SUFFICES ASSUME Socket!Init
             PROVE  OrderInv
  OBVIOUS
<1>1. stream \in Seq(Nat) /\ buf \in Seq(Nat) /\ seen \in Seq(Nat)
  BY DEF Socket!Init
<1>2. Len(stream) = 0 /\ Len(seen) = 0 /\ msg_cnt = 1
  BY DEF Socket!Init
<1>3. nbytes \in BOOLEAN /\ ~Pending
  <2>1. nbytes = FALSE
    BY DEF Socket!Init
  <2> QED
    BY <2>1 DEF Pending
<1>4. MessagesTyped
  BY <1>1, <1>2, <1>3 DEF MessagesTyped
<1>5. StreamInOrder
  BY <1>2 DEF StreamInOrder
<1>6. SeenInOrder
  BY <1>2, <1>3 DEF SeenInOrder
<1>7. OneAhead
  <2>1. stream = <<>>
    BY DEF Socket!Init
  <2> QED
    BY <1>2, <1>3, <2>1 DEF OneAhead
<1> QED
  BY <1>4, <1>5, <1>6, <1>7 DEF OrderInv

\* Only Write, Read and Test touch the messages.
LEMMA WriteKeepsOrder == OrderInv /\ Socket!Write => OrderInv'
<1> SUFFICES ASSUME OrderInv, Socket!Write
             PROVE  OrderInv'
  OBVIOUS
<1> USE DEF OrderInv, Socket!Write
<1>1. MessagesTyped'
  BY DEF MessagesTyped
<1>2. /\ Len(stream') = Len(stream) + 1 /\ msg_cnt' = msg_cnt + 1
      /\ \A i \in 1..Len(stream) : stream'[i] = stream[i]
      /\ stream'[Len(stream) + 1] = msg_cnt
  BY DEF MessagesTyped
<1>3. StreamInOrder'
  <2>1. Len(stream) \in Nat /\ Len(stream') < msg_cnt'
    BY <1>2 DEF MessagesTyped, StreamInOrder
  <2>2. ASSUME NEW i \in 1..Len(stream')
        PROVE  stream'[i] = msg_cnt' - 1 - Len(stream') + i
    <3>1. CASE i \in 1..Len(stream)
      BY <1>2, <2>1, <3>1 DEF MessagesTyped, StreamInOrder
    <3>2. CASE i = Len(stream) + 1
      BY <1>2, <2>1, <3>2 DEF MessagesTyped
    <3> QED
      BY <1>2, <2>1, <2>2, <3>1, <3>2
  <2> QED
    BY <2>1, <2>2 DEF StreamInOrder
<1>4. msg_cnt' - Len(stream') = msg_cnt - Len(stream)
  BY <1>2 DEF MessagesTyped
<1>5. SeenInOrder'
  BY <1>4 DEF SeenInOrder, Pending
<1>6. OneAhead'
  BY <1>2 DEF MessagesTyped, OneAhead, Pending
<1> QED
  BY <1>1, <1>3, <1>5, <1>6

LEMMA ReadKeepsOrder == OrderInv /\ Socket!Read => OrderInv'
<1> SUFFICES ASSUME OrderInv, Socket!Read
             PROVE  OrderInv'
  OBVIOUS
<1> USE DEF OrderInv
<1>1. CASE stream # <<>> /\ buf' = stream /\ nbytes' = TRUE
  <2>1. MessagesTyped' /\ StreamInOrder'
    BY <1>1 DEF Socket!Read, MessagesTyped, StreamInOrder
  <2>2. Head(buf') = msg_cnt - Len(stream) /\ Len(stream') = 0 /\ Len(stream) \in Nat \ {0}
    BY <1>1 DEF Socket!Read, MessagesTyped, StreamInOrder
  <2>3. SeenInOrder'
    BY <1>1, <2>2 DEF Socket!Read, MessagesTyped, SeenInOrder, Pending
  <2>4. OneAhead'
    BY <1>1, <2>2 DEF Socket!Read, MessagesTyped, OneAhead, Pending
  <2> QED
    BY <2>1, <2>3, <2>4
<1>2. CASE stream = <<>> /\ closed /\ buf' = buf /\ nbytes' = FALSE
  BY <1>2 DEF Socket!Read, MessagesTyped, StreamInOrder, SeenInOrder, OneAhead, Pending
<1> QED
  BY <1>1, <1>2 DEF Socket!Read

LEMMA TestKeepsOrder == OrderInv /\ Socket!Test => OrderInv'
<1> SUFFICES ASSUME OrderInv, Socket!Test
             PROVE  OrderInv'
  OBVIOUS
<1> USE DEF OrderInv
<1>1. CASE nbytes
  <2>1. Pending /\ buf # <<>> /\ Head(buf) \in Nat
    BY <1>1 DEF Socket!Test, Pending, MessagesTyped, SeenInOrder
  <2>2. /\ seen' = Append(seen, Head(buf)) /\ parent' # "test"
        /\ UNCHANGED <<timely, msg_cnt, child, stream, buf, nbytes>>
    BY <1>1 DEF Socket!Test
  <2>3. /\ seen' \in Seq(Nat) /\ Len(seen') = Len(seen) + 1
        /\ \A i \in 1..Len(seen) : seen'[i] = seen[i]
        /\ seen'[Len(seen) + 1] = Head(buf)
    BY <2>1, <2>2 DEF MessagesTyped
  <2>4. MessagesTyped' /\ StreamInOrder'
    BY <2>2, <2>3 DEF MessagesTyped, StreamInOrder
  <2>5. SeenInOrder'
    <3>1. Len(seen) \in Nat /\ ~Pending' /\ msg_cnt' - Len(stream') = msg_cnt - Len(stream)
      BY <2>2 DEF MessagesTyped, Pending
    <3>2. /\ \A i \in 1..Len(seen) : seen[i] \in Nat /\ seen[i] < Head(buf)
          /\ Head(buf) < msg_cnt - Len(stream)
      BY <2>1 DEF MessagesTyped, SeenInOrder
    <3>3. ASSUME NEW i \in 1..Len(seen')
          PROVE  seen'[i] < msg_cnt - Len(stream)
      BY <2>3, <3>1, <3>2, <3>3 DEF SeenInOrder
    <3>4. ASSUME NEW i \in 1..Len(seen'), NEW j \in 1..Len(seen'), i < j
          PROVE  seen'[i] < seen'[j]
      <4>1. i \in 1..Len(seen) /\ seen'[i] = seen[i]
        BY <2>3, <3>1, <3>4
      <4>2. CASE j \in 1..Len(seen)
        BY <2>3, <3>4, <4>1, <4>2 DEF SeenInOrder
      <4>3. CASE j = Len(seen) + 1
        BY <2>3, <3>2, <4>1, <4>3
      <4> QED
        BY <2>3, <3>1, <4>2, <4>3
    <3> QED
      BY <3>1, <3>3, <3>4 DEF SeenInOrder
  <2>6. OneAhead'
    BY <2>1, <2>2, <2>3 DEF MessagesTyped, OneAhead, Pending
  <2> QED
    BY <2>4, <2>5, <2>6
<1>2. CASE ~nbytes
  BY <1>2 DEF Socket!Test, MessagesTyped, StreamInOrder, SeenInOrder, OneAhead, Pending
<1> QED
  BY <1>1, <1>2

\* The other steps move nothing but the two programs.
LEMMA OthersKeepOrder ==
  ASSUME OrderInv,
         Socket!Sleep \/ Socket!Close \/ Socket!Killed \/ Socket!Interrupt \/ UNCHANGED Socket!vars
  PROVE  OrderInv'
<1> USE DEF OrderInv, MessagesTyped, StreamInOrder, SeenInOrder, OneAhead, Pending
<1>1. OrderInv /\ Socket!Sleep => OrderInv'
  BY DEF Socket!Sleep
<1>2. OrderInv /\ Socket!Close => OrderInv'
  BY DEF Socket!Close
<1>3. OrderInv /\ Socket!Killed => OrderInv'
  BY DEF Socket!Killed
<1>4. OrderInv /\ Socket!Interrupt => OrderInv'
  <2> SUFFICES ASSUME OrderInv, Socket!Interrupt
               PROVE  OrderInv'
    OBVIOUS
  <2>1. ~Pending /\ ~Pending' /\ nbytes' = FALSE
    BY DEF Socket!Interrupt
  <2>2. UNCHANGED <<timely, msg_cnt, child, stream, buf, seen>>
    BY DEF Socket!Interrupt
  <2>3. MessagesTyped' /\ StreamInOrder' /\ SeenInOrder'
    BY <2>1, <2>2
  <2>4. OneAhead'
    BY <2>1, <2>2
  <2> QED
    BY <2>3, <2>4
<1>5. OrderInv /\ UNCHANGED Socket!vars => OrderInv'
  BY DEF Socket!vars
<1> QED
  BY <1>1, <1>2, <1>3, <1>4, <1>5

LEMMA OrderStep == OrderInv /\ [Socket!Next]_(Socket!vars) => OrderInv'
  BY WriteKeepsOrder, ReadKeepsOrder, TestKeepsOrder, OthersKeepOrder DEF Socket!Next,
     Socket!Child, Socket!Parent

LEMMA OrderImplies == OrderInv => Socket!InOrder
<1> SUFFICES ASSUME OrderInv
             PROVE  Socket!InOrder
  OBVIOUS
<1> USE DEF OrderInv
<1>1. DOMAIN seen = 1..Len(seen)
  BY DEF MessagesTyped
<1>2. ASSUME timely
      PROVE  seen = [i \in 1..Len(seen) |-> i] /\ msg_cnt - 1 - Len(seen) <= 1
  <2>1. seen = [i \in 1..Len(seen) |-> i]
    BY <1>1, <1>2 DEF MessagesTyped, OneAhead
  <2>2. msg_cnt - 1 - Len(seen) <= 1
    BY <1>2 DEF MessagesTyped, OneAhead
  <2> QED
    BY <2>1, <2>2
<1> QED
  BY <1>1, <1>2 DEF Socket!InOrder, SeenInOrder

LEMMA SocketSteps == [Next]_vars => [Socket!Next]_(Socket!vars)
  BY DEF Next, vars, socketVars, Socket!vars

\* No message is announced twice or after a later one, whatever the parent's delays,
\* the signals and the death of the child; a timely parent announces all of them.
THEOREM AnnouncedInOrder == Spec => []InOrder
<1>1. Init => OrderInv
  BY OrderInit DEF Init
<1>2. OrderInv /\ [Next]_vars => OrderInv'
  BY OrderStep, SocketSteps
<1>3. OrderInv => InOrder
  BY OrderImplies DEF InOrder
<1> QED
  BY <1>1, <1>2, <1>3, PTL DEF Spec

-----------------------------------------------------------------------------
(* The daemon: what it counts *)

Causes == {"none", "fork", "setsid", "chdir", "taken", "open", "dup2", "getpwnam", "notRoot",
           "setegid", "seteuid"}
Pasts == [exit : Causes, stray : BOOLEAN, nested : BOOLEAN, handled : Nat]
Frames == [signal : Signals, at : {"syslog", "locked", "count"}, n : Nat]

\* A handler stores one more than it has loaded, and what it has loaded was at most what
\* had been handled then.  Alone, it has loaded what is still the count.
CountInv ==
  /\ frames \in Seq(Frames) /\ signal_catched \in Nat /\ past \in Pasts
  /\ signal_catched <= past.handled
  /\ \A j \in 1..Len(frames) : frames[j].n <= past.handled
  /\ ~past.nested =>
       /\ signal_catched = past.handled /\ Len(frames) <= 1
       /\ \A j \in 1..Len(frames) : frames[j].at = "count" => frames[j].n = signal_catched

\* What main does is no handler's: it may only note why it gives up.
LEMMA MainFrame ==
  ASSUME Detach!MainStep
  PROVE  /\ UNCHANGED <<conf, frames, pending, signal_catched, sent>>
         /\ past' = past \/ \E why \in Causes : past' = [past EXCEPT !.exit = why]
<1>1. ASSUME NEW why \in Causes, Detach!Exit(why)
      PROVE  /\ UNCHANGED <<conf, frames, pending, signal_catched, sent>>
             /\ past' = [past EXCEPT !.exit = why]
  BY <1>1 DEF Detach!Exit, Detach!signalling
<1>2. ASSUME Detach!Advance
      PROVE  UNCHANGED <<conf, frames, pending, signal_catched, sent, past>>
  BY <1>2 DEF Detach!Advance, Detach!signalling
<1>3. ASSUME Detach!ForkProcess \/ Detach!Setsid \/ Detach!Chdir \/ Detach!OpenNull
               \/ Detach!Dup \/ Detach!LogMessage \/ Detach!GetUser \/ Detach!Chroot \/ Detach!SetIds
      PROVE  Detach!Advance \/ \E why \in Causes : Detach!Exit(why)
  BY <1>3 DEF Detach!ForkProcess, Detach!Setsid, Detach!Chdir, Detach!OpenNull, Detach!Dup,
              Detach!LogMessage, Detach!GetUser, Detach!Chroot, Detach!SetIds, Causes
<1>4. ASSUME Detach!Sigaction \/ Detach!CloseAll
      PROVE  UNCHANGED <<conf, frames, pending, signal_catched, sent, past>>
  BY <1>4 DEF Detach!Sigaction, Detach!CloseAll, Detach!signalling
<1>5. ASSUME Detach!Sleep
      PROVE  UNCHANGED <<conf, frames, pending, signal_catched, sent, past>>
  BY <1>2, <1>5 DEF Detach!Sleep, Detach!signalling
<1> QED
  BY <1>1, <1>2, <1>3, <1>4, <1>5 DEF Detach!MainStep

LEMMA CountInit == Detach!Init => CountInv
<1> SUFFICES ASSUME Detach!Init
             PROVE  CountInv
  OBVIOUS
<1>1. /\ frames = <<>> /\ signal_catched = 0
      /\ past = [exit |-> "none", stray |-> FALSE, nested |-> FALSE, handled |-> 0]
  BY DEF Detach!Init
<1>2. frames \in Seq(Frames) /\ Len(frames) = 0
  BY <1>1, EmptySeq
<1>3. past \in Pasts /\ past.handled = 0
  BY <1>1 DEF Pasts, Causes
<1> QED
  BY <1>1, <1>2, <1>3 DEF CountInv

LEMMA CountMain == ASSUME CountInv, Detach!MainStep PROVE CountInv'
<1>1. frames' = frames /\ signal_catched' = signal_catched
  BY MainFrame
<1>2. past' \in Pasts /\ past'.handled = past.handled /\ past'.nested = past.nested
  BY MainFrame DEF CountInv, Pasts
<1> QED
  BY <1>1, <1>2 DEF CountInv

\* A handler begins.
LEMMA CountEnters ==
  ASSUME CountInv, NEW s \in Signals, Detach!Entered(s),
         past' = [past EXCEPT !.nested = @ \/ frames # <<>>],
         signal_catched' = signal_catched
  PROVE  CountInv'
<1>1. PICK w \in {"syslog", "locked"} : frames' = Append(frames, [signal |-> s, at |-> w, n |-> 0])
  BY DEF Detach!Entered
<1> DEFINE h == [signal |-> s, at |-> w, n |-> 0]
<1>2. h \in Frames /\ h.n = 0 /\ h.at # "count"
  BY DEF Frames
<1>3. /\ past' \in Pasts /\ past'.handled = past.handled /\ past.handled \in Nat
      /\ past'.nested = (past.nested \/ frames # <<>>)
  BY DEF CountInv, Pasts
<1> HIDE DEF h
<1>4. /\ frames' \in Seq(Frames) /\ Len(frames') = Len(frames) + 1 /\ Len(frames) \in Nat
      /\ frames'[Len(frames) + 1] = h
      /\ \A j \in 1..Len(frames) : frames'[j] = frames[j]
  BY <1>1, <1>2 DEF CountInv, h
<1>5. \A j \in 1..Len(frames') : frames'[j].n <= past'.handled
  BY <1>2, <1>3, <1>4 DEF CountInv
<1>6. ASSUME ~past'.nested
      PROVE  /\ signal_catched' = past'.handled /\ Len(frames') <= 1
             /\ \A j \in 1..Len(frames') : frames'[j].at = "count" => frames'[j].n = signal_catched'
  <2>1. ~past.nested /\ frames = <<>>
    BY <1>3, <1>6
  <2>2. Len(frames) = 0
    BY <2>1, EmptySeq
  <2>3. signal_catched' = past'.handled
    BY <1>3, <2>1 DEF CountInv
  <2> QED
    BY <1>2, <1>4, <2>2, <2>3
<1> QED
  BY <1>3, <1>4, <1>5, <1>6 DEF CountInv

LEMMA CountSignal == ASSUME CountInv, NEW s \in Signals, Detach!Signal(s) PROVE CountInv'
<1>1. signal_catched' = signal_catched
  BY DEF Detach!Signal
<1>2. CASE frames' = frames /\ past' = past
  BY <1>1, <1>2 DEF CountInv
<1>3. CASE frames' = <<>> /\ past' = past
  <2>1. frames' \in Seq(Frames) /\ Len(frames') = 0
    BY <1>3, EmptySeq
  <2> QED
    BY <1>1, <1>3, <2>1 DEF CountInv
<1>4. CASE Detach!Entered(s) /\ past' = [past EXCEPT !.nested = @ \/ frames # <<>>]
  BY <1>1, <1>4, CountEnters
<1> QED
  BY <1>2, <1>3, <1>4 DEF Detach!Signal

\* The innermost handler goes on.
LEMMA CountLogs == ASSUME CountInv, Detach!HandlerLogs PROVE CountInv'
<1> DEFINE m == Len(frames)
           h == [frames[m] EXCEPT !.at = "count", !.n = signal_catched]
<1>1. m \in 1..Len(frames) /\ frames[m] \in Frames
  <2>1. frames # <<>> /\ frames \in Seq(Frames)
    BY DEF Detach!HandlerLogs, CountInv
  <2>2. Len(frames) \in Nat /\ Len(frames) # 0
    BY <2>1, EmptySeq
  <2> QED
    BY <2>1, <2>2
<1>2. h \in Frames /\ h.n = signal_catched /\ h.at = "count"
  BY <1>1 DEF Frames, CountInv
<1>3. frames' = [frames EXCEPT ![m] = h] /\ signal_catched' = signal_catched
  BY <1>1 DEF Detach!HandlerLogs, CountInv, Frames
<1>4. past' \in Pasts /\ past'.handled = past.handled /\ past'.nested = past.nested
  BY DEF Detach!HandlerLogs, CountInv, Pasts
<1> HIDE DEF h, m
<1>5. /\ frames' \in Seq(Frames) /\ Len(frames') = Len(frames) /\ frames'[m] = h
      /\ \A j \in 1..Len(frames) : j # m => frames'[j] = frames[j]
  BY <1>1, <1>2, <1>3 DEF CountInv
<1> QED
  BY <1>1, <1>2, <1>3, <1>4, <1>5 DEF CountInv, m

LEMMA CountCounts == ASSUME CountInv, Detach!HandlerCounts PROVE CountInv'
<1> DEFINE m == Len(frames)
           h == [signal |-> frames[m].signal, at |-> "syslog", n |-> 0]
<1>1. m \in Nat /\ m \in 1..Len(frames) /\ frames[m] \in Frames
  <2>1. frames # <<>> /\ frames \in Seq(Frames)
    BY DEF Detach!HandlerCounts, CountInv
  <2>2. Len(frames) \in Nat /\ Len(frames) # 0
    BY <2>1, EmptySeq
  <2> QED
    BY <2>1, <2>2
<1>2. h \in Frames /\ h.n = 0 /\ h.at # "count"
  BY <1>1 DEF Frames
<1>3. frames[m].at = "count" /\ signal_catched' = frames[m].n + 1 /\ frames[m].n \in Nat
  BY <1>1 DEF Detach!HandlerCounts, Detach!Top, Frames
<1>4. frames' = [frames EXCEPT ![m] = h] \/ frames' = SubSeq(frames, 1, m - 1)
  BY DEF Detach!HandlerCounts, Detach!Top
<1>5. /\ past' \in Pasts /\ past'.handled = past.handled + 1 /\ past'.nested = past.nested
      /\ past.handled \in Nat
  BY DEF Detach!HandlerCounts, CountInv, Pasts
<1> HIDE DEF h, m
<1>6. /\ frames' \in Seq(Frames) /\ Len(frames') \in Nat /\ Len(frames') <= m
      /\ \A j \in 1..Len(frames') : j < m => frames'[j] = frames[j]
      /\ \A j \in 1..Len(frames') : j = m => frames'[j] = h
  <2>1. CASE frames' = [frames EXCEPT ![m] = h]
    BY <1>1, <1>2, <2>1 DEF CountInv, m
  <2>2. CASE frames' = SubSeq(frames, 1, m - 1)
    <3>1. frames \in Seq(Frames) /\ m - 1 \in Nat /\ m - 1 <= Len(frames)
      BY <1>1 DEF CountInv
    <3> DEFINE r == m - 1
    <3>3. r \in Nat /\ r <= Len(frames) /\ r < m
      BY <1>1, <3>1
    <3>4. frames' = SubSeq(frames, 1, r)
      BY <2>2
    <3> HIDE DEF r
    <3>5. Len(frames') = r /\ \A j \in 1..r : frames'[j] = frames[j]
      BY <3>1, <3>3, <3>4
    <3>6. \A j \in 1..r : frames'[j] \in Frames
      BY <3>1, <3>3, <3>5
    <3>7. frames' \in Seq(Frames)
      BY <3>3, <3>4, <3>5, <3>6
    <3> QED
      BY <1>1, <3>3, <3>5, <3>7
  <2> QED
    BY <1>4, <2>1, <2>2
<1>7. signal_catched' \in Nat /\ signal_catched' <= past'.handled
  BY <1>1, <1>3, <1>5 DEF CountInv
<1>8. \A j \in 1..Len(frames') : frames'[j].n <= past'.handled
  <2> TAKE j \in 1..Len(frames')
  <2>1. CASE j < m
    <3>1. frames'[j] = frames[j] /\ j \in 1..Len(frames)
      BY <1>1, <1>6, <2>1
    <3>2. frames[j].n <= past.handled /\ frames[j] \in Frames
      BY <3>1 DEF CountInv
    <3>3. frames[j].n \in Nat
      BY <3>2 DEF Frames
    <3> QED
      BY <1>5, <3>1, <3>2, <3>3
  <2>2. CASE j = m
    BY <1>2, <1>5, <1>6, <2>2
  <2> QED
    BY <1>1, <1>6, <2>1, <2>2
<1>9. ASSUME ~past'.nested
      PROVE  /\ signal_catched' = past'.handled /\ Len(frames') <= 1
             /\ \A j \in 1..Len(frames') : frames'[j].at = "count" => frames'[j].n = signal_catched'
  <2>1. signal_catched = past.handled /\ Len(frames) <= 1 /\ frames[m].n = signal_catched
    BY <1>1, <1>3, <1>5, <1>9 DEF CountInv
  <2>2. m = 1
    BY <1>1, <2>1
  <2>3. \A j \in 1..Len(frames') : frames'[j] = h
    BY <1>6, <2>2
  <2> QED
    BY <1>2, <1>3, <1>5, <1>6, <2>1, <2>2, <2>3
<1> QED
  BY <1>5, <1>6, <1>7, <1>8, <1>9 DEF CountInv

LEMMA CountStep == CountInv /\ [Detach!Next]_(Detach!dvars) => CountInv'
<1> SUFFICES ASSUME CountInv, [Detach!Next]_(Detach!dvars)
             PROVE  CountInv'
  OBVIOUS
<1>1. CASE UNCHANGED Detach!dvars
  BY <1>1 DEF Detach!dvars, Detach!signalling, CountInv
<1> QED
  BY <1>1, CountMain, CountSignal, CountLogs, CountCounts DEF Detach!Next, Detach!Handler

LEMMA DetachSteps == [Next]_vars => [Detach!Next]_(Detach!dvars)
  BY DEF Next, vars, daemonVars, Detach!dvars, Detach!setup, Detach!signalling

\* Of any number of signals, whatever they interrupt, none is counted twice by
\* catch_signal, and all are counted unless a handler was itself interrupted
\* (01_environment/daemon/daemon.c:44-50).
THEOREM CountsExactly == Spec => []CountExact
<1>1. Init => CountInv
  BY CountInit DEF Init
<1>2. CountInv /\ [Next]_vars => CountInv'
  BY CountStep, DetachSteps
<1>3. CountInv => CountExact
  BY DEF CountInv, CountExact, Detach!CountExact
<1> QED
  BY <1>1, <1>2, <1>3, PTL DEF Spec

-----------------------------------------------------------------------------
(* The daemon: its place *)

Body == {"sigaction", "chdir", "close", "stdin", "dup", "openlog", "user", "chroot", "setegid",
         "seteuid", "sleep", "lastlog"}
Rooted == {"setegid", "seteuid", "sleep", "lastlog"}
Whole == {"fork1", "setsid", "fork2", "sigaction", "chdir", "close", "stdin", "dup", "openlog",
          "user", "chroot", "setegid"}

Selves == [who : {"groupLeader", "member", "sessionLeader"}, terminal : BOOLEAN,
           dir : {"anywhere", "top", "newRoot"}, ids : Seq({"group", "user"})]

\* What the steps before have done, as far as a later one needs it to succeed.
PlaceInv ==
  /\ conf \in [daemon : BOOLEAN, root : BOOLEAN] /\ self \in Selves /\ past \in Pasts
  /\ step \in DOMAIN Detach!Following \union Detach!Ends
  /\ step = "setsid" => self.who = "member"
  /\ step = "fork2" => ~self.terminal
  /\ step \in Body /\ conf.daemon => self.who = "member" /\ ~self.terminal
  /\ step \in Rooted => self.dir = "newRoot" /\ conf.root
  /\ step \in Whole => self.ids = <<>>
  /\ step = "seteuid" => self.ids = <<"group">>
  /\ step \in {"sleep", "lastlog"} => self.ids = <<"group", "user">>
  /\ past.exit \notin {"setsid", "setegid", "seteuid"}

\* The ids that are given up one after the other.
LEMMA IdsDiffer ==
  /\ <<>> # <<"user">> /\ <<"group">> # <<"user">>
  /\ Append(<<>>, "group") = <<"group">> /\ Append(<<"group">>, "user") = <<"group", "user">>
  /\ <<>> \in Seq({"group", "user"}) /\ <<"group">> \in Seq({"group", "user"})
  /\ <<"group", "user">> \in Seq({"group", "user"})
<1>1. <<>> \in Seq({"group", "user"}) /\ Len(<<>>) = 0
  BY EmptySeq
<1>2. Len(<<"user">>) = 1 /\ <<"group">>[1] = "group" /\ <<"user">>[1] = "user"
  OBVIOUS
<1>3. <<>> # <<"user">>
  BY <1>1, <1>2
<1>4. <<"group">> # <<"user">>
  BY <1>2
<1>5. Append(<<>>, "group") = <<"group">>
  OBVIOUS
<1>6. Append(<<"group">>, "user") = <<"group", "user">>
  <2> DEFINE one == <<"group">>
             two == Append(one, "user")
             both == <<"group", "user">>
  <2>1. one \in Seq({"group", "user"}) /\ Len(one) = 1 /\ one[1] = "group"
    OBVIOUS
  <2>2. both \in Seq({"group", "user"}) /\ Len(both) = 2 /\ both[1] = "group" /\ both[2] = "user"
    OBVIOUS
  <2> HIDE DEF one, both
  <2>3. two \in Seq({"group", "user"}) /\ Len(two) = 2 /\ two[1] = "group" /\ two[2] = "user"
    <3> DEFINE L == {"group", "user"}
    <3>1. "user" \in L /\ one \in Seq(L)
      BY <2>1
    <3> HIDE DEF L
    <3>2. /\ two \in Seq(L) /\ Len(two) = Len(one) + 1 /\ two[Len(one) + 1] = "user"
          /\ \A j \in 1..Len(one) : two[j] = one[j]
      BY <3>1, AppendProperties
    <3> HIDE DEF two
    <3>3. Len(two) = 2 /\ two[1] = "group" /\ two[2] = "user"
      BY <2>1, <3>2
    <3> QED
      BY <3>2, <3>3 DEF L
  <2> HIDE DEF two
  <2>4. \A j \in 1..Len(two) : two[j] = both[j]
    BY <2>2, <2>3
  <2>5. two = both
    BY <2>2, <2>3, <2>4, SeqEqual
  <2> QED
    BY <2>5 DEF one, two, both
<1>7. <<"group">> \in Seq({"group", "user"}) /\ <<"group", "user">> \in Seq({"group", "user"})
  OBVIOUS
<1> QED
  BY <1>1, <1>3, <1>4, <1>5, <1>6, <1>7

\* Where each step leads.
LEMMA Follows ==
  /\ DOMAIN Detach!Following = {"fork1", "setsid", "fork2"} \union Body
  /\ Detach!Following["fork1"] = "setsid" /\ Detach!Following["setsid"] = "fork2"
  /\ Detach!Following["fork2"] = "sigaction" /\ Detach!Following["sigaction"] = "chdir"
  /\ Detach!Following["chdir"] = "close" /\ Detach!Following["close"] = "stdin"
  /\ Detach!Following["stdin"] = "dup" /\ Detach!Following["dup"] = "openlog"
  /\ Detach!Following["openlog"] = "user" /\ Detach!Following["user"] = "chroot"
  /\ Detach!Following["chroot"] = "setegid" /\ Detach!Following["setegid"] = "seteuid"
  /\ Detach!Following["seteuid"] = "sleep" /\ Detach!Following["sleep"] = "lastlog"
  /\ Detach!Following["lastlog"] = "ended"
BY DEF Detach!Following, Body

LEMMA PlaceInit == Detach!Init => PlaceInv
<1> SUFFICES ASSUME Detach!Init
             PROVE  PlaceInv
  OBVIOUS
<1>1. /\ conf \in [daemon : BOOLEAN, root : BOOLEAN]
      /\ step \in {"fork1", "sigaction"} /\ (conf.daemon => step = "fork1")
      /\ self = [who |-> "groupLeader", terminal |-> TRUE, dir |-> "anywhere", ids |-> <<>>]
      /\ past = [exit |-> "none", stray |-> FALSE, nested |-> FALSE, handled |-> 0]
  BY DEF Detach!Init
<1>2. self \in Selves /\ self.ids = <<>>
  BY <1>1, IdsDiffer DEF Selves
<1>3. past \in Pasts /\ past.exit = "none"
  BY <1>1 DEF Pasts, Causes
<1> QED
  BY <1>1, <1>2, <1>3, Follows DEF PlaceInv, Body, Rooted

\* A step that does not touch the process itself, of main or of nobody.
LEMMA PlaceStays ==
  ASSUME PlaceInv, conf' = conf, self' = self, past' \in Pasts, past'.exit = past.exit,
         \/ step' = step
         \/ step' = "killed"
         \/ step' = Detach!Following[step]
              /\ step \in {"sigaction", "chdir", "close", "stdin", "dup", "openlog", "user",
                           "sleep", "lastlog"}
  PROVE  PlaceInv'
BY Follows DEF PlaceInv, Body, Rooted, Whole, Detach!Ends

\* Who gives up, gives up for a cause.
LEMMA PlaceExit ==
  ASSUME PlaceInv, NEW why \in Causes \ {"setsid", "setegid", "seteuid"}, Detach!Exit(why)
  PROVE  PlaceInv'
<1>1. past' \in Pasts /\ past'.exit = why /\ step' = "exited" /\ conf' = conf /\ self' = self
  BY DEF PlaceInv, Pasts, Detach!Exit, Detach!setup
<1> QED
  BY <1>1 DEF PlaceInv, Body, Rooted, Whole, Detach!Ends

\* A step that changes the process itself.
LEMMA PlaceMoves ==
  ASSUME PlaceInv, Detach!Advance, NEW new \in Selves, self' = new,
         \/ step \in {"fork1", "fork2"} /\ new = [self EXCEPT !.who = "member"]
         \/ step = "setsid" /\ new = [self EXCEPT !.who = "sessionLeader", !.terminal = FALSE]
         \/ step = "chdir" /\ new = [self EXCEPT !.dir = "top"]
         \/ step = "chroot" /\ conf.root /\ new = [self EXCEPT !.dir = "newRoot"]
         \/ step = "setegid" /\ new = [self EXCEPT !.ids = <<"group">>]
         \/ step = "seteuid" /\ new = [self EXCEPT !.ids = <<"group", "user">>]
  PROVE  PlaceInv'
<1>1. conf' = conf /\ past' = past /\ step' = Detach!Following[step]
  BY DEF Detach!Advance
<1>2. CASE step \in {"fork1", "fork2"} /\ new = [self EXCEPT !.who = "member"]
  <2>1. new.who = "member" /\ new.terminal = self.terminal /\ new.ids = self.ids
    BY <1>2 DEF PlaceInv, Selves
  <2> QED
    BY <1>1, <1>2, <2>1, Follows DEF PlaceInv, Body, Rooted, Whole, Detach!Ends
<1>3. CASE step = "setsid" /\ new = [self EXCEPT !.who = "sessionLeader", !.terminal = FALSE]
  <2>1. new.terminal = FALSE /\ new.ids = self.ids
    BY <1>3 DEF PlaceInv, Selves
  <2> QED
    BY <1>1, <1>3, <2>1, Follows DEF PlaceInv, Body, Rooted, Whole, Detach!Ends
<1>4. CASE \/ step = "chdir" /\ new = [self EXCEPT !.dir = "top"]
           \/ step = "chroot" /\ conf.root /\ new = [self EXCEPT !.dir = "newRoot"]
  <2>1. /\ new.who = self.who /\ new.terminal = self.terminal /\ new.ids = self.ids
        /\ step = "chroot" => new.dir = "newRoot" /\ conf.root
    BY <1>4 DEF PlaceInv, Selves
  <2> QED
    BY <1>1, <1>4, <2>1, Follows DEF PlaceInv, Body, Rooted, Whole, Detach!Ends
<1>5. CASE \/ step = "setegid" /\ new = [self EXCEPT !.ids = <<"group">>]
           \/ step = "seteuid" /\ new = [self EXCEPT !.ids = <<"group", "user">>]
  <2>1. /\ new.who = self.who /\ new.terminal = self.terminal /\ new.dir = self.dir
        /\ step = "setegid" => new.ids = <<"group">>
        /\ step = "seteuid" => new.ids = <<"group", "user">>
    BY <1>5 DEF PlaceInv, Selves
  <2> QED
    BY <1>1, <1>5, <2>1, Follows DEF PlaceInv, Body, Rooted, Whole, Detach!Ends
<1> QED
  BY <1>2, <1>3, <1>4, <1>5

LEMMA PlaceMain == ASSUME PlaceInv, Detach!MainStep PROVE PlaceInv'
<1>1. CASE Detach!ForkProcess
  <2>1. Detach!Exit("fork") => PlaceInv'
    BY PlaceExit DEF Causes
  <2>2. [self EXCEPT !.who = "member"] \in Selves
    BY DEF PlaceInv, Selves
  <2> QED
    BY <1>1, <2>1, <2>2, PlaceMoves DEF Detach!ForkProcess, Detach!At
<1>2. CASE Detach!Setsid
  <2>1. [self EXCEPT !.who = "sessionLeader", !.terminal = FALSE] \in Selves
    BY DEF PlaceInv, Selves
  <2>2. self.who = "member" /\ step = "setsid"
    BY <1>2 DEF PlaceInv, Detach!Setsid, Detach!At
  <2> QED
    BY <1>2, <2>1, <2>2, PlaceMoves DEF Detach!Setsid
<1>3. CASE Detach!Sigaction \/ Detach!CloseAll \/ Detach!LogMessage \/ Detach!Sleep
  <2>1. conf' = conf /\ past' = past /\ self' = self
    BY <1>3 DEF Detach!Sigaction, Detach!CloseAll, Detach!LogMessage, Detach!Sleep, Detach!Advance,
                Detach!setup
  <2>2. \/ step' = step
        \/ step' = Detach!Following[step] /\ step \in {"sigaction", "close", "openlog", "sleep", "lastlog"}
    BY <1>3 DEF Detach!Sigaction, Detach!CloseAll, Detach!LogMessage, Detach!Sleep, Detach!Advance,
                Detach!At
  <2> QED
    BY <2>1, <2>2, PlaceStays DEF PlaceInv
<1>4. CASE Detach!Chdir
  <2>1. Detach!Exit("chdir") => PlaceInv'
    BY PlaceExit DEF Causes
  <2>2. [self EXCEPT !.dir = "top"] \in Selves
    BY DEF PlaceInv, Selves
  <2> QED
    BY <1>4, <2>1, <2>2, PlaceMoves DEF Detach!Chdir, Detach!At
<1>5. CASE Detach!OpenNull \/ Detach!Dup \/ Detach!GetUser
  <2>1. \A why \in {"taken", "open", "dup2", "getpwnam"} : Detach!Exit(why) => PlaceInv'
    BY PlaceExit DEF Causes
  <2>2. ASSUME Detach!Advance, self' = self, step \in {"stdin", "dup", "user"}
        PROVE  PlaceInv'
    BY <2>2, PlaceStays DEF PlaceInv, Detach!Advance
  <2> QED
    BY <1>5, <2>1, <2>2 DEF Detach!OpenNull, Detach!Dup, Detach!GetUser, Detach!At, Detach!setup
<1>6. CASE Detach!Chroot
  <2>1. Detach!Exit("notRoot") => PlaceInv'
    BY PlaceExit DEF Causes
  <2>2. [self EXCEPT !.dir = "newRoot"] \in Selves
    BY DEF PlaceInv, Selves
  <2> QED
    BY <1>6, <2>1, <2>2, PlaceMoves DEF Detach!Chroot, Detach!At
<1>7. CASE Detach!SetIds
  <2>1. PICK s \in {<<"setegid", "group">>, <<"seteuid", "user">>} :
          /\ step = s[1]
          /\ IF conf.root /\ self.ids # <<"user">>
               THEN Detach!Advance /\ self' = [self EXCEPT !.ids = Append(@, s[2])]
               ELSE Detach!Exit(s[1])
    BY <1>7 DEF Detach!SetIds, Detach!At
  <2>2. CASE s = <<"setegid", "group">>
    <3>1. s[1] = "setegid" /\ s[2] = "group"
      BY <2>2
    <3>2. step = "setegid" /\ conf.root /\ self.ids = <<>>
      BY <2>1, <3>1 DEF PlaceInv, Rooted, Whole
    <3>3. Detach!Advance /\ self' = [self EXCEPT !.ids = <<"group">>]
      BY <2>1, <3>1, <3>2, IdsDiffer
    <3>4. [self EXCEPT !.ids = <<"group">>] \in Selves
      BY IdsDiffer DEF PlaceInv, Selves
    <3> QED
      BY <3>2, <3>3, <3>4, PlaceMoves
  <2>3. CASE s = <<"seteuid", "user">>
    <3>1. s[1] = "seteuid" /\ s[2] = "user"
      BY <2>3
    <3>2. step = "seteuid" /\ conf.root /\ self.ids = <<"group">>
      BY <2>1, <3>1 DEF PlaceInv, Rooted, Whole
    <3>3. Detach!Advance /\ self' = [self EXCEPT !.ids = <<"group", "user">>]
      BY <2>1, <3>1, <3>2, IdsDiffer
    <3>4. [self EXCEPT !.ids = <<"group", "user">>] \in Selves
      BY IdsDiffer DEF PlaceInv, Selves
    <3> QED
      BY <3>2, <3>3, <3>4, PlaceMoves
  <2> QED
    BY <2>1, <2>2, <2>3
<1> QED
  BY <1>1, <1>2, <1>3, <1>4, <1>5, <1>6, <1>7 DEF Detach!MainStep

LEMMA PlaceStep == PlaceInv /\ [Detach!Next]_(Detach!dvars) => PlaceInv'
<1> SUFFICES ASSUME PlaceInv, [Detach!Next]_(Detach!dvars)
             PROVE  PlaceInv'
  OBVIOUS
<1>1. ASSUME NEW s \in Signals, Detach!Signal(s)
      PROVE  PlaceInv'
  <2>1. conf' = conf /\ self' = self /\ (step' = step \/ step' = "killed")
    BY <1>1 DEF Detach!Signal
  <2>2. past' = past \/ past' = [past EXCEPT !.nested = @ \/ frames # <<>>]
    BY <1>1 DEF Detach!Signal
  <2>3. past' \in Pasts /\ past'.exit = past.exit
    BY <2>2 DEF PlaceInv, Pasts
  <2> QED
    BY <2>1, <2>3, PlaceStays
<1>2. CASE Detach!Handler
  <2>1. conf' = conf /\ self' = self /\ step' = step
    BY <1>2 DEF Detach!Handler, Detach!HandlerLogs, Detach!HandlerCounts, Detach!setup
  <2>2. \/ past' = [past EXCEPT !.stray = @ \/ (log' # log /\ log' \in 0..2)]
        \/ past' = [past EXCEPT !.handled = @ + 1]
    BY <1>2 DEF Detach!Handler, Detach!HandlerLogs, Detach!HandlerCounts
  <2>3. CASE past' = [past EXCEPT !.stray = @ \/ (log' # log /\ log' \in 0..2)]
    <3>1. past' \in Pasts /\ past'.exit = past.exit
      BY <2>3 DEF PlaceInv, Pasts
    <3> QED
      BY <2>1, <3>1, PlaceStays
  <2>4. CASE past' = [past EXCEPT !.handled = @ + 1]
    <3>1. past' \in Pasts /\ past'.exit = past.exit
      BY <2>4 DEF PlaceInv, Pasts
    <3> QED
      BY <2>1, <3>1, PlaceStays
  <2> QED
    BY <2>2, <2>3, <2>4
<1>3. CASE UNCHANGED Detach!dvars
  BY <1>3, PlaceStays DEF Detach!dvars, Detach!setup, PlaceInv
<1> QED
  BY <1>1, <1>2, <1>3, PlaceMain DEF Detach!Next

-----------------------------------------------------------------------------
(* The daemon: its descriptors *)

Late == {"openlog", "user", "chroot", "setegid", "seteuid", "sleep", "lastlog"}

Early == {"fork1", "setsid", "fork2", "sigaction", "chdir"}

Contents == {"tty", "closed", "null", "log"}

\* Unless syslog has taken a standard descriptor: those below 3 are closed by the loop
\* and then opened again; those above belong to syslog in any case.
Plugged ==
  /\ log \notin 0..2
  /\ step = "close" => \A j \in 0..2 : j > next => fd[j] = "closed"
  /\ step = "stdin" => \A j \in 0..2 : fd[j] = "closed"
  /\ step = "dup" => fd[0] = "null"
  /\ step \in Late => \A j \in 0..2 : fd[j] = "null"

Held ==
  /\ fd \in [0..MaxFd -> Contents] /\ log \in -1..MaxFd /\ next \in 0..MaxFd
  /\ \A j \in 3..MaxFd : fd[j] # "closed" => j = log

PlugInv ==
  /\ Held /\ past \in Pasts
  /\ step \in Early => next = MaxFd
  /\ past.exit = "taken" => past.stray
  /\ ~past.stray => Plugged

LEMMA PlugInit == Detach!DaemonAssumption /\ Detach!Init => PlugInv
<1> SUFFICES ASSUME Detach!DaemonAssumption, Detach!Init
             PROVE  PlugInv
  OBVIOUS
<1>1. /\ MaxFd \in Nat /\ MaxFd >= 3 /\ log = -1 /\ next = MaxFd
      /\ fd = [j \in 0..MaxFd |-> IF j <= 2 THEN "tty" ELSE "closed"]
      /\ past = [exit |-> "none", stray |-> FALSE, nested |-> FALSE, handled |-> 0]
      /\ step \in {"fork1", "sigaction"}
  BY DEF Detach!DaemonAssumption, Detach!Init, Detach!Fds, Detach!None
<1>2. fd \in [0..MaxFd -> Contents]
  BY <1>1 DEF Contents
<1>3. past \in Pasts /\ past.exit = "none"
  BY <1>1 DEF Pasts, Causes
<1>4. Held
  BY <1>1, <1>2 DEF Held
<1>5. Plugged
  BY <1>1 DEF Plugged, Late
<1> QED
  BY <1>1, <1>3, <1>4, <1>5 DEF PlugInv

\* What syslog does to the descriptors: of those below 3 it changes the one it believes
\* to have and the one it takes.
LEMMA ConnectKeeps ==
  ASSUME Detach!DaemonAssumption, Held, next' = next, Detach!Connect
  PROVE  /\ Held'
         /\ log \notin 0..2 /\ log' \notin 0..2 => \A j \in 0..2 : fd'[j] = fd[j]
         /\ log' # log => log' = -1 \/ (log' \in 0..MaxFd /\ fd[log'] = "closed")
<1> DEFINE d == IF log = -1 THEN fd ELSE [fd EXCEPT ![log] = "closed"]
<1>1. MaxFd \in Nat /\ MaxFd >= 3
  BY DEF Detach!DaemonAssumption
<1>2. CASE UNCHANGED <<fd, log>>
  BY <1>2 DEF Held
<1>3. /\ d \in [0..MaxFd -> Contents]
      /\ \A j \in 0..MaxFd : j # log => d[j] = fd[j]
      /\ \A j \in 3..MaxFd : d[j] = "closed"
  <2>1. CASE log = -1
    BY <1>1, <2>1 DEF Held
  <2>2. CASE log \in 0..MaxFd
    BY <1>1, <2>2 DEF Held, Contents
  <2> QED
    BY <2>1, <2>2 DEF Held
<1>4. \/ UNCHANGED <<fd, log>>
      \/ \E i \in 0..MaxFd : Detach!IsLowest(d, i) /\ fd' = [d EXCEPT ![i] = "log"] /\ log' = i
      \/ ~(\E i \in 0..MaxFd : d[i] = "closed")
  BY DEF Detach!Connect, Detach!None, Detach!Fds
<1> HIDE DEF d
<1>5. 3 \in 0..MaxFd /\ 3 \in 3..MaxFd
  BY <1>1
<1>6. ASSUME NEW i \in 0..MaxFd, d[i] = "closed", fd' = [d EXCEPT ![i] = "log"], log' = i
      PROVE  /\ Held'
             /\ log \notin 0..2 /\ log' \notin 0..2 => \A j \in 0..2 : fd'[j] = fd[j]
             /\ log' # log => log' = -1 \/ (log' \in 0..MaxFd /\ fd[log'] = "closed")
  <2>1. fd' \in [0..MaxFd -> Contents] /\ log' \in -1..MaxFd /\ next' \in 0..MaxFd
    BY <1>1, <1>3, <1>6 DEF Held, Contents
  <2>2. \A j \in 3..MaxFd : fd'[j] # "closed" => j = log'
    BY <1>1, <1>3, <1>6
  <2>3. log \notin 0..2 /\ log' \notin 0..2 => \A j \in 0..2 : fd'[j] = fd[j]
    BY <1>1, <1>3, <1>6
  <2>4. log' # log => log' \in 0..MaxFd /\ fd[log'] = "closed"
    BY <1>3, <1>6
  <2> QED
    BY <2>1, <2>2, <2>3, <2>4 DEF Held
<1>7. \E i \in 0..MaxFd : d[i] = "closed"
  BY <1>3, <1>5
<1> QED
  BY <1>2, <1>4, <1>6, <1>7 DEF Detach!IsLowest

\* A step that leaves the descriptors as they are.
LEMMA PlugStays ==
  ASSUME PlugInv, UNCHANGED <<fd, log, next>>, past' \in Pasts,
         past'.exit = "taken" => past.exit = "taken" \/ past.stray,
         past'.stray = past.stray,
         \/ step' = step
         \/ step' \in {"killed", "exited", "ended"}
         \/ step \in Early /\ step' \in Early
         \/ step \in Late /\ step' \in Late
  PROVE  PlugInv'
<1>1. Held'
  BY DEF PlugInv, Held
<1>2. Plugged => Plugged'
  BY DEF Plugged, Late, Early
<1>3. step' \in Early => next' = MaxFd
  BY DEF PlugInv, Late, Early
<1> QED
  BY <1>1, <1>2, <1>3 DEF PlugInv

\* From one step to the next.
LEMMA PlugAdvances ==
  ASSUME PlugInv, Detach!Advance, UNCHANGED <<fd, log, next>>,
         step \in {"fork1", "setsid", "fork2", "user", "chroot", "setegid", "seteuid", "sleep"}
  PROVE  PlugInv'
<1>1. past' = past /\ step' = Detach!Following[step]
  BY DEF Detach!Advance
<1>2. \/ step \in Early /\ step' \in Early
      \/ step \in Late /\ step' \in Late
  BY <1>1, Follows DEF Late, Early
<1> QED
  BY <1>1, <1>2, PlugStays DEF PlugInv

LEMMA PlugExit ==
  ASSUME PlugInv, NEW why \in Causes, Detach!Exit(why), why = "taken" => past.stray
  PROVE  PlugInv'
<1>1. /\ past' \in Pasts /\ past'.exit = why /\ past'.stray = past.stray
      /\ step' = "exited" /\ UNCHANGED <<fd, log, next>>
  BY DEF PlugInv, Pasts, Detach!Exit, Detach!setup
<1> QED
  BY <1>1, PlugStays

\* The loop of step 7 begins at the highest descriptor.
LEMMA PlugChdir ==
  ASSUME Detach!DaemonAssumption, PlugInv, step = "chdir", Detach!Advance,
         UNCHANGED <<fd, log, next>>
  PROVE  PlugInv'
<1>1. MaxFd \in Nat /\ MaxFd >= 3 /\ next = MaxFd
  BY DEF Detach!DaemonAssumption, PlugInv, Early
<1>2. Held' /\ past' = past /\ step' = "close" /\ past' \in Pasts
  BY Follows DEF PlugInv, Held, Detach!Advance
<1>3. Plugged => Plugged'
  BY <1>1, <1>2 DEF Plugged, Late
<1> QED
  BY <1>2, <1>3 DEF PlugInv, Early

LEMMA PlugClose == ASSUME Detach!DaemonAssumption, PlugInv, Detach!CloseAll PROVE PlugInv'
<1>1. MaxFd \in Nat /\ MaxFd >= 3
  BY DEF Detach!DaemonAssumption
<1>2. /\ step = "close" /\ fd' = [fd EXCEPT ![next] = "closed"]
      /\ past' = past /\ log' = log
      /\ \/ next > 0 /\ next' = next - 1 /\ step' = "close"
         \/ ~(next > 0) /\ next' = next /\ step' = "stdin"
  BY Follows DEF Detach!CloseAll, Detach!At
<1>3. Held'
  BY <1>1, <1>2 DEF PlugInv, Held, Contents
<1>4. ASSUME Plugged
      PROVE  Plugged'
  <2>1. log' \notin 0..2 /\ step' \notin Late
    BY <1>2, <1>4 DEF Plugged, Late
  <2>2. ASSUME NEW j \in 0..2, j > next'
        PROVE  fd'[j] = "closed"
    BY <1>1, <1>2, <1>4, <2>2 DEF PlugInv, Held, Plugged
  <2>3. ASSUME NEW j \in 0..2, step' = "stdin"
        PROVE  fd'[j] = "closed"
    BY <1>1, <1>2, <1>4, <2>3 DEF PlugInv, Held, Plugged
  <2> QED
    BY <1>2, <2>1, <2>2, <2>3 DEF Plugged
<1> QED
  BY <1>2, <1>3, <1>4 DEF PlugInv, Early

LEMMA PlugOpens ==
  ASSUME Detach!DaemonAssumption, PlugInv, Detach!OpenNull \/ Detach!Dup
  PROVE  PlugInv'
<1>1. MaxFd \in Nat /\ MaxFd >= 3
  BY DEF Detach!DaemonAssumption
<1>2. ASSUME step = "stdin", ~Detach!IsLowest(fd, 0)
      PROVE  past.stray
  <2>1. 0..(0 - 1) = {}
    OBVIOUS
  <2> QED
    BY <1>2, <2>1 DEF PlugInv, Plugged, Detach!IsLowest
<1>3. ASSUME NEW why \in {"taken", "open", "dup2"}, Detach!Exit(why), why = "taken" => past.stray
      PROVE  PlugInv'
  BY <1>3, PlugExit DEF Causes
<1>4. ASSUME step = "stdin", Detach!Advance, fd' = [fd EXCEPT ![0] = "null"], UNCHANGED <<log, next>>
      PROVE  PlugInv'
  <2>1. step' = "dup" /\ past' = past
    BY <1>4, Follows DEF Detach!Advance
  <2>2. Held'
    BY <1>1, <1>4 DEF PlugInv, Held, Contents
  <2>3. Plugged => Plugged'
    BY <1>1, <1>4, <2>1 DEF PlugInv, Held, Plugged, Late
  <2> QED
    BY <2>1, <2>2, <2>3 DEF PlugInv, Early
<1>5. ASSUME step = "dup", Detach!Advance, fd' = [fd EXCEPT ![1] = fd[0], ![2] = fd[0]],
             UNCHANGED <<log, next>>
      PROVE  PlugInv'
  <2>1. step' = "openlog" /\ past' = past
    BY <1>5, Follows DEF Detach!Advance
  <2>2. /\ fd' \in [0..MaxFd -> Contents] /\ fd'[0] = fd[0] /\ fd'[1] = fd[0] /\ fd'[2] = fd[0]
        /\ \A j \in 3..MaxFd : fd'[j] = fd[j]
    BY <1>1, <1>5 DEF PlugInv, Held, Contents
  <2>3. Held'
    BY <1>5, <2>2 DEF PlugInv, Held
  <2>4. ASSUME Plugged
        PROVE  Plugged'
    <3>1. fd[0] = "null" /\ log' \notin 0..2
      BY <1>5, <2>4 DEF Plugged
    <3>2. \A j \in 0..2 : fd'[j] = "null"
      BY <2>2, <3>1
    <3> QED
      BY <2>1, <3>1, <3>2 DEF Plugged
  <2> QED
    BY <2>1, <2>3, <2>4 DEF PlugInv, Early
<1> QED
  BY <1>2, <1>3, <1>4, <1>5 DEF Detach!OpenNull, Detach!Dup, Detach!At

\* syslog of main finds the standard descriptors taken, unless a handler's was there first.
LEMMA PlugLogs == ASSUME Detach!DaemonAssumption, PlugInv, Detach!LogMessage PROVE PlugInv'
<1>1. /\ step \in {"openlog", "lastlog"} /\ Detach!Connect /\ next' = next /\ past' = past
      /\ step' \in {"user", "ended"}
  BY Follows DEF Detach!LogMessage, Detach!At, Detach!Advance
<1>2. /\ Held'
      /\ log \notin 0..2 /\ log' \notin 0..2 => \A j \in 0..2 : fd'[j] = fd[j]
      /\ log' # log => log' = -1 \/ (log' \in 0..MaxFd /\ fd[log'] = "closed")
  BY <1>1, ConnectKeeps DEF PlugInv
<1>3. ASSUME Plugged
      PROVE  Plugged'
  <2>1. log \notin 0..2 /\ \A j \in 0..2 : fd[j] = "null"
    BY <1>1, <1>3 DEF Plugged, Late
  <2>2. log' \notin 0..2
    BY <1>2, <2>1
  <2>3. \A j \in 0..2 : fd'[j] = "null"
    BY <1>2, <2>1, <2>2
  <2> QED
    BY <1>1, <2>2, <2>3 DEF Plugged, Late
<1> QED
  BY <1>1, <1>2, <1>3 DEF PlugInv, Early

LEMMA PlugHandler == ASSUME Detach!DaemonAssumption, PlugInv, Detach!Handler PROVE PlugInv'
<1>1. CASE Detach!HandlerLogs
  <2>1. /\ Detach!Connect /\ next' = next /\ step' = step
        /\ past' = [past EXCEPT !.stray = @ \/ (log' # log /\ log' \in 0..2)]
    BY <1>1 DEF Detach!HandlerLogs
  <2>2. /\ past' \in Pasts /\ past'.exit = past.exit
        /\ past'.stray = (past.stray \/ (log' # log /\ log' \in 0..2))
    BY <2>1 DEF PlugInv, Pasts
  <2>3. /\ Held'
        /\ log \notin 0..2 /\ log' \notin 0..2 => \A j \in 0..2 : fd'[j] = fd[j]
    BY <2>1, ConnectKeeps DEF PlugInv
  <2>4. ASSUME ~past'.stray
        PROVE  Plugged'
    <3>1. Plugged /\ ~(log' # log /\ log' \in 0..2)
      BY <2>2, <2>4 DEF PlugInv
    <3>2. log \notin 0..2 /\ log' \notin 0..2
      BY <3>1 DEF Plugged
    <3>3. fd'[0] = fd[0] /\ \A j \in 0..2 : fd'[j] = fd[j]
      BY <2>3, <3>2
    <3> QED
      BY <2>1, <3>1, <3>2, <3>3 DEF Plugged
  <2> QED
    BY <2>1, <2>2, <2>3, <2>4 DEF PlugInv
<1>2. CASE Detach!HandlerCounts
  <2>1. past' = [past EXCEPT !.handled = @ + 1] /\ step' = step /\ UNCHANGED <<fd, log, next>>
    BY <1>2 DEF Detach!HandlerCounts, Detach!setup
  <2>2. past' \in Pasts /\ past'.exit = past.exit /\ past'.stray = past.stray
    BY <2>1 DEF PlugInv, Pasts
  <2> QED
    BY <2>1, <2>2, PlugStays
<1> QED
  BY <1>1, <1>2 DEF Detach!Handler

LEMMA PlugSignal == ASSUME PlugInv, NEW s \in Signals, Detach!Signal(s) PROVE PlugInv'
<1>1. UNCHANGED <<fd, log, next>> /\ (step' = step \/ step' = "killed")
  BY DEF Detach!Signal
<1>2. past' = past \/ past' = [past EXCEPT !.nested = @ \/ frames # <<>>]
  BY DEF Detach!Signal
<1>3. past' \in Pasts /\ past'.exit = past.exit /\ past'.stray = past.stray
  BY <1>2 DEF PlugInv, Pasts
<1> QED
  BY <1>1, <1>3, PlugStays

LEMMA PlugMain == ASSUME Detach!DaemonAssumption, PlugInv, Detach!MainStep PROVE PlugInv'
<1>1. ASSUME NEW why \in Causes \ {"taken"}, Detach!Exit(why)
      PROVE  PlugInv'
  BY <1>1, PlugExit
<1>2. CASE Detach!ForkProcess \/ Detach!Setsid \/ Detach!GetUser \/ Detach!Chroot \/ Detach!SetIds
  <2>1. \/ \E why \in Causes \ {"taken"} : Detach!Exit(why)
        \/ /\ Detach!Advance /\ UNCHANGED <<fd, log, next>>
           /\ step \in {"fork1", "setsid", "fork2", "user", "chroot", "setegid", "seteuid"}
    BY <1>2 DEF Detach!ForkProcess, Detach!Setsid, Detach!GetUser, Detach!Chroot, Detach!SetIds,
                Detach!At, Detach!setup, Causes
  <2> QED
    BY <1>1, <2>1, PlugAdvances
<1>3. CASE Detach!Chdir
  BY <1>1, <1>3, PlugChdir DEF Detach!Chdir, Detach!At, Causes
<1>4. CASE Detach!Sigaction
  <2>1. /\ UNCHANGED <<fd, log, next>> /\ past' = past
        /\ step \in Early /\ step' \in Early
    BY <1>4, Follows DEF Detach!Sigaction, Detach!At, Detach!setup, Early
  <2> QED
    BY <2>1, PlugStays DEF PlugInv
<1>5. CASE Detach!Sleep
  <2>1. /\ UNCHANGED <<fd, log, next>> /\ past' = past
        /\ step \in Late /\ step' \in Late
    BY <1>5, Follows DEF Detach!Sleep, Detach!At, Detach!setup, Detach!Advance, Late
  <2> QED
    BY <2>1, PlugStays DEF PlugInv
<1> QED
  BY <1>2, <1>3, <1>4, <1>5, PlugClose, PlugOpens, PlugLogs DEF Detach!MainStep

LEMMA PlugStep ==
  Detach!DaemonAssumption /\ PlugInv /\ [Detach!Next]_(Detach!dvars) => PlugInv'
<1> SUFFICES ASSUME Detach!DaemonAssumption, PlugInv, [Detach!Next]_(Detach!dvars)
             PROVE  PlugInv'
  OBVIOUS
<1>1. CASE UNCHANGED Detach!dvars
  BY <1>1, PlugStays DEF Detach!dvars, Detach!setup, PlugInv
<1> QED
  BY <1>1, PlugMain, PlugSignal, PlugHandler DEF Detach!Next

LEMMA PlacePlugImplies == PlaceInv /\ PlugInv => Detaches
<1> SUFFICES ASSUME PlaceInv, PlugInv
             PROVE  Detach!BodyReady /\ Detach!GivesUpForCause
  BY DEF Detaches, Detach!Detaches
<1>1. Detach!GivesUpForCause
  BY DEF PlaceInv, PlugInv, Detach!GivesUpForCause
<1>2. ASSUME step \in {"sleep", "lastlog"}
      PROVE  /\ self.dir = "newRoot" /\ self.ids = <<"group", "user">>
             /\ conf.daemon => self.who = "member" /\ ~self.terminal
             /\ ~past.stray => /\ \A j \in 0..2 : fd[j] = "null"
                               /\ \A j \in 3..MaxFd : fd[j] # "closed" => j = log
  BY <1>2 DEF PlaceInv, Body, Rooted, PlugInv, Held, Plugged, Late
<1> QED
  BY <1>1, <1>2 DEF Detach!BodyReady

\* Whatever fails on the way and whatever signals come, daemon.c comes to its body
\* detached, in its own directory, without root's ids and with its descriptors on
\* /dev/null, or gives up for a cause (01_environment/daemon/daemon.c:62-146).
THEOREM ComesUpDetached == Spec => []Detaches
<1>1. Init => PlaceInv /\ PlugInv
  BY PlaceInit, PlugInit, ProgramsAssumption DEF Init
<1>2. PlaceInv /\ PlugInv /\ [Next]_vars => PlaceInv' /\ PlugInv'
  BY PlaceStep, PlugStep, DetachSteps, ProgramsAssumption
<1>3. PlaceInv /\ PlugInv => Detaches
  BY PlacePlugImplies
<1> QED
  BY <1>1, <1>2, <1>3, PTL DEF Spec
-----------------------------------------------------------------------------
(* The types: what the sections above did not need *)

LEMMA PollTyped == Poll!PollDriverAssumption /\ Poll!TypeOK /\ [Poll!Next]_(Poll!vars) => Poll!TypeOK'
<1> SUFFICES ASSUME Poll!PollDriverAssumption, Poll!TypeOK, [Poll!Next]_(Poll!vars)
             PROVE  Poll!TypeOK'
  OBVIOUS
<1> USE DEF Poll!TypeOK, Poll!PollDriverAssumption, Poll!Goto
<1>1. CASE Poll!IsrCount
  BY <1>1 DEF Poll!IsrCount
<1>2. CASE Poll!IsrWake
  BY <1>2 DEF Poll!IsrWake
<1>3. ASSUME NEW p \in Pollers, Poll!Step(p)
      PROVE  Poll!TypeOK'
  <2>1. CASE Poll!PollWait(p)
    BY <2>1 DEF Poll!PollWait
  <2>2. CASE Poll!PollRead(p)
    <3>1. \E to \in {"dec", "sleep"} : pc' = [pc EXCEPT ![p] = to]
      BY <2>2 DEF Poll!PollRead
    <3> QED
      BY <2>2, <3>1 DEF Poll!PollRead
  <2>3. CASE Poll!PollDec(p)
    BY <2>3 DEF Poll!PollDec
  <2>4. CASE Poll!WakeUp(p)
    BY <2>4 DEF Poll!WakeUp
  <2>5. CASE Poll!Count(p)
    BY <2>5 DEF Poll!Count
  <2> QED
    BY <1>3, <2>1, <2>2, <2>3, <2>4, <2>5 DEF Poll!Step
<1>4. CASE UNCHANGED Poll!vars
  BY <1>4 DEF Poll!vars
<1> QED
  BY <1>1, <1>2, <1>3, <1>4 DEF Poll!Next, Poll!Isr

LEMMA PollTypedAlways == Spec => []Poll!TypeOK
<1>1. Init => Poll!TypeOK
  BY ProgramsAssumption DEF Init, Poll!Init, Poll!TypeOK, Poll!PollDriverAssumption
<1>2. Poll!TypeOK /\ [Next]_vars => Poll!TypeOK'
  BY PollTyped, PollSteps, ProgramsAssumption
<1> QED
  BY <1>1, <1>2, PTL DEF Spec

\* The parent looks into buf only after a read that put something there.
SocketTyped == Socket!TypeOK /\ (Pending => buf # <<>>)

LEMMA SocketStart == Socket!SocketPairAssumption /\ Socket!Init => SocketTyped
<1> SUFFICES ASSUME Socket!SocketPairAssumption, Socket!Init
             PROVE  SocketTyped
  OBVIOUS
<1>1. <<>> \in Seq(1..NumMsg)
  BY EmptySeq
<1>2. stream \in Seq(1..NumMsg) /\ buf \in Seq(1..NumMsg) /\ seen \in Seq(1..NumMsg)
  BY <1>1 DEF Socket!Init
<1>3. timely \in Timings /\ msg_cnt \in 1..(NumMsg + 1) /\ signals \in 0..MaxSignals
  BY DEF Socket!SocketPairAssumption, Socket!Init
<1>4. child = "write" /\ closed = FALSE /\ nbytes = FALSE /\ parent = "read"
  BY DEF Socket!Init
<1> QED
  BY <1>2, <1>3, <1>4 DEF SocketTyped, Socket!TypeOK, Pending

LEMMA SocketKeepsTypes ==
  Socket!SocketPairAssumption /\ SocketTyped /\ [Socket!Next]_(Socket!vars) => SocketTyped'
<1> SUFFICES ASSUME Socket!SocketPairAssumption, SocketTyped, [Socket!Next]_(Socket!vars)
             PROVE  SocketTyped'
  OBVIOUS
<1> DEFINE M == 1..NumMsg
<1>1. /\ timely \in Timings /\ msg_cnt \in 1..(NumMsg + 1)
      /\ child \in {"write", "sleep", "ended", "killed"}
      /\ stream \in Seq(M) /\ buf \in Seq(M) /\ seen \in Seq(M)
      /\ closed \in BOOLEAN /\ nbytes \in BOOLEAN /\ parent \in {"read", "test", "ended"}
      /\ signals \in 0..MaxSignals /\ NumMsg \in Nat /\ MaxSignals \in Nat
      /\ Pending => buf # <<>>
  BY DEF SocketTyped, Socket!TypeOK, Socket!SocketPairAssumption
<1>2. CASE Socket!Write
  <2>1. msg_cnt \in M
    BY <1>1, <1>2 DEF Socket!Write
  <2> HIDE DEF M
  <2>2. stream' \in Seq(M)
    BY <1>1, <1>2, <2>1, AppendProperties DEF Socket!Write
  <2> QED
    BY <1>1, <1>2, <2>1, <2>2 DEF Socket!Write, SocketTyped, Socket!TypeOK, Pending, M
<1>3. CASE Socket!Read
  <2>1. <<>> \in Seq(M)
    BY EmptySeq
  <2> HIDE DEF M
  <2>2. stream' \in Seq(M) /\ buf' \in Seq(M) /\ nbytes' \in BOOLEAN /\ (nbytes' => buf' # <<>>)
    BY <1>1, <1>3, <2>1 DEF Socket!Read
  <2> QED
    BY <1>1, <1>3, <2>2 DEF Socket!Read, SocketTyped, Socket!TypeOK, Pending, M
<1>4. CASE Socket!Test
  <2> HIDE DEF M
  <2>1. nbytes => Head(buf) \in M
    BY <1>1, <1>4, HeadTailProperties DEF Socket!Test, Pending
  <2>2. seen' \in Seq(M)
    <3>1. CASE nbytes
      BY <1>1, <1>4, <2>1, <3>1, AppendProperties DEF Socket!Test
    <3>2. CASE ~nbytes
      BY <1>1, <1>4, <3>2 DEF Socket!Test
    <3> QED
      BY <3>1, <3>2
  <2>3. parent' \in {"read", "ended"}
    BY <1>4 DEF Socket!Test
  <2> QED
    BY <1>1, <1>4, <2>2, <2>3 DEF Socket!Test, SocketTyped, Socket!TypeOK, Pending, M
<1>5. CASE Socket!Sleep \/ Socket!Close \/ Socket!Killed
  <2> HIDE DEF M
  <2>1. /\ UNCHANGED <<timely, msg_cnt, stream, parent, buf, nbytes, signals, seen>>
        /\ child' \in {"write", "ended", "killed"} /\ closed' \in {closed, TRUE}
    BY <1>5 DEF Socket!Sleep, Socket!Close, Socket!Killed
  <2> QED
    BY <1>1, <2>1 DEF SocketTyped, Socket!TypeOK, Pending, M
<1>6. CASE Socket!Interrupt
  <2> HIDE DEF M
  <2>1. signals' \in 0..MaxSignals
    BY <1>1, <1>6 DEF Socket!Interrupt
  <2> QED
    BY <1>1, <1>6, <2>1 DEF Socket!Interrupt, SocketTyped, Socket!TypeOK, Pending, M
<1>7. CASE UNCHANGED Socket!vars
  <2> HIDE DEF M
  <2> QED
    BY <1>1, <1>7 DEF Socket!vars, SocketTyped, Socket!TypeOK, Pending, M
<1> QED
  BY <1>2, <1>3, <1>4, <1>5, <1>6, <1>7 DEF Socket!Next, Socket!Child, Socket!Parent

LEMMA SocketTypedAlways == Spec => []Socket!TypeOK
<1>1. Init => SocketTyped
  BY SocketStart, ProgramsAssumption DEF Init
<1>2. SocketTyped /\ [Next]_vars => SocketTyped'
  BY SocketKeepsTypes, SocketSteps, ProgramsAssumption
<1>3. SocketTyped => Socket!TypeOK
  BY DEF SocketTyped
<1> QED
  BY <1>1, <1>2, <1>3, PTL DEF Spec

\* What the handlers and main share.
SignalsInv ==
  /\ left \in 0..Nap /\ caught \subseteq Signals /\ pending \subseteq caught
  /\ sent \in Nat /\ frames \in Seq(Frames) /\ Len(frames) <= sent

LEMMA SignalsInit == Detach!DaemonAssumption /\ Detach!Init => SignalsInv
<1> SUFFICES ASSUME Detach!DaemonAssumption, Detach!Init
             PROVE  SignalsInv
  OBVIOUS
<1>1. frames \in Seq(Frames) /\ Len(frames) = 0
  BY EmptySeq DEF Detach!Init
<1> QED
  BY <1>1 DEF Detach!DaemonAssumption, Detach!Init, SignalsInv

LEMMA SignalsMain == ASSUME SignalsInv, Detach!MainStep PROVE SignalsInv'
<1>1. UNCHANGED <<frames, pending, sent>>
  BY MainFrame
<1>2. left' \in {left, left - 1} /\ (left' = left \/ left > 0)
  <2>1. CASE Detach!Sleep
    BY <2>1 DEF Detach!Sleep, Detach!setup
  <2>2. CASE ~Detach!Sleep
    BY <2>2 DEF Detach!MainStep, Detach!ForkProcess, Detach!Setsid, Detach!Sigaction, Detach!Chdir,
                Detach!CloseAll, Detach!OpenNull, Detach!Dup, Detach!LogMessage, Detach!GetUser,
                Detach!Chroot, Detach!SetIds, Detach!Exit, Detach!setup
  <2> QED
    BY <2>1, <2>2
<1>3. caught \subseteq caught' /\ caught' \subseteq Signals
  <2>1. CASE Detach!Sigaction
    BY <2>1 DEF SignalsInv, Detach!Sigaction
  <2>2. CASE ~Detach!Sigaction
    <3>1. caught' = caught
      BY <2>2 DEF Detach!MainStep, Detach!ForkProcess, Detach!Setsid, Detach!Chdir,
                  Detach!CloseAll, Detach!OpenNull, Detach!Dup, Detach!LogMessage, Detach!GetUser,
                  Detach!Chroot, Detach!SetIds, Detach!Sleep, Detach!Exit, Detach!Advance,
                  Detach!signalling
    <3> QED
      BY <3>1 DEF SignalsInv
  <2> QED
    BY <2>1, <2>2
<1>4. left' \in 0..Nap
  <2>1. left \in 0..Nap /\ Nap \in Nat
    BY ProgramsAssumption DEF SignalsInv, Detach!DaemonAssumption
  <2> QED
    BY <1>2, <2>1
<1> QED
  BY <1>1, <1>3, <1>4 DEF SignalsInv

LEMMA SignalsSignal ==
  ASSUME SignalsInv, CountInv', NEW s \in Signals, Detach!Signal(s)
  PROVE  SignalsInv'
<1>1. frames' \in Seq(Frames) /\ sent' = sent + 1 /\ caught' = caught
  BY DEF CountInv, Detach!Signal
<1>2. left' \in 0..Nap
  <2>1. left' = left \/ (left > 0 /\ left' = left - 1)
    BY DEF Detach!Signal
  <2>2. left \in 0..Nap /\ Nap \in Nat
    BY ProgramsAssumption DEF SignalsInv, Detach!DaemonAssumption
  <2> QED
    BY <2>1, <2>2
<1>3. pending' \subseteq caught
  BY DEF SignalsInv, Detach!Signal
<1>4. Len(frames') <= sent + 1
  <2>1. CASE frames' = <<>>
    <3>1. Len(frames') = 0
      BY <2>1, EmptySeq
    <3> QED
      BY <3>1 DEF SignalsInv
  <2>2. CASE frames' = frames
    BY <2>2 DEF SignalsInv
  <2>3. CASE Detach!Entered(s)
    <3>1. PICK x : frames' = Append(frames, x)
      BY <2>3 DEF Detach!Entered
    <3>2. Len(frames') = Len(frames) + 1
      BY <3>1 DEF SignalsInv
    <3> QED
      BY <3>2 DEF SignalsInv
  <2> QED
    BY <2>1, <2>2, <2>3 DEF Detach!Signal
<1> QED
  BY <1>1, <1>2, <1>3, <1>4 DEF SignalsInv

LEMMA SignalsHandler ==
  ASSUME SignalsInv, CountInv', Detach!Handler
  PROVE  SignalsInv'
<1>1. frames' \in Seq(Frames) /\ sent' = sent /\ caught' = caught /\ left' = left
      /\ pending' \subseteq pending
  BY DEF CountInv, Detach!Handler, Detach!HandlerLogs, Detach!HandlerCounts, Detach!setup
<1>2. Len(frames') <= Len(frames)
  <2>1. ASSUME Detach!HandlerLogs
        PROVE  Len(frames') = Len(frames)
    BY <2>1 DEF SignalsInv, Detach!HandlerLogs
  <2>2. ASSUME Detach!HandlerCounts
        PROVE  Len(frames') <= Len(frames)
    <3>1. CASE frames' = SubSeq(frames, 1, Len(frames) - 1)
      <4>1. Len(frames) \in Nat \ {0}
        BY <2>2, EmptySeq DEF SignalsInv, Detach!HandlerCounts
      <4> QED
        BY <3>1, <4>1, SubSeqProperties DEF SignalsInv
    <3>2. CASE \E x : frames' = [frames EXCEPT ![Len(frames)] = x]
      BY <3>2 DEF SignalsInv
    <3> QED
      BY <2>2, <3>1, <3>2 DEF Detach!HandlerCounts
  <2> QED
    BY <2>1, <2>2 DEF Detach!Handler, SignalsInv
<1> QED
  BY <1>1, <1>2 DEF SignalsInv

LEMMA SignalsStep ==
  ASSUME SignalsInv, CountInv', [Detach!Next]_(Detach!dvars)
  PROVE  SignalsInv'
<1>1. CASE UNCHANGED Detach!dvars
  BY <1>1 DEF Detach!dvars, Detach!setup, Detach!signalling, SignalsInv
<1> QED
  BY <1>1, SignalsMain, SignalsSignal, SignalsHandler DEF Detach!Next

LEMMA DaemonTyped == PlaceInv /\ PlugInv /\ SignalsInv => Detach!TypeOK
BY DEF PlaceInv, PlugInv, Held, SignalsInv, Detach!TypeOK, Detach!Fds, Detach!None, Contents

LEMMA DaemonTypedAlways == Spec => []Detach!TypeOK
<1> DEFINE Inv == CountInv /\ PlaceInv /\ PlugInv /\ SignalsInv
<1>1. Init => Inv
  BY CountInit, PlaceInit, PlugInit, SignalsInit, ProgramsAssumption DEF Init
<1>2. Inv /\ [Next]_vars => Inv'
  BY CountStep, PlaceStep, PlugStep, SignalsStep, DetachSteps, ProgramsAssumption
<1>3. Inv => Detach!TypeOK
  BY DaemonTyped
<1> HIDE DEF Inv
<1> QED
  BY <1>1, <1>2, <1>3, PTL DEF Spec
=============================================================================
