--------------------------- MODULE KickedThreads ---------------------------
(***************************************************************************)
(* The two kernel threads of 02_modules/exercice07 and the module's exit.  *)
(* Thread 2 wakes every five seconds and kicks thread 1 through the        *)
(* is_kicked flag and the wait queue; the exit function stops thread 2,    *)
(* then thread 1, and the module's code goes away.                         *)
(***************************************************************************)
EXTENDS Integers

CONSTANT MaxTimeouts  \* bound: sleeps of thread 2

ASSUME KickedThreadsAssumption == MaxTimeouts \in Nat

VARIABLES
  is_kicked,
  thread_1,    \* "should_stop", "prepare", "test", "schedule", "dec", "ended"
  thread_2,    \* "should_stop", "ssleep", "set", "wake", "ended"
  on_queue,    \* is thread 1 on queue_1, marked as sleeping?
  stop,        \* the threads that were told to stop
  exit,        \* "loaded", "stopping_2", "stopping_1", "unloaded"
  timeouts,    \* sleeps of thread 2 so far
  acks         \* kicks thread 1 has reported

vars == <<is_kicked, thread_1, thread_2, on_queue, stop, exit, timeouts, acks>>

Init ==
  /\ is_kicked = 0
  /\ thread_1 = "should_stop" /\ thread_2 = "should_stop"
  /\ on_queue = FALSE
  /\ stop = {}
  /\ exit = "loaded"
  /\ timeouts = 0 /\ acks = 0

-----------------------------------------------------------------------------
(* Thread 1: wait_event_interruptible marks the thread as sleeping before   *)
(* it tests the condition, and any wake-up takes the mark away.             *)

At1(from, to) == thread_1 = from /\ thread_1' = to

ShouldStop1 ==
  /\ \/ 1 \in stop /\ At1("should_stop", "ended")
     \/ 1 \notin stop /\ At1("should_stop", "prepare")
  /\ UNCHANGED <<is_kicked, thread_2, on_queue, stop, exit, timeouts, acks>>

Prepare1 ==
  /\ At1("prepare", "test")
  /\ on_queue' = TRUE
  /\ UNCHANGED <<is_kicked, thread_2, stop, exit, timeouts, acks>>

\* (mutant) "|| kthread_should_stop ()" left out
ConditionDeaf == is_kicked # 0

Condition == is_kicked # 0 \/ 1 \in stop

Test1 ==
  /\ \/ Condition /\ At1("test", "dec") /\ on_queue' = FALSE
     \/ ~Condition /\ At1("test", "schedule") /\ UNCHANGED on_queue
  /\ UNCHANGED <<is_kicked, thread_2, stop, exit, timeouts, acks>>

\* (mutant) the condition is not tested again
Scheduled1Spurious ==
  /\ ~on_queue
  /\ At1("schedule", "dec")
  /\ UNCHANGED <<is_kicked, thread_2, on_queue, stop, exit, timeouts, acks>>

\* Back from schedule(), once a wake-up took the mark away.
Scheduled1 ==
  /\ ~on_queue
  /\ At1("schedule", "prepare")
  /\ UNCHANGED <<is_kicked, thread_2, on_queue, stop, exit, timeouts, acks>>

Dec1 ==
  /\ At1("dec", "should_stop")
  /\ is_kicked' = is_kicked - 1
  /\ acks' = acks + 1
  /\ UNCHANGED <<thread_2, on_queue, stop, exit, timeouts>>

Thread1 == ShouldStop1 \/ Prepare1 \/ Test1 \/ Scheduled1 \/ Dec1

-----------------------------------------------------------------------------
(* Thread 2 *)

At2(from, to) == thread_2 = from /\ thread_2' = to

ShouldStop2 ==
  /\ \/ 2 \in stop /\ At2("should_stop", "ended")
     \/ 2 \notin stop /\ At2("should_stop", "ssleep")
  /\ UNCHANGED <<is_kicked, thread_1, on_queue, stop, exit, timeouts, acks>>

\* ssleep(5) cannot be cut short, not even by kthread_stop.
Ssleep2 ==
  /\ timeouts < MaxTimeouts \/ 2 \in stop
  /\ At2("ssleep", "set")
  /\ timeouts' = timeouts + 1
  /\ UNCHANGED <<is_kicked, thread_1, on_queue, stop, exit, acks>>

Set2 ==
  /\ At2("set", "wake")
  /\ is_kicked' = 1
  /\ UNCHANGED <<thread_1, on_queue, stop, exit, timeouts, acks>>

\* (mutant) the queue is never woken
Wake2Silent ==
  /\ At2("wake", "should_stop")
  /\ UNCHANGED <<is_kicked, thread_1, on_queue, stop, exit, timeouts, acks>>

Wake2 ==
  /\ At2("wake", "should_stop")
  /\ on_queue' = FALSE
  /\ UNCHANGED <<is_kicked, thread_1, stop, exit, timeouts, acks>>

Thread2 == ShouldStop2 \/ Ssleep2 \/ Set2 \/ Wake2

-----------------------------------------------------------------------------
(* skeleton_exit: kthread_stop sets the stop flag, wakes the thread and     *)
(* waits for it to end.                                                     *)

Stop2 ==
  /\ exit = "loaded" /\ exit' = "stopping_2"
  /\ stop' = stop \union {2}
  /\ UNCHANGED <<is_kicked, thread_1, thread_2, on_queue, timeouts, acks>>

\* (mutant) kthread_stop(my_thread[0]) without waiting for thread 2
Stop1Early ==
  /\ exit = "stopping_2" /\ exit' = "stopping_1"
  /\ stop' = stop \union {1}
  /\ on_queue' = FALSE
  /\ UNCHANGED <<is_kicked, thread_1, thread_2, timeouts, acks>>

Stop1 ==
  /\ exit = "stopping_2" /\ exit' = "stopping_1"
  /\ thread_2 = "ended"
  /\ stop' = stop \union {1}
  /\ on_queue' = FALSE
  /\ UNCHANGED <<is_kicked, thread_1, thread_2, timeouts, acks>>

Unload ==
  /\ exit = "stopping_1" /\ exit' = "unloaded"
  /\ thread_1 = "ended"
  /\ UNCHANGED <<is_kicked, thread_1, thread_2, on_queue, stop, timeouts, acks>>

Exit == Stop2 \/ Stop1 \/ Unload

Next == Thread1 \/ Thread2 \/ Exit

Spec == Init /\ [][Next]_vars

\* The threads are scheduled, ssleep ends, and rmmod, once called, goes on.
FairSpec ==
  Spec /\ WF_vars(Thread1) /\ WF_vars(Thread2) /\ WF_vars(Stop1) /\ WF_vars(Unload)

-----------------------------------------------------------------------------
(* Properties *)

TypeOK ==
  /\ is_kicked \in -1..1
  /\ thread_1 \in {"should_stop", "prepare", "test", "schedule", "dec", "ended"}
  /\ thread_2 \in {"should_stop", "ssleep", "set", "wake", "ended"}
  /\ on_queue \in BOOLEAN
  /\ stop \subseteq {1, 2}
  /\ exit \in {"loaded", "stopping_2", "stopping_1", "unloaded"}
  /\ timeouts \in 0..(MaxTimeouts + 1) /\ acks \in Nat

\* Kicks may be merged (is_kicked is set, not counted) but never invented:
\* thread 1 reports at most as many kicks as thread 2 gave, plus the one
\* "kick" by which kthread_stop ends its wait, and only that one takes the
\* flag below zero.
KicksAreReal ==
  /\ acks <= timeouts + (IF 1 \in stop THEN 1 ELSE 0)
  /\ is_kicked < 0 => 1 \in stop

\* A kick reaches thread 1: the flag does not stay up.
KickDelivered == is_kicked = 1 ~> is_kicked # 1 \/ thread_1 = "ended"

\* rmmod returns: each thread notices that it must stop.
ExitCompletes == exit = "stopping_2" ~> exit = "unloaded"

\* Nothing of the module runs once it is unloaded.
NoCodeAfterUnload == exit = "unloaded" => thread_1 = "ended" /\ thread_2 = "ended"
=============================================================================
