------------------------ MODULE KickedThreadsProofs ------------------------
(***************************************************************************)
(* What TLAPS proves of the two kernel threads, however long they run.     *)
(***************************************************************************)
EXTENDS KickedThreads, TLAPS

\* The kicks given so far: a sleep is followed by one.
Given == timeouts - (IF thread_2 = "set" THEN 1 ELSE 0)

\* The inductive invariant.  A decrement turns one unit of is_kicked into one
\* report, so the two together never exceed the kicks given; the flag goes
\* below zero only on the way out of thread 1, when thread 2 is gone.
KickInv ==
  /\ TypeOK
  /\ \/ 2 \in stop /\ thread_2 \in {"set", "wake", "should_stop", "ended"}
     \/ timeouts <= MaxTimeouts
  /\ 1 \in stop <=> exit \in {"stopping_1", "unloaded"}
  /\ 1 \in stop => thread_2 = "ended"
  /\ exit = "unloaded" => thread_1 = "ended"
  /\ is_kicked < 0 => 1 \in stop /\ thread_1 \in {"should_stop", "ended"}
  /\ thread_1 = "dec" => is_kicked = 1 \/ (1 \in stop /\ is_kicked = 0)
  /\ acks + is_kicked <= Given

LEMMA KickInit == Init => KickInv
<1> SUFFICES ASSUME Init
             PROVE  KickInv
  OBVIOUS
<1>1. TypeOK
  <2>1. is_kicked \in -1..1 /\ timeouts \in 0..(MaxTimeouts + 1) /\ acks \in Nat
    BY KickedThreadsAssumption DEF Init
  <2>2. on_queue \in BOOLEAN /\ stop \subseteq {1, 2}
    BY DEF Init
  <2> QED
    BY <2>1, <2>2 DEF Init, TypeOK
<1>2. /\ is_kicked = 0 /\ timeouts = 0 /\ acks = 0 /\ Given = 0
      /\ 1 \notin stop /\ 2 \notin stop /\ exit = "loaded" /\ thread_1 = "should_stop"
  BY DEF Init, Given
<1> QED
  BY <1>1, <1>2, KickedThreadsAssumption DEF KickInv

LEMMA KickStep == KickInv /\ [Next]_vars => KickInv'
<1> SUFFICES ASSUME KickInv, [Next]_vars
             PROVE  KickInv'
  OBVIOUS
<1> USE KickedThreadsAssumption DEF KickInv, TypeOK, Given
<1>1. CASE Thread1
  <2>1. CASE ShouldStop1
    BY <2>1 DEF ShouldStop1, At1
  <2>2. CASE Prepare1
    BY <2>2 DEF Prepare1, At1
  <2>3. CASE Test1
    <3>1. CASE Condition /\ thread_1 = "test" /\ thread_1' = "dec" /\ on_queue' = FALSE
      <4>1. is_kicked = 1 \/ (1 \in stop /\ is_kicked = 0)
        BY <3>1 DEF Condition
      <4> QED
        BY <2>3, <3>1, <4>1 DEF Test1
    <3>2. CASE thread_1 = "test" /\ thread_1' = "schedule" /\ on_queue' = on_queue
      BY <2>3, <3>2 DEF Test1
    <3> QED
      BY <2>3, <3>1, <3>2 DEF Test1, At1
  <2>4. CASE Scheduled1
    BY <2>4 DEF Scheduled1, At1
  <2>5. CASE Dec1
    BY <2>5 DEF Dec1, At1
  <2> QED
    BY <1>1, <2>1, <2>2, <2>3, <2>4, <2>5 DEF Thread1
<1>2. CASE Thread2
  <2>1. CASE ShouldStop2
    BY <2>1 DEF ShouldStop2, At2
  <2>2. CASE Ssleep2
    BY <2>2 DEF Ssleep2, At2
  <2>3. CASE Set2
    BY <2>3 DEF Set2, At2
  <2>4. CASE Wake2
    BY <2>4 DEF Wake2, At2
  <2> QED
    BY <1>2, <2>1, <2>2, <2>3, <2>4 DEF Thread2
<1>3. CASE Exit
  <2>1. CASE Stop2
    BY <2>1 DEF Stop2
  <2>2. CASE Stop1
    BY <2>2 DEF Stop1
  <2>3. CASE Unload
    BY <2>3 DEF Unload
  <2> QED
    BY <1>3, <2>1, <2>2, <2>3 DEF Exit
<1>4. CASE UNCHANGED vars
  BY <1>4 DEF vars
<1> QED
  BY <1>1, <1>2, <1>3, <1>4 DEF Next

THEOREM KickInvariant == Spec => []KickInv
BY KickInit, KickStep, PTL DEF Spec

\* Thread 1 reports no kick that thread 2 (atomic_set in skeleton_thread_2) or
\* kthread_stop did not give, for any number of timeouts.
THEOREM KicksReal == Spec => []KicksAreReal
<1>1. KickInv => KicksAreReal
  BY DEF KickInv, TypeOK, Given, KicksAreReal
<1> QED
  BY <1>1, KickInvariant, PTL

\* skeleton_exit returns only when neither thread runs the module's code.
THEOREM UnloadSafe == Spec => []NoCodeAfterUnload
<1>1. KickInv => NoCodeAfterUnload
  BY DEF KickInv, NoCodeAfterUnload
<1> QED
  BY <1>1, KickInvariant, PTL
=============================================================================
