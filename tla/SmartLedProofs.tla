-------------------------- MODULE SmartLedProofs --------------------------
(***************************************************************************)
(* What TLAPS proves of the event loop: for every period, button factor,   *)
(* set of buttons, batch size and interleaving, the auto-repeat has exactly *)
(* one owner, the events array is never overrun, and the timers drive a    *)
(* square wave whose next edge no button moves.                            *)
(***************************************************************************)
EXTENDS SmartLed, SequenceTheorems, WellFoundedInduction, TLAPS

\* RepeatHasOwner is inductive once the press timer is known to be a timer.
OwnerInv ==
  /\ press \in Timer
  /\ increase \in BOOLEAN /\ decrease \in BOOLEAN
  /\ RepeatHasOwner

LEMMA TimerRecord ==
  ASSUME NEW a \in BOOLEAN, NEW r \in Nat, NEW i \in Nat, NEW e \in BOOLEAN
  PROVE  [armed |-> a, rem |-> r, intv |-> i, pend |-> e] \in Timer
BY Zenon DEF Timer

\* start_press_timer and stop_press_timer
LEMMA StartedPress ==
  ASSUME StartPressTimer
  PROVE  press' \in Timer
<1>1. /\ ~(PressTime < 0) /\ (PressTime > 0) = TRUE
      /\ PressTime \in Nat
  BY SmartLedAssumption
<1>2. press' = [armed |-> TRUE, rem |-> PressTime, intv |-> PressTime, pend |-> FALSE]
  BY <1>1, Zenon DEF StartPressTimer, Settime
<1> QED
  BY <1>1, <1>2, TimerRecord

LEMMA StoppedPress ==
  ASSUME StopPressTimer
  PROVE  press' \in Timer /\ ~press'.armed /\ ~press'.pend
<1>1. ~(0 < 0) /\ (0 > 0) = FALSE /\ 0 \in Nat
  OBVIOUS
<1>2. press' = [armed |-> FALSE, rem |-> 0, intv |-> 0, pend |-> FALSE]
  BY <1>1, Zenon DEF StopPressTimer, Settime
<1>3. press' \in Timer
  BY <1>1, <1>2, TimerRecord
<1>4. ~press'.armed /\ ~press'.pend
  BY <1>2, Zenon
<1> QED
  BY <1>3, <1>4

\* The press timer stays a timer, and only start_press_timer sets it going.
LEMMA PressElapses ==
  ASSUME press \in Timer, ~Due(press), press' = Elapsed(press)
  PROVE  press' \in Timer /\ press'.armed = press.armed /\ press'.pend = press.pend
BY DEF Timer, Due, Elapsed

LEMMA PressExpires ==
  ASSUME press \in Timer, press' = Expired(press)
  PROVE  press' \in Timer
<1>1. press.intv \in Nat /\ (press.intv > 0) \in BOOLEAN
  BY DEF Timer
<1> QED
  BY <1>1 DEF Timer, Expired

LEMMA OwnerInit == Init => OwnerInv
<1> SUFFICES ASSUME Init
             PROVE  OwnerInv
  OBVIOUS
<1>1. press \in Timer
  BY TimerRecord DEF Init, Created
<1>2. ~press.armed /\ ~press.pend
  BY Zenon DEF Init, Created
<1> QED
  BY <1>1, <1>2 DEF Init, OwnerInv, RepeatHasOwner

LEMMA OwnerStep == OwnerInv /\ [Next]_vars => OwnerInv'
<1> SUFFICES ASSUME OwnerInv, [Next]_vars
             PROVE  OwnerInv'
  OBVIOUS
<1> USE DEF OwnerInv, RepeatHasOwner, driver, user, loop
<1>1. CASE InitApp
  BY <1>1 DEF InitApp
<1>2. CASE EpollWait
  BY <1>2 DEF EpollWait
<1>3. CASE EpollFail
  BY <1>3 DEF EpollFail
<1>4. CASE HandleP1
  BY <1>4 DEF HandleP1
<1>5. CASE HandleP2
  BY <1>5 DEF HandleP2
<1>6. CASE HandlePress
  BY <1>6 DEF HandlePress, Cleared, Timer
<1>7. CASE HandleK1
  <2>1. CASE "k1" \in button /\ ~decrease
    <3>1. StartPressTimer /\ increase' = TRUE /\ decrease' = decrease /\ button' = button
      BY <1>7, <2>1 DEF HandleK1, ClearButtonEvent
    <3>2. press' \in Timer
      BY <3>1, StartedPress
    <3> QED
      BY <2>1, <3>1, <3>2
  <2>2. CASE ~("k1" \in button /\ ~decrease)
    <3>1. /\ StopPressTimer /\ increase' = FALSE /\ decrease' = decrease
          /\ button' = button /\ edge' = edge \ {"k1"}
      BY <1>7, <2>2 DEF HandleK1, ClearButtonEvent
    <3>2. press' \in Timer /\ ~press'.armed /\ ~press'.pend
      BY <3>1, StoppedPress
    <3> QED
      BY <3>1, <3>2
  <2> QED
    BY <2>1, <2>2
<1>8. CASE HandleK2
  BY <1>8 DEF HandleK2, ClearButtonEvent
<1>9. CASE HandleK3
  <2>1. CASE "k3" \in button /\ ~increase
    <3>1. StartPressTimer /\ decrease' = TRUE /\ increase' = increase /\ button' = button
      BY <1>9, <2>1 DEF HandleK3, ClearButtonEvent
    <3>2. press' \in Timer
      BY <3>1, StartedPress
    <3> QED
      BY <2>1, <3>1, <3>2
  <2>2. CASE ~("k3" \in button /\ ~increase)
    <3>1. /\ StopPressTimer /\ decrease' = FALSE /\ increase' = increase
          /\ button' = button /\ edge' = edge \ {"k3"}
      BY <1>9, <2>2 DEF HandleK3, ClearButtonEvent
    <3>2. press' \in Timer /\ ~press'.armed /\ ~press'.pend
      BY <3>1, StoppedPress
    <3> QED
      BY <3>1, <3>2
  <2> QED
    BY <2>1, <2>2
<1>10. CASE User
  <2> SUFFICES ASSUME NEW k \in Keys, Push(k) \/ Release(k)
               PROVE  OwnerInv'
    BY <1>10 DEF User
  <2>1. CASE Push(k)
    BY <2>1 DEF Push
  <2>2. CASE Release(k)
    BY <2>2 DEF Release
  <2> QED
    BY <2>1, <2>2
<1>11. CASE Elapse
  BY <1>11, PressElapses DEF Elapse, NoneDue
<1>12. CASE ExpireP1 \/ ExpireP2
  BY <1>12 DEF ExpireP1, ExpireP2
<1>13. CASE ExpirePress
  <2>1. press.armed /\ press' \in Timer
    BY <1>13, PressExpires DEF ExpirePress, Due
  <2> QED
    BY <1>13, <2>1 DEF ExpirePress
<1>14. CASE UNCHANGED vars
  BY <1>14 DEF vars
<1> QED
  BY <1>1, <1>2, <1>3, <1>4, <1>5, <1>6, <1>7, <1>8, <1>9, <1>10, <1>11, <1>12, <1>13, <1>14
  DEF Next, Process, Handle, Expire

\* The auto-repeat (handle_events, cases ePressTimer, eButtonK1, eButtonK3) is
\* never without an owner: it runs only for a direction whose button is held
\* or whose release is still to be read, and never for both.
THEOREM RepeatOwned == Spec => []RepeatHasOwner
<1>1. OwnerInv => RepeatHasOwner
  BY DEF OwnerInv
<1> QED
  BY <1>1, OwnerInit, OwnerStep, PTL DEF Spec

-----------------------------------------------------------------------------
(* What epoll_wait finds *)

\* Every set of naturals that is not empty has a least element.
LEMMA LeastOf ==
  ASSUME NEW S \in SUBSET Nat, S # {}
  PROVE  \E n \in S : \A m \in S : n <= m
<1> DEFINE R == OpToRel(<, Nat)
<1>1. IsWellFoundedOn(R, Nat)
  BY NatLessThanWellFounded
<1>2. \E x \in S : \A y \in S : ~ (<<y, x>> \in R)
  BY <1>1, WFMin, Zenon
<1>3. \A x, y \in Nat : x < y => <<x, y>> \in R
  BY DEF OpToRel
<1> HIDE DEF R
<1>4. PICK n \in S : \A y \in S : ~ (<<y, n>> \in R)
  BY <1>2
<1>5. ASSUME NEW m \in S PROVE n <= m
  <2>1. m \in Nat /\ n \in Nat
    OBVIOUS
  <2>2. ~(m < n)
    BY <1>3, <1>4, <2>1
  <2> QED
    BY <2>1, <2>2
<1> QED
  BY <1>5

\* A set of naturals that holds 0 and with each number below N the next holds 0..N.
LEMMA UpTo ==
  ASSUME NEW N \in Nat, NEW S, 0 \in S, \A n \in 0..N : n # N /\ n \in S => n + 1 \in S
  PROVE  0..N \subseteq S
<1> SUFFICES ASSUME (0..N) \ S # {}
             PROVE  FALSE
  OBVIOUS
<1>1. PICK n \in (0..N) \ S : \A m \in (0..N) \ S : n <= m
  <2>1. (0..N) \ S \in SUBSET Nat
    OBVIOUS
  <2> QED
    BY <2>1, LeastOf
<1>2. n # 0 /\ n - 1 \in 0..N /\ n - 1 # N /\ ~(n <= n - 1)
  OBVIOUS
<1>3. n - 1 \in S
  BY <1>1, <1>2
<1>4. (n - 1) + 1 \in S
  BY <1>2, <1>3
<1> QED
  BY <1>4

\* The recursion of LiveIn has a solution.
LEMMA LiveInExists ==
  ASSUME NEW N \in Nat
  PROVE  \E f : f = [n \in 0..N |-> IF n = 0 THEN <<>> ELSE f[n - 1] \o IfLive(ready[n])]
<1> DEFINE Solves(f, k) == f = [n \in 0..k |-> IF n = 0 THEN <<>> ELSE f[n - 1] \o IfLive(ready[n])]
           S == {k \in 0..N : \E f : Solves(f, k)}
<1>1. 0 \in S
  <2> DEFINE f == [n \in 0..0 |-> <<>>]
  <2>1. Solves(f, 0)
    OBVIOUS
  <2> HIDE DEF f, Solves
  <2> QED
    BY <2>1
<1>2. ASSUME NEW k \in 0..N, k # N, k \in S
      PROVE  k + 1 \in S
  <2>1. PICK f : Solves(f, k)
    BY <1>2
  <2> DEFINE g == [n \in 0..(k + 1) |-> IF n = k + 1 THEN f[k] \o IfLive(ready[k + 1]) ELSE f[n]]
  <2>2. \A n \in 0..k : f[n] = IF n = 0 THEN <<>> ELSE f[n - 1] \o IfLive(ready[n])
    BY <2>1
  <2>3. ASSUME NEW n \in 0..(k + 1)
        PROVE  g[n] = IF n = 0 THEN <<>> ELSE g[n - 1] \o IfLive(ready[n])
    <3>1. CASE n = k + 1
      <4>1. n # 0 /\ n - 1 \in 0..(k + 1) /\ n - 1 # k + 1 /\ n - 1 = k
        BY <3>1
      <4> QED
        BY <3>1, <4>1
    <3>2. CASE n # k + 1 /\ n # 0
      <4>1. n \in 0..k /\ n - 1 \in 0..(k + 1) /\ n - 1 # k + 1
        BY <3>2
      <4> QED
        BY <2>2, <3>2, <4>1
    <3>3. CASE n = 0
      BY <2>2, <3>3
    <3> QED
      BY <3>1, <3>2, <3>3
  <2>4. Solves(g, k + 1)
    BY <2>3
  <2>5. k + 1 \in 0..N
    BY <1>2
  <2> HIDE DEF g, Solves
  <2> QED
    BY <2>4, <2>5
<1>3. N \in S
  <2> HIDE DEF S
  <2> QED
    BY <1>1, <1>2, UpTo
<1> QED
  BY <1>3

LEMMA LiveInIs ==
  ASSUME ready \in Seq(Events)
  PROVE  /\ LiveIn[0] = <<>>
         /\ \A n \in 1..Len(ready) : LiveIn[n] = LiveIn[n - 1] \o IfLive(ready[n])
<1>1. \E f : f = [n \in 0..Len(ready) |-> IF n = 0 THEN <<>> ELSE f[n - 1] \o IfLive(ready[n])]
  <2> DEFINE N == Len(ready)
  <2>1. N \in Nat
    OBVIOUS
  <2> HIDE DEF N
  <2>2. \E f : f = [n \in 0..N |-> IF n = 0 THEN <<>> ELSE f[n - 1] \o IfLive(ready[n])]
    BY <2>1, LiveInExists, Zenon
  <2> QED
    BY <2>2 DEF N
<1>2. LiveIn = [n \in 0..Len(ready) |-> IF n = 0 THEN <<>> ELSE LiveIn[n - 1] \o IfLive(ready[n])]
  BY <1>1, Zenon DEF LiveIn
<1> HIDE DEF LiveIn
<1> QED
  BY <1>2

\* What epoll_wait finds among the first n items: some of them, each once, and at most one
\* more than among the first n - 1.
LEMMA LiveInShape ==
  ASSUME ready \in Seq(Events), IsInjective(ready)
  PROVE  \A n \in 0..Len(ready) :
           /\ LiveIn[n] \in Seq(Events) /\ IsInjective(LiveIn[n])
           /\ \A j \in DOMAIN LiveIn[n] : \E i \in 1..n : LiveIn[n][j] = ready[i]
           /\ n > 0 => Len(LiveIn[n]) <= Len(LiveIn[n - 1]) + 1
<1> DEFINE Good(n) ==
             /\ LiveIn[n] \in Seq(Events) /\ IsInjective(LiveIn[n])
             /\ \A j \in DOMAIN LiveIn[n] : \E i \in 1..n : LiveIn[n][j] = ready[i]
             /\ n > 0 => Len(LiveIn[n]) <= Len(LiveIn[n - 1]) + 1
           S == {n \in 0..Len(ready) : Good(n)}
<1>1. 0 \in S
  <2>1. LiveIn[0] = <<>> /\ <<>> \in Seq(Events) /\ Len(<<>>) = 0 /\ DOMAIN <<>> = {}
    BY LiveInIs, EmptySeq
  <2>2. LiveIn[0] \in Seq(Events) /\ DOMAIN LiveIn[0] = {} /\ IsInjective(LiveIn[0])
    BY <2>1 DEF IsInjective
  <2>3. 0 \in 0..Len(ready)
    OBVIOUS
  <2> QED
    BY <2>2, <2>3
<1>2. ASSUME NEW n \in 0..Len(ready), n # Len(ready), n \in S
      PROVE  n + 1 \in S
  <2>1. n + 1 \in 1..Len(ready) /\ (n + 1) - 1 = n /\ n + 1 \in 0..Len(ready)
    BY <1>2
  <2>2. LiveIn[n + 1] = LiveIn[n] \o IfLive(ready[n + 1])
    BY <2>1, LiveInIs
  <2> DEFINE old == LiveIn[n]
             new == LiveIn[n + 1]
             e == ready[n + 1]
  <2>3. e \in Events /\ \A i \in 1..n : ready[i] # e
    BY <2>1 DEF IsInjective
  <2>4. /\ old \in Seq(Events) /\ IsInjective(old)
        /\ \A j \in DOMAIN old : \E i \in 1..n : old[j] = ready[i]
    BY <1>2
  <2>5. new = old \/ new = old \o <<e>>
    <3>1. IfLive(ready[n + 1]) = <<>> \/ IfLive(ready[n + 1]) = <<ready[n + 1]>>
      BY Zenon DEF IfLive
    <3>2. old \o <<>> = old
      BY <2>4
    <3> HIDE DEF old
    <3> QED
      BY <2>2, <3>1, <3>2 DEF old
  <2> HIDE DEF old, new, e
  <2>6. CASE new = old
    <3>1. new \in Seq(Events) /\ IsInjective(new) /\ Len(new) <= Len(old) + 1
      BY <2>4, <2>6
    <3>2. \A j \in DOMAIN new : \E i \in 1..(n + 1) : new[j] = ready[i]
      BY <2>4, <2>6
    <3> QED
      BY <2>1, <3>1, <3>2 DEF new, old
  <2>7. CASE new = old \o <<e>>
    <3>1. /\ new \in Seq(Events) /\ Len(new) = Len(old) + 1 /\ DOMAIN new = 1..(Len(old) + 1)
          /\ DOMAIN old = 1..Len(old) /\ Len(old) \in Nat
          /\ \A j \in 1..Len(old) : new[j] = old[j]
          /\ new[Len(old) + 1] = e
      BY <2>3, <2>4, <2>7
    <3>2. \A j \in 1..Len(old) : new[j] # e
      BY <2>3, <2>4, <3>1
    <3>3. IsInjective(new)
      <4> SUFFICES ASSUME NEW i \in DOMAIN new, NEW j \in DOMAIN new, new[i] = new[j]
                   PROVE  i = j
        BY DEF IsInjective
      <4>1. CASE i \in 1..Len(old) /\ j \in 1..Len(old)
        BY <2>4, <3>1, <4>1 DEF IsInjective
      <4>2. CASE i = Len(old) + 1 /\ j \in 1..Len(old)
        BY <3>1, <3>2, <4>2
      <4>3. CASE i \in 1..Len(old) /\ j = Len(old) + 1
        BY <3>1, <3>2, <4>3
      <4> QED
        BY <3>1, <4>1, <4>2, <4>3
    <3>4. \A j \in DOMAIN new : \E i \in 1..(n + 1) : new[j] = ready[i]
      <4> SUFFICES ASSUME NEW j \in DOMAIN new
                   PROVE  \E i \in 1..(n + 1) : new[j] = ready[i]
        OBVIOUS
      <4>1. CASE j = Len(old) + 1
        BY <2>1, <3>1, <4>1 DEF e
      <4>2. CASE j \in 1..Len(old)
        <5>1. PICK i \in 1..n : old[j] = ready[i]
          BY <2>4, <3>1, <4>2
        <5> QED
          BY <3>1, <4>2, <5>1
      <4> QED
        BY <3>1, <4>1, <4>2
    <3>5. Len(new) <= Len(old) + 1
      BY <3>1
    <3> QED
      BY <2>1, <3>1, <3>3, <3>4, <3>5 DEF new, old
  <2> QED
    BY <2>5, <2>6, <2>7
<1>3. Len(ready) \in Nat
  OBVIOUS
<1>4. 0..Len(ready) \subseteq S
  <2> HIDE DEF S
  <2> QED
    BY <1>1, <1>2, <1>3, UpTo
<1> QED
  BY <1>4

-----------------------------------------------------------------------------
(* The loop: ready list, batch and buttons *)

ListTyped == ready \in Seq(Events) /\ IsInjective(ready)

BatchTyped ==
  /\ batch \in Seq(Events) /\ Len(batch) <= MaxEvents
  /\ pc = "handle" <=> batch # <<>>
  /\ pc \in {"init", "wait", "handle", "exited"}

UserTyped == button \subseteq Buttons /\ edge \subseteq Buttons /\ led \in BOOLEAN

LoopInv == ListTyped /\ BatchTyped /\ UserTyped

LEMMA LoopInit == Init => LoopInv
<1> SUFFICES ASSUME Init
             PROVE  LoopInv
  OBVIOUS
<1>1. <<>> \in Seq(Events) /\ Len(<<>>) = 0 /\ DOMAIN <<>> = {}
  BY EmptySeq
<1>2. ready = <<>> /\ batch = <<>> /\ pc = "init" /\ MaxEvents \in Nat
  BY SmartLedAssumption DEF Init
<1>3. ListTyped
  BY <1>1, <1>2 DEF ListTyped, IsInjective
<1>4. BatchTyped
  BY <1>1, <1>2 DEF BatchTyped
<1> QED
  BY <1>3, <1>4 DEF Init, LoopInv, UserTyped

\* A descriptor joins the list once.
LEMMA WakeKeeps ==
  ASSUME ListTyped, NEW e \in Events, Wake(e)
  PROVE  ListTyped'
<1>1. CASE ready' = ready
  BY <1>1 DEF ListTyped, IsInjective
<1>2. CASE ready' = Append(ready, e) /\ \A i \in DOMAIN ready : ready[i] # e
  <2>1. /\ ready' \in Seq(Events) /\ Len(ready) \in Nat /\ DOMAIN ready = 1..Len(ready)
        /\ DOMAIN ready' = 1..(Len(ready) + 1) /\ ready'[Len(ready) + 1] = e
        /\ \A i \in 1..Len(ready) : ready'[i] = ready[i]
    BY <1>2 DEF ListTyped
  <2>2. ASSUME NEW i \in DOMAIN ready', NEW j \in DOMAIN ready', ready'[i] = ready'[j]
        PROVE  i = j
    <3>1. CASE i \in 1..Len(ready) /\ j \in 1..Len(ready)
      BY <2>1, <2>2, <3>1 DEF ListTyped, IsInjective
    <3>2. CASE i = Len(ready) + 1 /\ j \in 1..Len(ready)
      BY <1>2, <2>1, <2>2, <3>2
    <3>3. CASE i \in 1..Len(ready) /\ j = Len(ready) + 1
      BY <1>2, <2>1, <2>2, <3>3
    <3> QED
      BY <2>1, <3>1, <3>2, <3>3
  <2> QED
    BY <2>1, <2>2 DEF ListTyped, IsInjective
<1> QED
  BY <1>1, <1>2 DEF Wake

\* Two rows of different items make one.
LEMMA JoinInjective ==
  ASSUME NEW s \in Seq(Events), NEW t \in Seq(Events), IsInjective(s), IsInjective(t),
         \A i \in DOMAIN s : \A j \in DOMAIN t : s[i] # t[j]
  PROVE  s \o t \in Seq(Events) /\ IsInjective(s \o t)
<1> DEFINE u == s \o t
<1>1. /\ u \in Seq(Events) /\ DOMAIN u = 1..(Len(s) + Len(t)) /\ Len(s) \in Nat /\ Len(t) \in Nat
      /\ DOMAIN s = 1..Len(s) /\ DOMAIN t = 1..Len(t)
      /\ \A i \in 1..Len(s) : u[i] = s[i]
      /\ \A i \in (Len(s) + 1)..(Len(s) + Len(t)) : u[i] = t[i - Len(s)] /\ i - Len(s) \in 1..Len(t)
  OBVIOUS
<1> HIDE DEF u
<1>0. ASSUME NEW i \in DOMAIN u, i \notin 1..Len(s)
      PROVE  /\ i \in (Len(s) + 1)..(Len(s) + Len(t)) /\ i - Len(s) \in 1..Len(t)
             /\ u[i] = t[i - Len(s)]
  <2>1. i \in (Len(s) + 1)..(Len(s) + Len(t))
    BY <1>0, <1>1
  <2> QED
    BY <1>1, <2>1
<1>2. ASSUME NEW i \in DOMAIN u, NEW j \in DOMAIN u, u[i] = u[j]
      PROVE  i = j
  <2>1. CASE i \in 1..Len(s) /\ j \in 1..Len(s)
    BY <1>1, <1>2, <2>1 DEF IsInjective
  <2>2. CASE i \notin 1..Len(s) /\ j \notin 1..Len(s)
    <3>1. i - Len(s) \in 1..Len(t) /\ j - Len(s) \in 1..Len(t)
      BY <1>0, <2>2
    <3>2. t[i - Len(s)] = t[j - Len(s)]
      BY <1>0, <1>2, <2>2
    <3>3. i - Len(s) = j - Len(s)
      BY <1>1, <3>1, <3>2 DEF IsInjective
    <3> QED
      BY <1>1, <3>3
  <2>3. CASE i \in 1..Len(s) /\ j \notin 1..Len(s)
    BY <1>0, <1>1, <1>2, <2>3
  <2>4. CASE i \notin 1..Len(s) /\ j \in 1..Len(s)
    BY <1>0, <1>1, <1>2, <2>4
  <2> QED
    BY <2>1, <2>2, <2>3, <2>4
<1> QED
  BY <1>1, <1>2 DEF u, IsInjective

\* epoll_wait returns no more than there is room for, and the list keeps every item once.
LEMMA EpollWaitKeeps ==
  ASSUME LoopInv, EpollWait
  PROVE  LoopInv'
<1>1. PICK n \in 1..Len(ready) :
        /\ n = Len(ready) \/ Len(LiveIn[n]) = MaxEvents
        /\ \A m \in 1..(n - 1) : Len(LiveIn[m]) < MaxEvents
        /\ batch' = LiveIn[n]
        /\ ready' = SubSeq(ready, n + 1, Len(ready)) \o LiveIn[n]
        /\ pc' = IF LiveIn[n] = <<>> THEN "wait" ELSE "handle"
  BY Zenon DEF EpollWait
<1>2. /\ ready \in Seq(Events) /\ IsInjective(ready) /\ Len(ready) \in Nat
      /\ DOMAIN ready = 1..Len(ready) /\ MaxEvents \in Nat \ {0}
  BY SmartLedAssumption DEF LoopInv, ListTyped
<1>3. n \in Nat /\ n > 0 /\ n <= Len(ready) /\ n \in 0..Len(ready) /\ n - 1 \in 0..Len(ready)
  BY <1>2
<1>4. /\ LiveIn[n] \in Seq(Events) /\ IsInjective(LiveIn[n])
      /\ \A j \in DOMAIN LiveIn[n] : \E i \in 1..n : LiveIn[n][j] = ready[i]
      /\ Len(LiveIn[n]) <= Len(LiveIn[n - 1]) + 1
      /\ LiveIn[n - 1] \in Seq(Events)
  BY <1>2, <1>3, LiveInShape
<1>5. LiveIn[0] = <<>> /\ Len(LiveIn[0]) = 0
  BY <1>2, LiveInIs, EmptySeq
<1> DEFINE live == LiveIn[n]
           before == LiveIn[n - 1]
           rest == SubSeq(ready, n + 1, Len(ready))
<1>6. Len(before) < MaxEvents
  <2>1. CASE n = 1
    <3>1. n - 1 = 0
      BY <2>1
    <3> QED
      BY <1>2, <1>5, <3>1
  <2>2. CASE n # 1
    <3>1. n - 1 \in 1..(n - 1)
      BY <1>3, <2>2
    <3> QED
      BY <1>1, <3>1
  <2> QED
    BY <2>1, <2>2
<1>7. /\ rest \in Seq(Events) /\ Len(rest) = Len(ready) - n
      /\ DOMAIN rest = 1..(Len(ready) - n)
      /\ \A i \in 1..(Len(ready) - n) : rest[i] = ready[i + n]
  <2> DEFINE m == n + 1
             l == Len(ready)
  <2>1. /\ m \in Int /\ l \in Int /\ \A i \in m..l : ready[i] \in Events
    BY <1>2, <1>3
  <2>2. /\ n \in Nat /\ l \in Nat /\ n <= l /\ m = n + 1
    BY <1>2, <1>3
  <2>3. rest = SubSeq(ready, m, l)
    OBVIOUS
  <2> HIDE DEF m, l, rest
  <2>4. /\ rest \in Seq(Events) /\ Len(rest) = IF m <= l THEN l - m + 1 ELSE 0
        /\ \A i \in 1..(l - m + 1) : rest[i] = ready[m + i - 1]
    BY <2>1, <2>3, SubSeqProperties
  <2>5. Len(rest) = l - n
    <3>1. CASE m <= l
      BY <2>2, <2>4, <3>1
    <3>2. CASE ~(m <= l)
      <4>1. Len(rest) = 0
        BY <2>4, <3>2
      <4> QED
        BY <2>2, <3>2, <4>1
    <3> QED
      BY <3>1, <3>2
  <2>6. DOMAIN rest = 1..(l - n)
    BY <2>4, <2>5
  <2>7. \A i \in 1..(l - n) : i \in 1..(l - m + 1) /\ m + i - 1 = i + n
    BY <2>2
  <2>8. \A i \in 1..(l - n) : rest[i] = ready[i + n]
    BY <2>4, <2>7
  <2> QED
    BY <2>4, <2>5, <2>6, <2>8 DEF l
<1> HIDE DEF live, before, rest
<1>8. live \in Seq(Events) /\ Len(live) <= MaxEvents
  <2>1. /\ live \in Seq(Events) /\ Len(live) <= Len(before) + 1 /\ Len(live) \in Nat
        /\ Len(before) \in Nat
    BY <1>4 DEF live, before
  <2> QED
    BY <1>2, <1>6, <2>1
<1>9. IsInjective(rest)
  <2> SUFFICES ASSUME NEW i \in DOMAIN rest, NEW j \in DOMAIN rest, rest[i] = rest[j]
               PROVE  i = j
    BY DEF IsInjective
  <2>1. i + n \in DOMAIN ready /\ j + n \in DOMAIN ready /\ ready[i + n] = ready[j + n]
    BY <1>2, <1>3, <1>7
  <2>2. i + n = j + n
    BY <1>2, <2>1 DEF IsInjective
  <2> QED
    BY <1>3, <1>7, <2>2
<1>10. ASSUME NEW i \in DOMAIN rest, NEW j \in DOMAIN live
       PROVE  rest[i] # live[j]
  <2>1. PICK m \in 1..n : live[j] = ready[m]
    BY <1>4 DEF live
  <2>2. i + n \in DOMAIN ready /\ m \in DOMAIN ready /\ i + n # m /\ rest[i] = ready[i + n]
    BY <1>2, <1>3, <1>7
  <2> QED
    BY <1>2, <2>1, <2>2 DEF IsInjective
<1>11. ListTyped'
  <2>1. IsInjective(live)
    BY <1>4 DEF live
  <2>2. rest \o live \in Seq(Events) /\ IsInjective(rest \o live)
    BY <1>7, <1>8, <1>9, <1>10, <2>1, JoinInjective
  <2>3. ready' = rest \o live
    BY <1>1 DEF rest, live
  <2> QED
    BY <2>2, <2>3 DEF ListTyped
<1>12. BatchTyped'
  <2>1. batch' = live /\ pc' = IF live = <<>> THEN "wait" ELSE "handle"
    BY <1>1 DEF live
  <2>2. CASE live = <<>>
    BY <1>8, <2>1, <2>2 DEF BatchTyped
  <2>3. CASE live # <<>>
    BY <1>8, <2>1, <2>3 DEF BatchTyped
  <2> QED
    BY <2>2, <2>3
<1> QED
  BY <1>11, <1>12 DEF LoopInv, UserTyped, EpollWait, user

\* Every case of handle_events takes the first event off the batch.
LEMMA HandleKeeps ==
  ASSUME LoopInv, Handle
  PROVE  LoopInv'
<1>1. \/ Handled /\ button' = button /\ pc = "handle" /\ (edge' = edge \/ \E k : edge' = edge \ {k})
         /\ led' \in BOOLEAN
  BY DEF Handle, HandleP1, HandleP2, HandlePress, HandleK1, HandleK2, HandleK3, Handling,
         ClearButtonEvent, user, LoopInv, UserTyped
<1>2. batch # <<>> /\ batch \in Seq(Events) /\ Len(batch) <= MaxEvents /\ MaxEvents \in Nat
  BY <1>1, SmartLedAssumption DEF LoopInv, BatchTyped
<1>3. Tail(batch) \in Seq(Events) /\ Len(Tail(batch)) = Len(batch) - 1 /\ Len(batch) \in Nat
  BY <1>2
<1>4. Len(Tail(batch)) <= MaxEvents
  BY <1>2, <1>3
<1>5. BatchTyped'
  <2>1. CASE Tail(batch) = <<>>
    BY <1>1, <1>3, <1>4, <2>1 DEF BatchTyped, Handled
  <2>2. CASE Tail(batch) # <<>>
    BY <1>1, <1>3, <1>4, <2>2 DEF BatchTyped, Handled
  <2> QED
    BY <2>1, <2>2
<1>6. ListTyped'
  BY <1>1 DEF Handled, LoopInv, ListTyped, IsInjective
<1> QED
  BY <1>1, <1>5, <1>6 DEF LoopInv, UserTyped

\* EPOLL_CTL_ADD lists the buttons used before.
LEMMA RegisteredTyped == Registered \in Seq(Events) /\ IsInjective(Registered)
<1> DEFINE a == IfLive("k1")
           b == IfLive("k2")
           c == IfLive("k3")
<1>1. a \in {<<>>, <<"k1">>} /\ b \in {<<>>, <<"k2">>} /\ c \in {<<>>, <<"k3">>}
  BY Zenon DEF IfLive
<1>2. \A x : x \in {<<>>} => IsInjective(x)
  BY EmptySeq DEF IsInjective
<1>3. \A k \in Events : /\ <<k>> \in Seq(Events) /\ IsInjective(<<k>>)
                        /\ DOMAIN <<k>> = {1} /\ <<k>>[1] = k
  BY DEF IsInjective
<1>4. <<>> \in Seq(Events) /\ DOMAIN <<>> = {} /\ {"k1", "k2", "k3"} \subseteq Events
  BY EmptySeq DEF Events, Keys
<1> HIDE DEF a, b, c
<1>5. /\ a \in Seq(Events) /\ b \in Seq(Events) /\ c \in Seq(Events)
      /\ IsInjective(a) /\ IsInjective(b) /\ IsInjective(c)
      /\ \A i \in DOMAIN a : a[i] = "k1"
      /\ \A i \in DOMAIN b : b[i] = "k2"
      /\ \A i \in DOMAIN c : c[i] = "k3"
  BY <1>1, <1>2, <1>3, <1>4
<1>6. a \o b \in Seq(Events) /\ IsInjective(a \o b)
  BY <1>5, JoinInjective
<1>7. \A i \in DOMAIN (a \o b) : (a \o b)[i] \in {"k1", "k2"}
  BY <1>5
<1>8. \A i \in DOMAIN (a \o b) : \A j \in DOMAIN c : (a \o b)[i] # c[j]
  BY <1>5, <1>7
<1>9. (a \o b) \o c \in Seq(Events) /\ IsInjective((a \o b) \o c)
  BY <1>5, <1>6, <1>8, JoinInjective
<1> QED
  BY <1>9 DEF Registered, a, b, c

LEMMA LoopStep == LoopInv /\ [Next]_vars => LoopInv'
<1> SUFFICES ASSUME LoopInv, [Next]_vars
             PROVE  LoopInv'
  OBVIOUS
<1>1. ListTyped /\ BatchTyped /\ UserTyped
  BY DEF LoopInv
<1>2. CASE InitApp
  <2>1. BatchTyped' /\ UserTyped'
    BY <1>1, <1>2 DEF InitApp, BatchTyped, UserTyped, user
  <2>2. ready' = Registered \/ ready' = ready
    BY <1>2 DEF InitApp
  <2>3. ListTyped'
    BY <1>1, <2>2, RegisteredTyped DEF ListTyped, IsInjective
  <2> QED
    BY <2>1, <2>3 DEF LoopInv
<1>3. CASE EpollWait
  BY <1>3, EpollWaitKeeps
<1>4. CASE Handle
  BY <1>4, HandleKeeps
<1>5. CASE EpollFail
  BY <1>1, <1>5 DEF EpollFail, LoopInv, ListTyped, BatchTyped, UserTyped, user, IsInjective
<1>6. CASE User
  <2>1. PICK k \in Keys : Push(k) \/ Release(k)
    BY <1>6 DEF User
  <2>2. k \in Events /\ UNCHANGED <<batch, pc, led>>
    BY <2>1 DEF Events, Push, Release, loop
  <2>3. UserTyped' /\ BatchTyped'
    BY <1>1, <2>1, <2>2 DEF UserTyped, BatchTyped, Push, Release
  <2>4. Wake(k) \/ ready' = ready
    BY <2>1 DEF Push, Release
  <2>5. ListTyped'
    BY <1>1, <2>2, <2>4, WakeKeeps DEF ListTyped, IsInjective
  <2> QED
    BY <2>3, <2>5 DEF LoopInv
<1>7. CASE Elapse \/ UNCHANGED vars
  BY <1>1, <1>7 DEF Elapse, vars, loop, user, LoopInv, ListTyped, BatchTyped, UserTyped, IsInjective
<1>8. CASE Expire
  <2>1. PICK e \in {"p1", "p2", "press"} : Wake(e)
    BY <1>8 DEF Expire, ExpireP1, ExpireP2, ExpirePress
  <2>2. ListTyped'
    BY <1>1, <2>1, WakeKeeps DEF Events
  <2> QED
    BY <1>1, <1>8, <2>2 DEF Expire, ExpireP1, ExpireP2, ExpirePress, LoopInv,
                           BatchTyped, UserTyped, user
<1> QED
  BY <1>2, <1>3, <1>4, <1>5, <1>6, <1>7, <1>8 DEF Next, Process

-----------------------------------------------------------------------------
(* The timers *)

\* The condition: no button step may shrink a phase to nothing.
Lasting == MinPhase >= 1

\* The distance between two next expiries is the phase between them.
Gap(r1, r2) == IF r1 < r2 THEN r2 - r1 = period_ns - duty_ns ELSE r1 - r2 = duty_ns

Unstarted == p1 = Created /\ p2 = Created /\ pc \in {"init", "exited"}

Started ==
  /\ p1.armed /\ p2.armed /\ p1.intv = period_ns /\ p2.intv = period_ns
  /\ Gap(p1.rem, p2.rem)
  /\ pc # "init"

TimersInv ==
  /\ period_ns \in Nat /\ duty_ns \in Nat /\ 1 <= duty_ns /\ 1 <= period_ns - duty_ns
  /\ p1 \in Timer /\ p2 \in Timer
  /\ Unstarted \/ Started

\* The arithmetic stays within the integers, overflow or not.
LEMMA WrapInt ==
  ASSUME NEW x \in Int
  PROVE  Wrap(x) \in Int
BY TimerMathAssumption DEF Wrap

LEMMA CDivInt ==
  ASSUME NEW a \in Int, NEW b \in Nat \ {0}
  PROVE  CDiv(a, b) \in Int
BY DEF CDiv

LEMMA ScaledInt ==
  ASSUME NEW x \in Int
  PROVE  Increase(x) \in Int /\ Decrease(x) \in Int
<1>1. x * 100 \in Int /\ x * PressFactor \in Int
  BY TimerMathAssumption
<1>2. Wrap(x * 100) \in Int /\ Wrap(x * PressFactor) \in Int
  BY <1>1, WrapInt
<1>3. PressFactor \in Nat \ {0} /\ 100 \in Nat \ {0}
  BY TimerMathAssumption
<1> QED
  BY <1>2, <1>3, CDivInt DEF Increase, Decrease

\* What a period the bounds admit looks like.
LEMMA RangeShape ==
  ASSUME Lasting, NEW p \in Int, NEW d \in Int, InRange(p, d)
  PROVE  p \in Nat /\ d \in Nat /\ 1 <= d /\ 1 <= p - d
BY TimerMathAssumption DEF Lasting, InRange

LEMMA StartShape ==
  ASSUME Lasting
  PROVE  /\ InitPeriod \in Nat /\ InitDuty(InitPeriod) \in Nat
         /\ 1 <= InitDuty(InitPeriod) /\ 1 <= InitPeriod - InitDuty(InitPeriod)
<1>1. /\ InitPeriod \in Nat /\ InitDuty(InitPeriod) \in 0..InitPeriod
      /\ InRange(InitPeriod, InitDuty(InitPeriod))
  BY SmartLedAssumption
<1>2. InitPeriod \in Int /\ InitDuty(InitPeriod) \in Int
  BY <1>1
<1> QED
  BY <1>1, <1>2, RangeShape

\* An accepted timerfd_settime and the expiry of a periodic timer.
LEMMA SettimeArms ==
  ASSUME NEW t, NEW v \in Nat, NEW i \in Nat, 1 <= v
  PROVE  Settime(t, v, i) = [armed |-> TRUE, rem |-> v, intv |-> i, pend |-> FALSE]
<1>1. ~(v < 0) /\ ~(i < 0) /\ (v > 0) = TRUE
  OBVIOUS
<1> QED
  BY <1>1, Zenon DEF Settime

LEMMA ExpiredReloads ==
  ASSUME NEW t \in Timer, 1 <= t.intv
  PROVE  Expired(t) = [armed |-> TRUE, rem |-> t.intv, intv |-> t.intv, pend |-> TRUE]
<1>1. (t.intv > 0) = TRUE
  BY DEF Timer
<1> QED
  BY <1>1, Zenon DEF Expired

LEMMA CreatedTimer == Created \in Timer /\ ~Created.armed /\ Created.rem = 0
<1>1. Created \in Timer
  BY TimerRecord DEF Created
<1> QED
  BY <1>1 DEF Created

\* start_timers: both timers run with the values they were given.
LEMMA StartArms ==
  ASSUME NEW p \in Nat, NEW d \in Nat, NEW v, v[1] \in Nat, v[2] \in Nat, 1 <= v[1], 1 <= v[2],
         Start(p, d, v)
  PROVE  /\ period_ns' = p /\ duty_ns' = d
         /\ p1' = [armed |-> TRUE, rem |-> v[1], intv |-> p, pend |-> FALSE]
         /\ p2' = [armed |-> TRUE, rem |-> v[2], intv |-> p, pend |-> FALSE]
BY SettimeArms DEF Start

\* A step of the period, from a moment when neither timer is due: the next expiry stays
\* where it is, and the other one is a phase of the new length away from it.
LEMMA RestartKeeps ==
  ASSUME Lasting, TimersInv, Started, ~Due(p1), ~Due(p2), NEW p \in Int, NEW d \in Int,
         Restart(p, d), pc' # "init"
  PROVE  /\ TimersInv' /\ Started'
         /\ IF p1.rem < p2.rem THEN p1'.rem = p1.rem /\ p1'.rem < p2'.rem
                               ELSE p2'.rem = p2.rem /\ ~(p1'.rem < p2'.rem)
<1> DEFINE np == IF InRange(p, d) THEN p ELSE period_ns
           nd == IF InRange(p, d) THEN d ELSE duty_ns
           r1 == p1.rem
           r2 == p2.rem
           v == Rephased(r1, r2, np, nd)
<1>1. np \in Nat /\ nd \in Nat /\ 1 <= nd /\ 1 <= np - nd
  <2>1. CASE InRange(p, d)
    BY <2>1, RangeShape
  <2>2. CASE ~InRange(p, d)
    BY <2>2 DEF TimersInv
  <2> QED
    BY <2>1, <2>2
<1>2. r1 \in Nat /\ r2 \in Nat /\ 1 <= r1 /\ 1 <= r2
  BY DEF TimersInv, Started, Due, Timer
<1>3. Start(np, nd, v)
  BY DEF Restart, Remaining
<1> HIDE DEF np, nd, r1, r2
<1>4. /\ v[1] \in Nat /\ v[2] \in Nat /\ 1 <= v[1] /\ 1 <= v[2]
      /\ IF r1 < r2 THEN v[1] = r1 /\ v[2] = r1 + (np - nd) ELSE v[2] = r2 /\ v[1] = r2 + nd
  BY <1>1, <1>2 DEF Rephased
<1> HIDE DEF v
<1>5. /\ period_ns' = np /\ duty_ns' = nd
      /\ p1' = [armed |-> TRUE, rem |-> v[1], intv |-> np, pend |-> FALSE]
      /\ p2' = [armed |-> TRUE, rem |-> v[2], intv |-> np, pend |-> FALSE]
  BY <1>1, <1>3, <1>4, StartArms
<1>6. p1' \in Timer /\ p2' \in Timer
  BY <1>1, <1>4, <1>5, TimerRecord
<1>7. /\ p1'.armed /\ p2'.armed /\ p1'.intv = np /\ p2'.intv = np
      /\ p1'.rem = v[1] /\ p2'.rem = v[2]
  BY <1>5
<1>8. IF v[1] < v[2] THEN v[2] - v[1] = np - nd ELSE v[1] - v[2] = nd
  BY <1>1, <1>2, <1>4
<1>9. Gap(p1.rem, p2.rem)'
  BY <1>5, <1>7, <1>8 DEF Gap
<1>10. Started'
  BY <1>5, <1>7, <1>9 DEF Started
<1>11. TimersInv'
  BY <1>1, <1>5, <1>6, <1>10 DEF TimersInv
<1>12. IF r1 < r2 THEN p1'.rem = r1 /\ p1'.rem < p2'.rem
                  ELSE p2'.rem = r2 /\ ~(p1'.rem < p2'.rem)
  BY <1>1, <1>2, <1>4, <1>7
<1> QED
  BY <1>10, <1>11, <1>12 DEF r1, r2

\* What the handlers do to the timers: nothing, a read, or a step of the period.
LEMMA HandleTimers ==
  ASSUME Handle
  PROVE  /\ pc = "handle" /\ pc' \in {"wait", "handle"}
         /\ \/ UNCHANGED driver
            \/ p1' = Cleared(p1) /\ UNCHANGED <<period_ns, duty_ns, p2>>
            \/ p2' = Cleared(p2) /\ UNCHANGED <<period_ns, duty_ns, p1>>
            \/ Restart(Increase(period_ns), Increase(duty_ns))
            \/ Restart(Decrease(period_ns), Decrease(duty_ns))
            \/ Restart(InitPeriod, InitDuty(InitPeriod))
<1>1. pc = "handle" /\ pc' \in {"wait", "handle"}
  BY DEF Handle, HandleP1, HandleP2, HandlePress, HandleK1, HandleK2, HandleK3, Handling, Handled
<1>2. CASE HandleP1 \/ HandleP2
  BY <1>1, <1>2 DEF HandleP1, HandleP2
<1>3. CASE HandlePress
  BY <1>1, <1>3 DEF HandlePress, IncreaseTimerPeriod, DecreaseTimerPeriod
<1>4. CASE HandleK1
  BY <1>1, <1>4 DEF HandleK1, IncreaseTimerPeriod
<1>5. CASE HandleK2
  BY <1>1, <1>5 DEF HandleK2, ResetTimerPeriod
<1>6. CASE HandleK3
  BY <1>1, <1>6 DEF HandleK3, DecreaseTimerPeriod
<1> QED
  BY <1>2, <1>3, <1>4, <1>5, <1>6 DEF Handle

LEMMA TimersInit == ASSUME Lasting, Init PROVE TimersInv /\ Unstarted
<1>1. /\ period_ns \in Nat /\ duty_ns \in Nat /\ 1 <= duty_ns /\ 1 <= period_ns - duty_ns
  BY StartShape DEF Init
<1>2. Unstarted
  BY DEF Init, Unstarted
<1> QED
  BY <1>1, <1>2, CreatedTimer DEF TimersInv, Unstarted

\* The parameters of the three steps of the period.
LEMMA StepsInt ==
  ASSUME TimersInv
  PROVE  /\ Increase(period_ns) \in Int /\ Increase(duty_ns) \in Int
         /\ Decrease(period_ns) \in Int /\ Decrease(duty_ns) \in Int
         /\ InitPeriod \in Int /\ InitDuty(InitPeriod) \in Int
<1>1. period_ns \in Int /\ duty_ns \in Int
  BY DEF TimersInv
<1>2. InitPeriod \in Int /\ InitDuty(InitPeriod) \in Int
  BY SmartLedAssumption
<1> QED
  BY <1>1, <1>2, ScaledInt

\* Reading an expiration leaves the count-down alone.
LEMMA ClearedKeeps ==
  ASSUME NEW t \in Timer
  PROVE  /\ Cleared(t) \in Timer /\ Cleared(t).armed = t.armed
         /\ Cleared(t).rem = t.rem /\ Cleared(t).intv = t.intv
BY DEF Cleared, Timer

\* What the next edge is and when, once the timers run.
LEMMA StartedEdge ==
  ASSUME Started
  PROVE  Left1 = p1.rem /\ Left2 = p2.rem
<1>1. p1 # Created /\ p2 # Created
  BY CreatedTimer DEF Started
<1> QED
  BY <1>1 DEF Left1, Left2

\* A step that leaves the next edge alone.
Still ==
  /\ TimersInv'
  /\ NextEdge' = NextEdge /\ NextLeft' = NextLeft

LEMMA SameTimers ==
  ASSUME TimersInv, UNCHANGED driver, Unstarted => pc' \in {"init", "exited"},
         Started => pc' # "init"
  PROVE  Still
<1>1. period_ns' = period_ns /\ duty_ns' = duty_ns /\ p1' = p1 /\ p2' = p2
  BY DEF driver
<1>2. NextEdge' = NextEdge /\ NextLeft' = NextLeft
  BY <1>1 DEF NextEdge, NextLeft, Left1, Left2
<1>3. Unstarted => Unstarted'
  BY <1>1 DEF Unstarted
<1>4. Started => Started'
  BY <1>1 DEF Started, Gap
<1> QED
  BY <1>1, <1>2, <1>3, <1>4 DEF TimersInv, Still

\* init_app starts the timers where the wave begins, or fails.
LEMMA InitAppStill == ASSUME TimersInv, InitApp PROVE Still
<1>1. Unstarted /\ pc = "init"
  BY DEF InitApp, TimersInv, Started
<1>2. CASE Start(period_ns, duty_ns, <<duty_ns, period_ns>>) /\ pc' = "wait"
  <2> DEFINE v == <<duty_ns, period_ns>>
  <2>1. /\ v[1] = duty_ns /\ v[2] = period_ns /\ period_ns \in Nat /\ duty_ns \in Nat
        /\ 1 <= duty_ns /\ 1 <= period_ns /\ duty_ns < period_ns
    BY DEF TimersInv
  <2>2. Start(period_ns, duty_ns, v)
    BY <1>2
  <2> HIDE DEF v
  <2>3. /\ period_ns' = period_ns /\ duty_ns' = duty_ns
        /\ p1' = [armed |-> TRUE, rem |-> duty_ns, intv |-> period_ns, pend |-> FALSE]
        /\ p2' = [armed |-> TRUE, rem |-> period_ns, intv |-> period_ns, pend |-> FALSE]
    BY <2>1, <2>2, StartArms
  <2>4. p1' \in Timer /\ p2' \in Timer
    BY <2>1, <2>3, TimerRecord
  <2>5. Started'
    BY <1>2, <2>1, <2>3 DEF Started, Gap
  <2>6. TimersInv'
    BY <2>1, <2>3, <2>4, <2>5 DEF TimersInv
  <2>7. Left1' = duty_ns /\ Left2' = period_ns
    <3>1. (Started => Left1 = p1.rem /\ Left2 = p2.rem)'
      BY StartedEdge, CreatedTimer DEF Started, Left1, Left2
    <3> QED
      BY <2>3, <2>5, <3>1
  <2>8. Left1 = duty_ns /\ Left2 = period_ns
    BY <1>1 DEF Unstarted, Left1, Left2
  <2> QED
    BY <2>6, <2>7, <2>8 DEF Still, NextEdge, NextLeft
<1>3. CASE pc' = "exited" /\ UNCHANGED driver
  BY <1>1, <1>3, SameTimers DEF Started
<1> QED
  BY <1>2, <1>3 DEF InitApp

\* No handler moves the next edge.
LEMMA HandleStill == ASSUME Lasting, TimersInv, NoneDue, Handle PROVE Still
<1>1. Started /\ ~Unstarted /\ pc' # "init" /\ ~Due(p1) /\ ~Due(p2)
  BY HandleTimers DEF TimersInv, Unstarted, NoneDue
<1>2. CASE UNCHANGED driver
  BY <1>1, <1>2, SameTimers
<1>3. ASSUME p1' \in Timer, p2' \in Timer, p1'.armed, p2'.armed, UNCHANGED <<period_ns, duty_ns>>,
             p1'.rem = p1.rem, p2'.rem = p2.rem, p1'.intv = p1.intv, p2'.intv = p2.intv
      PROVE  Still
  <2>1. Started'
    BY <1>1, <1>3 DEF Started, Gap
  <2>2. TimersInv'
    BY <1>3, <2>1 DEF TimersInv
  <2>3. Left1' = p1'.rem /\ Left2' = p2'.rem
    BY <2>1, CreatedTimer DEF Started, Left1, Left2
  <2>4. Left1' = Left1 /\ Left2' = Left2
    BY <1>1, <1>3, <2>3, StartedEdge
  <2> QED
    BY <2>2, <2>4 DEF Still, NextEdge, NextLeft
<1>4. p1 \in Timer /\ p2 \in Timer /\ p1.armed /\ p2.armed
  BY <1>1 DEF TimersInv, Started
<1>5. CASE p1' = Cleared(p1) /\ UNCHANGED <<period_ns, duty_ns, p2>>
  BY <1>3, <1>4, <1>5, ClearedKeeps
<1>6. CASE p2' = Cleared(p2) /\ UNCHANGED <<period_ns, duty_ns, p1>>
  BY <1>3, <1>4, <1>6, ClearedKeeps
<1>7. ASSUME NEW p \in Int, NEW d \in Int, Restart(p, d)
      PROVE  Still
  <2>1. /\ TimersInv' /\ Started'
        /\ IF p1.rem < p2.rem THEN p1'.rem = p1.rem /\ p1'.rem < p2'.rem
                              ELSE p2'.rem = p2.rem /\ ~(p1'.rem < p2'.rem)
    BY <1>1, <1>7, RestartKeeps
  <2>2. Left1' = p1'.rem /\ Left2' = p2'.rem
    BY <2>1, CreatedTimer DEF Started, Left1, Left2
  <2>3. Left1 = p1.rem /\ Left2 = p2.rem
    BY <1>1, StartedEdge
  <2> QED
    BY <2>1, <2>2, <2>3 DEF Still, NextEdge, NextLeft
<1> QED
  BY <1>2, <1>5, <1>6, <1>7, HandleTimers, StepsInt

\* Time goes by for both timers; one of them expires.
LEMMA ElapseWave ==
  ASSUME TimersInv, Elapse
  PROVE  TimersInv' /\ [Wave!Next]_(Wave!waveVars)
<1>1. /\ ~Due(p1) /\ ~Due(p2) /\ p1' = Elapsed(p1) /\ p2' = Elapsed(p2)
      /\ period_ns' = period_ns /\ duty_ns' = duty_ns /\ pc' = pc /\ pc # "exited"
  BY DEF Elapse, NoneDue, loop
<1>2. CASE Unstarted
  <2>1. p1' = p1 /\ p2' = p2
    BY <1>1, <1>2, CreatedTimer DEF Unstarted, Elapsed
  <2>2. TimersInv'
    BY <1>1, <1>2, <2>1 DEF TimersInv, Unstarted
  <2>3. UNCHANGED Wave!waveVars
    BY <1>1, <2>1 DEF Wave!waveVars, NextEdge, NextLeft, Left1, Left2
  <2> QED
    BY <2>2, <2>3
<1>3. CASE Started
  <2>1. /\ p1 \in Timer /\ p2 \in Timer /\ p1.armed /\ p2.armed
        /\ p1.rem \in Nat /\ p2.rem \in Nat /\ 1 <= p1.rem /\ 1 <= p2.rem
    BY <1>1, <1>3 DEF TimersInv, Started, Timer, Due
  <2>2. p1' = [p1 EXCEPT !.rem = p1.rem - 1] /\ p2' = [p2 EXCEPT !.rem = p2.rem - 1]
    BY <1>1, <2>1 DEF Elapsed
  <2>3. /\ p1' \in Timer /\ p2' \in Timer /\ p1'.armed /\ p2'.armed
        /\ p1'.rem = p1.rem - 1 /\ p2'.rem = p2.rem - 1
        /\ p1'.intv = p1.intv /\ p2'.intv = p2.intv
    BY <2>1, <2>2 DEF Timer
  <2>4. Started'
    BY <1>1, <1>3, <2>1, <2>3 DEF Started, Gap
  <2>5. TimersInv'
    BY <1>1, <2>3, <2>4 DEF TimersInv
  <2>6. Left1' = p1'.rem /\ Left2' = p2'.rem
    BY <2>4, CreatedTimer DEF Started, Left1, Left2
  <2>7. Left1 = p1.rem /\ Left2 = p2.rem
    BY <1>3, StartedEdge
  <2>8. Wave!Elapse
    BY <1>1, <2>1, <2>3, <2>6, <2>7 DEF Wave!Elapse, NextEdge, NextLeft
  <2> QED
    BY <2>5, <2>8 DEF Wave!Next
<1> QED
  BY <1>2, <1>3 DEF TimersInv

LEMMA ExpireP1Wave ==
  ASSUME TimersInv, ExpireP1
  PROVE  TimersInv' /\ [Wave!Next]_(Wave!waveVars)
<1>1. /\ p1.armed /\ p1.rem = 0 /\ p1' = Expired(p1) /\ p2' = p2 /\ pc' = pc
      /\ period_ns' = period_ns /\ duty_ns' = duty_ns
  BY DEF ExpireP1, Due
<1>2. Started
  BY <1>1, CreatedTimer DEF TimersInv, Unstarted
<1>3. /\ p1.intv = period_ns /\ p2.rem \in Nat /\ Gap(p1.rem, p2.rem) /\ 1 <= period_ns
  BY <1>2 DEF TimersInv, Started, Timer
<1>4. p1' = [armed |-> TRUE, rem |-> period_ns, intv |-> period_ns, pend |-> TRUE]
  BY <1>1, <1>3, ExpiredReloads DEF TimersInv
<1>5. p1' \in Timer /\ p1'.armed /\ p1'.rem = period_ns /\ p1'.intv = period_ns
  BY <1>4, TimerRecord DEF TimersInv
<1>6. p2.rem = period_ns - duty_ns
  BY <1>1, <1>3 DEF Gap, TimersInv
<1>7. Started'
  BY <1>1, <1>2, <1>5, <1>6 DEF Started, Gap, TimersInv
<1>8. TimersInv'
  BY <1>1, <1>5, <1>7 DEF TimersInv
<1>9. Left1' = p1'.rem /\ Left2' = p2'.rem
  BY <1>7, CreatedTimer DEF Started, Left1, Left2
<1>10. Left1 = 0 /\ Left2 = p2.rem
  BY <1>1, <1>2, StartedEdge
<1>11. Wave!Toggle
  BY <1>1, <1>5, <1>6, <1>9, <1>10 DEF Wave!Toggle, NextEdge, NextLeft, TimersInv
<1> QED
  BY <1>8, <1>11 DEF Wave!Next

LEMMA ExpireP2Wave ==
  ASSUME TimersInv, ExpireP2
  PROVE  TimersInv' /\ [Wave!Next]_(Wave!waveVars)
<1>1. /\ p2.armed /\ p2.rem = 0 /\ p2' = Expired(p2) /\ p1' = p1 /\ pc' = pc
      /\ period_ns' = period_ns /\ duty_ns' = duty_ns
  BY DEF ExpireP2, Due
<1>2. Started
  BY <1>1, CreatedTimer DEF TimersInv, Unstarted
<1>3. /\ p2.intv = period_ns /\ p1.rem \in Nat /\ Gap(p1.rem, p2.rem) /\ 1 <= period_ns
  BY <1>2 DEF TimersInv, Started, Timer
<1>4. p2' = [armed |-> TRUE, rem |-> period_ns, intv |-> period_ns, pend |-> TRUE]
  BY <1>1, <1>3, ExpiredReloads DEF TimersInv
<1>5. p2' \in Timer /\ p2'.armed /\ p2'.rem = period_ns /\ p2'.intv = period_ns
  BY <1>4, TimerRecord DEF TimersInv
<1>6. p1.rem = duty_ns
  BY <1>1, <1>3 DEF Gap, TimersInv
<1>7. Started'
  BY <1>1, <1>2, <1>5, <1>6 DEF Started, Gap, TimersInv
<1>8. TimersInv'
  BY <1>1, <1>5, <1>7 DEF TimersInv
<1>9. Left1' = p1'.rem /\ Left2' = p2'.rem
  BY <1>7, CreatedTimer DEF Started, Left1, Left2
<1>10. Left1 = p1.rem /\ Left2 = 0
  BY <1>1, <1>2, StartedEdge
<1>11. Wave!Toggle
  BY <1>1, <1>5, <1>6, <1>9, <1>10 DEF Wave!Toggle, NextEdge, NextLeft, TimersInv
<1> QED
  BY <1>8, <1>11 DEF Wave!Next

\* What leaves the next edge alone is a change of the shape, if not a stutter.
LEMMA StillChanges == ASSUME Still PROVE Wave!Next
<1>1. /\ period_ns' \in Nat /\ duty_ns' \in Nat /\ 1 <= duty_ns' /\ 1 <= period_ns' - duty_ns'
  BY DEF Still, TimersInv
<1>2. ASSUME NEW p \in Nat, NEW d \in Nat, 1 <= d, 1 <= p - d
      PROVE  Wave!Shape(p, d)
  BY <1>2 DEF Wave!Shape
<1>3. Wave!Shape(period_ns', duty_ns')
  BY <1>1, <1>2
<1> QED
  BY <1>3 DEF Still, Wave!Next, Wave!Change

LEMMA WaveStep ==
  ASSUME Lasting, TimersInv, [Next]_vars
  PROVE  TimersInv' /\ [Wave!Next]_(Wave!waveVars)
<1>1. CASE Still
  BY <1>1, StillChanges DEF Still
<1>2. CASE InitApp
  BY <1>1, <1>2, InitAppStill
<1>3. CASE NoneDue /\ Handle
  BY <1>1, <1>3, HandleStill
<1>4. CASE EpollWait \/ EpollFail
  <2>1. UNCHANGED driver /\ ~Unstarted /\ pc' # "init"
    BY <1>4 DEF EpollWait, EpollFail, Unstarted
  <2> QED
    BY <1>1, <2>1, SameTimers
<1>5. CASE User \/ ExpirePress \/ UNCHANGED vars
  <2>1. UNCHANGED driver /\ pc' = pc
    BY <1>5 DEF User, Push, Release, ExpirePress, vars, loop
  <2> QED
    BY <1>1, <2>1, SameTimers DEF Unstarted, Started
<1> QED
  BY <1>2, <1>3, <1>4, <1>5, ElapseWave, ExpireP1Wave, ExpireP2Wave DEF Next, Process, Expire

LEMMA WaveInit == ASSUME Lasting, Init PROVE TimersInv /\ Wave!Init
<1>1. TimersInv /\ Unstarted
  BY TimersInit
<1>2. Left1 = duty_ns /\ Left2 = period_ns
  BY <1>1 DEF Unstarted, Left1, Left2
<1> QED
  BY <1>1, <1>2 DEF TimersInv, NextEdge, NextLeft, Wave!Init, Wave!Shape

\* The variables of the whole program keep their types, for every set of buttons, batch
\* size and interleaving; the ready list holds no descriptor twice and the events array
\* of handle_events is never overrun (smart_led_control.c:137-143).
THEOREM LoopTypeCorrect ==
  ASSUME Lasting
  PROVE  Spec => []TypeOK
<1>1. Init => LoopInv /\ TimersInv /\ OwnerInv
  BY LoopInit, WaveInit, OwnerInit
<1>2. (LoopInv /\ TimersInv /\ OwnerInv) /\ [Next]_vars => (LoopInv /\ TimersInv /\ OwnerInv)'
  BY LoopStep, WaveStep, OwnerStep
<1>3. LoopInv /\ TimersInv /\ OwnerInv => TypeOK
  BY DEF LoopInv, ListTyped, BatchTyped, UserTyped, TimersInv, OwnerInv, TypeOK
<1> QED
  BY <1>1, <1>2, <1>3, PTL DEF Spec

\* However events are batched and reordered and however slow the process is, the timers
\* of the whole program drive a square wave whose next edge no button moves.
THEOREM ProgramImplementsWave ==
  ASSUME Lasting
  PROVE  Spec => ImplementsWave
<1>1. Init => TimersInv /\ Wave!Init
  BY WaveInit
<1>2. TimersInv /\ [Next]_vars => TimersInv' /\ [Wave!Next]_(Wave!waveVars)
  BY WaveStep
<1> QED
  BY <1>1, <1>2, PTL DEF Spec, ImplementsWave, Wave!Spec
=============================================================================
