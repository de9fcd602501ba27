------------------------- MODULE BlinkTimersProofs -------------------------
(***************************************************************************)
(* What TLAPS proves of the timer driver, for every period, duty, button   *)
(* factor and word size.  An update that takes no time keeps the square    *)
(* wave.  Updates that take time, with interrupts as late as they like and *)
(* periods of every size, overflow included, freeze the LED for one reason *)
(* only, and blur its wave by no more than the time one of them takes.     *)
(***************************************************************************)
EXTENDS BlinkTimers, TLAPS

\* The conditions of the refinement: updates are instantaneous, no interrupt is
\* late, and no button step may shrink a phase to nothing.
Smooth == MaxLag = 0 /\ LateExpiry = FALSE /\ MinPhase >= 1

\* The distance between two next expiries is the phase between them.
Gap(r1, r2) == IF r1 < r2 THEN r2 - r1 = period_ns - duty_ns ELSE r1 - r2 = duty_ns

\* The inductive invariant.  The wave is carried by the timers at rest, by
\* what was read of them during the first half of an update, and by val during
\* the second half, when p1 is already restarted and p2 is not.
SmoothInv ==
  /\ TypeOK
  /\ 1 <= duty_ns /\ 1 <= period_ns - duty_ns
  /\ pc # "idle" => ~Due(p1) /\ ~Due(p2)
  /\ pc \in {"idle", "get1", "get2"} => p1.armed /\ p2.armed
  /\ pc = "idle" => /\ p1.intv = period_ns /\ p2.intv = period_ns
                    /\ Gap(p1.rem, p2.rem)
  /\ pc = "get2" => cur = p1.rem
  /\ pc \in {"set1", "set2"} => /\ 1 <= val[1] /\ 1 <= val[2]
                                /\ Gap(val[1], val[2])
  /\ pc = "set2" => p1.armed /\ p1.rem = val[1] /\ p1.intv = period_ns

-----------------------------------------------------------------------------
(* The arithmetic stays within the integers, overflow or not. *)

LEMMA WrapInt ==
  ASSUME NEW x \in Int
  PROVE  Wrap(x) \in Int
BY TimerMathAssumption DEF Wrap

LEMMA CDivInt ==
  ASSUME NEW a \in Int, NEW b \in Nat \ {0}
  PROVE  CDiv(a, b) \in Int
BY DEF CDiv

LEMMA ScaledInt ==
  ASSUME NEW x \in Int
  PROVE  Increase(x) \in Int /\ Decrease(x) \in Int /\ InitDuty(x) \in Int
<1>1. /\ x * 100 \in Int /\ x * PressFactor \in Int /\ x * DutyPercent \in Int
  BY TimerMathAssumption
<1>2. /\ Wrap(x * 100) \in Int /\ Wrap(x * PressFactor) \in Int
      /\ Wrap(x * DutyPercent) \in Int
  BY <1>1, WrapInt
<1>3. PressFactor \in Nat \ {0} /\ 100 \in Nat \ {0}
  BY TimerMathAssumption
<1> QED
  BY <1>2, <1>3, CDivInt DEF Increase, Decrease, InitDuty

\* What a period the bounds admit looks like.
LEMMA RangeShape ==
  ASSUME Smooth, NEW p \in Int, NEW d \in Int, InRange(p, d)
  PROVE  p \in Nat /\ d \in Nat /\ 1 <= d /\ 1 <= p - d
BY TimerMathAssumption DEF Smooth, InRange

\* The periods the program starts with are among them.
LEMMA StartShape ==
  ASSUME Smooth, NEW p \in InitPeriods
  PROVE  p \in Nat /\ InitDuty(p) \in Nat /\ 1 <= InitDuty(p) /\ 1 <= p - InitDuty(p)
<1>1. p \in Int /\ InRange(p, InitDuty(p))
  BY BlinkTimersAssumption
<1>2. InitDuty(p) \in Int
  BY <1>1, ScaledInt
<1> QED
  BY <1>1, <1>2, RangeShape

\* An accepted timerfd_settime and the expiry of a periodic timer.
LEMMA SettimeArms ==
  ASSUME NEW t, NEW v \in Nat, NEW i \in Nat, 1 <= v
  PROVE  Settime(t, v, i) = [armed |-> TRUE, rem |-> v, intv |-> i, pend |-> FALSE]
<1>1. ~(v < 0) /\ ~(i < 0) /\ (v > 0) = TRUE
  OBVIOUS
<1> QED
  BY <1>1, Zenon DEF Settime

LEMMA ExpiredReloads ==
  ASSUME NEW t \in Timer, 1 <= t.intv
  PROVE  Expired(t) = [armed |-> TRUE, rem |-> t.intv, intv |-> t.intv, pend |-> TRUE]
<1>1. (t.intv > 0) = TRUE
  BY DEF Timer
<1> QED
  BY <1>1, Zenon DEF Expired

-----------------------------------------------------------------------------
(* The invariant *)

LEMMA SmoothInit ==
  ASSUME Smooth, Init
  PROVE  SmoothInv
<1>1. /\ period_ns \in Nat /\ duty_ns \in Nat
      /\ 1 <= duty_ns /\ 1 <= period_ns - duty_ns
  BY StartShape DEF Init
<1>2. TypeOK
  BY <1>1 DEF Init, TypeOK, Smooth, Created, Timer
<1> QED
  BY <1>1, <1>2 DEF Init, SmoothInv, Created, Due, Gap

\* The three button steps.
LEMMA SmoothUpdate ==
  ASSUME Smooth, SmoothInv, NEW p \in Int, NEW d \in Int, Update(p, d)
  PROVE  SmoothInv'
<1>1. /\ p \in Nat /\ d \in Nat /\ 1 <= d /\ 1 <= p - d
  BY RangeShape DEF Update
<1>2. ~Due(p1) /\ ~Due(p2)
  BY DEF Update, Prompt, Smooth
<1> QED
  BY <1>1, <1>2 DEF SmoothInv, TypeOK, Update, Due, Gap

LEMMA SmoothStep ==
  ASSUME Smooth, SmoothInv, [Next]_vars
  PROVE  SmoothInv'
<1> USE DEF SmoothInv, TypeOK
<1>1. CASE IncreaseTimerPeriod
  BY <1>1, SmoothUpdate, ScaledInt DEF IncreaseTimerPeriod
<1>2. CASE DecreaseTimerPeriod
  BY <1>2, SmoothUpdate, ScaledInt DEF DecreaseTimerPeriod
<1>3. CASE ResetTimerPeriod
  <2>1. init_period_ns \in Int /\ init_duty_ns \in Int
    BY StartShape
  <2> QED
    BY <1>3, <2>1, SmoothUpdate DEF ResetTimerPeriod
<1>4. CASE Get1
  <2>1. spent' \in BOOLEAN
    BY <1>4, Zenon DEF Get1, Spent
  <2> QED
    BY <1>4, <2>1 DEF Get1, Remaining, Timer, Due, Gap
<1>5. CASE Get2
  <2>1. /\ 1 <= p1.rem /\ 1 <= p2.rem /\ p1.rem \in Nat /\ p2.rem \in Nat /\ cur = p1.rem
    BY <1>5 DEF Get2, Due, Timer
  <2>2. /\ val' \in Nat \X Nat /\ 1 <= val'[1] /\ 1 <= val'[2]
        /\ IF val'[1] < val'[2] THEN val'[2] - val'[1] = period_ns - duty_ns
                                ELSE val'[1] - val'[2] = duty_ns
    BY <1>5, <2>1 DEF Get2, Rephased, Remaining
  <2>3. spent' \in BOOLEAN
    BY <1>5, Zenon DEF Get2, Spent
  <2> QED
    BY <1>5, <2>2, <2>3 DEF Get2, Due, Gap
<1>6. CASE Set1
  <2>1. p1' = [armed |-> TRUE, rem |-> val[1], intv |-> period_ns, pend |-> FALSE]
    BY <1>6, SettimeArms DEF Set1
  <2> QED
    BY <1>6, <2>1 DEF Set1, Due, Gap, Timer
<1>7. CASE Set2
  <2>1. p2' = [armed |-> TRUE, rem |-> val[2], intv |-> period_ns, pend |-> FALSE]
    BY <1>7, SettimeArms DEF Set2
  <2> QED
    BY <1>7, <2>1 DEF Set2, Due, Gap, Timer, Smooth
<1>8. CASE HandleP1
  BY <1>8 DEF HandleP1, Cleared, Due, Gap, Timer
<1>9. CASE HandleP2
  BY <1>9 DEF HandleP2, Cleared, Due, Gap, Timer
<1>10. CASE Elapse
  <2>1. pc = "idle" /\ lag' = lag
    BY <1>10 DEF Elapse, Smooth
  <2>2. /\ p1' = [p1 EXCEPT !.rem = p1.rem - 1]
        /\ p2' = [p2 EXCEPT !.rem = p2.rem - 1]
        /\ 1 <= p1.rem /\ 1 <= p2.rem
    BY <1>10, <2>1 DEF Elapse, Elapsed, Due, Timer
  <2> QED
    BY <1>10, <2>1, <2>2 DEF Elapse, Due, Gap, Timer
<1>11. CASE Expire1
  <2>1. pc = "idle" /\ p1.rem = 0 /\ p1.intv = period_ns
    BY <1>11 DEF Expire1, Due
  <2>2. p1' = [armed |-> TRUE, rem |-> period_ns, intv |-> period_ns, pend |-> TRUE]
    BY <1>11, <2>1, ExpiredReloads DEF Expire1
  <2> QED
    BY <1>11, <2>1, <2>2 DEF Expire1, Due, Gap, Timer
<1>12. CASE Expire2
  <2>1. pc = "idle" /\ p2.rem = 0 /\ p2.intv = period_ns
    BY <1>12 DEF Expire2, Due
  <2>2. p2' = [armed |-> TRUE, rem |-> period_ns, intv |-> period_ns, pend |-> TRUE]
    BY <1>12, <2>1, ExpiredReloads DEF Expire2
  <2> QED
    BY <1>12, <2>1, <2>2 DEF Expire2, Due, Gap, Timer
<1>13. CASE UNCHANGED vars
  BY <1>13 DEF vars, Due, Gap
<1> QED
  BY <1>1, <1>2, <1>3, <1>4, <1>5, <1>6, <1>7, <1>8, <1>9, <1>10, <1>11, <1>12, <1>13
  DEF Next

\* SmoothInv holds in every reachable state.
THEOREM SmoothInvariant ==
  ASSUME Smooth
  PROVE  Spec => []SmoothInv
<1>1. Init => SmoothInv
  BY SmoothInit
<1>2. SmoothInv /\ [Next]_vars => SmoothInv'
  BY SmoothStep
<1> QED
  BY <1>1, <1>2, PTL DEF Spec

-----------------------------------------------------------------------------
(* Updates that take time: no condition on the constants *)

\* The timers the calls lead to: one that is off has no time left.
Counting == {t \in Timer : t.armed \/ t.rem = 0}

\* Loose types: a period may be negative, having overflowed.
Typed ==
  /\ period_ns \in Int /\ duty_ns \in Int
  /\ init_period_ns \in InitPeriods /\ init_duty_ns = InitDuty(init_period_ns)
  /\ p1 \in Counting /\ p2 \in Counting
  /\ pc \in {"idle", "get1", "get2", "set1", "set2"}
  /\ cur \in Nat
  /\ val \in Int \X Int
  /\ lag \in 0..MaxLag
  /\ spent \in BOOLEAN

\* What is used of the constants and of the start.
LEMMA ConstTypes ==
  /\ MaxLag \in Nat
  /\ \A p \in InitPeriods : p \in Int /\ InitDuty(p) \in Int
BY BlinkTimersAssumption, ScaledInt

\* A timerfd_settime yields a timer, whatever it is given.
LEMMA SettimeType ==
  ASSUME NEW t \in Counting, NEW v \in Int, NEW i \in Int
  PROVE  Settime(t, v, i) \in Counting
<1>1. CASE v < 0 \/ i < 0
  BY <1>1 DEF Settime
<1>2. CASE ~(v < 0 \/ i < 0)
  <2>1. Settime(t, v, i) = [armed |-> v > 0, rem |-> v, intv |-> i, pend |-> FALSE]
    BY <1>2, Zenon DEF Settime
  <2>2. CASE v > 0
    <3>1. (v > 0) = TRUE
      BY <2>2
    <3>2. Settime(t, v, i) = [armed |-> TRUE, rem |-> v, intv |-> i, pend |-> FALSE]
      BY <2>1, <3>1, Zenon
    <3> QED
      BY <1>2, <3>2 DEF Counting, Timer
  <2>3. CASE ~(v > 0)
    <3>1. (v > 0) = FALSE /\ v = 0
      BY <1>2, <2>3
    <3>2. Settime(t, v, i) = [armed |-> FALSE, rem |-> 0, intv |-> i, pend |-> FALSE]
      BY <2>1, <3>1, Zenon
    <3> QED
      BY <1>2, <3>2 DEF Counting, Timer
  <2> QED
    BY <2>2, <2>3
<1> QED
  BY <1>1, <1>2

\* A first expiry of 0 disarms the timer, a negative interval changes nothing.
LEMMA SettimeOff ==
  ASSUME NEW t, NEW i \in Int
  PROVE  /\ i >= 0 => ~Settime(t, 0, i).armed
         /\ i < 0 => \A v \in Int : Settime(t, v, i) = t
<1>1. ASSUME i >= 0
      PROVE  ~Settime(t, 0, i).armed
  <2>1. ~(0 < 0) /\ ~(i < 0) /\ (0 > 0) = FALSE
    BY <1>1
  <2>2. Settime(t, 0, i) = [armed |-> FALSE, rem |-> 0, intv |-> i, pend |-> FALSE]
    BY <2>1, Zenon DEF Settime
  <2> QED
    BY <2>2
<1>2. ASSUME i < 0
      PROVE  \A v \in Int : Settime(t, v, i) = t
  BY <1>2 DEF Settime
<1> QED
  BY <1>1, <1>2

LEMMA RephasedInt ==
  ASSUME NEW r \in Nat, NEW q \in Nat, NEW p \in Int, NEW d \in Int
  PROVE  /\ Rephased(r, q, p, d) \in Int \X Int
         /\ r = 0 \/ q = 0 => Rephased(r, q, p, d)[1] = 0 \/ Rephased(r, q, p, d)[2] = 0
BY DEF Rephased

LEMMA CreatedCounts == Created \in Counting
BY DEF Created, Counting, Timer

\* The clock, the expiry interrupt and read(2).
LEMMA ExpiredCounts ==
  ASSUME NEW t \in Counting
  PROVE  /\ Expired(t) \in Counting
         /\ Expired(t).intv = t.intv /\ Expired(t).rem = t.intv
<1>1. CASE t.intv > 0
  <2>1. (t.intv > 0) = TRUE
    BY <1>1
  <2>2. Expired(t) = [armed |-> TRUE, rem |-> t.intv, intv |-> t.intv, pend |-> TRUE]
    BY <2>1, Zenon DEF Expired
  <2> QED
    BY <2>2 DEF Counting, Timer
<1>2. CASE ~(t.intv > 0)
  <2>1. (t.intv > 0) = FALSE /\ t.intv = 0
    BY <1>2 DEF Counting, Timer
  <2>2. Expired(t) = [armed |-> FALSE, rem |-> t.intv, intv |-> t.intv, pend |-> TRUE]
    BY <2>1, Zenon DEF Expired
  <2> QED
    BY <2>1, <2>2 DEF Counting, Timer
<1> QED
  BY <1>1, <1>2

LEMMA ElapsedCounts ==
  ASSUME NEW t \in Counting, ~Due(t)
  PROVE  /\ Elapsed(t) \in Counting
         /\ Elapsed(t).armed = t.armed /\ Elapsed(t).intv = t.intv
         /\ t.armed => 1 <= t.rem /\ Elapsed(t).rem = t.rem - 1
BY DEF Elapsed, Due, Counting, Timer

LEMMA ClearedCounts ==
  ASSUME NEW t \in Counting
  PROVE  /\ Cleared(t) \in Counting
         /\ Cleared(t).armed = t.armed /\ Cleared(t).intv = t.intv /\ Cleared(t).rem = t.rem
BY DEF Cleared, Counting, Timer

LEMMA TypedInit ==
  ASSUME Init
  PROVE  Typed
<1>1. period_ns \in Int /\ duty_ns \in Int /\ lag \in 0..MaxLag
  BY ConstTypes DEF Init
<1>2. val \in Int \X Int
  BY <1>1 DEF Init
<1>3. spent \in BOOLEAN
  BY Zenon DEF Init
<1> QED
  BY <1>1, <1>2, <1>3, CreatedCounts DEF Init, Typed

LEMMA TypedStep ==
  ASSUME Typed, [Next]_vars
  PROVE  Typed'
<1> USE DEF Typed
<1>1. CASE IncreaseTimerPeriod
  BY <1>1, ScaledInt DEF IncreaseTimerPeriod, Update
<1>2. CASE DecreaseTimerPeriod
  BY <1>2, ScaledInt DEF DecreaseTimerPeriod, Update
<1>3. CASE ResetTimerPeriod
  BY <1>3, ConstTypes DEF ResetTimerPeriod, Update
<1>4. CASE Get1
  <2>1. spent' \in BOOLEAN
    BY <1>4, Zenon DEF Get1, Spent
  <2> QED
    BY <1>4, <2>1 DEF Get1, Remaining, Counting, Timer
<1>5. CASE Get2
  <2>1. p2.rem \in Nat
    BY DEF Counting, Timer
  <2>2. val' \in Int \X Int
    BY <1>5, <2>1, RephasedInt DEF Get2, Remaining
  <2>3. spent' \in BOOLEAN
    BY <1>5, Zenon DEF Get2, Spent
  <2> QED
    BY <1>5, <2>2, <2>3 DEF Get2
<1>6. CASE Set1
  <2>1. p1' \in Counting
    BY <1>6, SettimeType DEF Set1
  <2> QED
    BY <1>6, <2>1 DEF Set1
<1>7. CASE Set2
  <2>1. p2' \in Counting
    BY <1>7, SettimeType DEF Set2
  <2> QED
    BY <1>7, <2>1, ConstTypes DEF Set2
<1>8. CASE HandleP1
  BY <1>8, ClearedCounts DEF HandleP1
<1>9. CASE HandleP2
  BY <1>9, ClearedCounts DEF HandleP2
<1>10. CASE Elapse
  <2>1. p1' \in Counting /\ p2' \in Counting
    BY <1>10, ElapsedCounts DEF Elapse
  <2>2. lag' \in 0..MaxLag
    BY <1>10, ConstTypes DEF Elapse
  <2> QED
    BY <1>10, <2>1, <2>2 DEF Elapse
<1>11. CASE Expire1
  BY <1>11, ExpiredCounts DEF Expire1
<1>12. CASE Expire2
  BY <1>12, ExpiredCounts DEF Expire2
<1>13. CASE UNCHANGED vars
  BY <1>13 DEF vars
<1> QED
  BY <1>1, <1>2, <1>3, <1>4, <1>5, <1>6, <1>7, <1>8, <1>9, <1>10, <1>11, <1>12, <1>13
  DEF Next

\* Once a timer was given no time one of them is off, from one update to the next: it
\* is off at rest, is read as 0, and the 0 comes back in val.  A negative period makes
\* timerfd_settime refuse everything, and the timers stay as they are.
Frozen ==
  spent =>
    /\ pc \in {"idle", "get1"} \/ period_ns < 0 => ~p1.armed \/ ~p2.armed
    /\ pc = "get2" /\ period_ns >= 0 => cur = 0 \/ ~p2.armed
    /\ pc = "set1" /\ period_ns >= 0 => val[1] = 0 \/ val[2] = 0
    /\ pc = "set2" /\ period_ns >= 0 => ~p1.armed \/ val[2] = 0

\* Steps that only change timers at rest: what was off stays off.
LEMMA FrozenTimers ==
  ASSUME Frozen, UNCHANGED <<period_ns, pc, cur, val, spent>>,
         p1'.armed => p1.armed, p2'.armed => p2.armed
  PROVE  Frozen'
BY DEF Frozen

LEMMA FrozenStep ==
  ASSUME Typed, Frozen, [Next]_vars
  PROVE  Frozen'
<1>1. ASSUME NEW p \in Int, NEW d \in Int, Update(p, d)
      PROVE  Frozen'
  BY <1>1 DEF Update, Frozen
<1>2. CASE IncreaseTimerPeriod
  BY <1>1, <1>2, ScaledInt DEF IncreaseTimerPeriod, Typed
<1>3. CASE DecreaseTimerPeriod
  BY <1>1, <1>3, ScaledInt DEF DecreaseTimerPeriod, Typed
<1>4. CASE ResetTimerPeriod
  BY <1>1, <1>4, ConstTypes DEF ResetTimerPeriod, Typed
<1>5. CASE Get1
  <2>1. /\ pc = "get1" /\ pc' = "get2" /\ cur' = p1.rem
        /\ UNCHANGED <<period_ns, p1, p2, val>>
    BY <1>5 DEF Get1, Remaining
  <2>2. spent' => spent \/ (period_ns >= 0 /\ p1.rem = 0)
    BY <1>5, Zenon DEF Get1, Spent, Remaining
  <2>3. p1.armed \/ p1.rem = 0
    BY DEF Typed, Counting
  <2> QED
    BY <2>1, <2>2, <2>3 DEF Frozen, Typed
<1>6. CASE Get2
  <2>1. /\ pc = "get2" /\ pc' = "set1" /\ UNCHANGED <<period_ns, p1, p2>>
        /\ val' = Rephased(cur, p2.rem, period_ns, duty_ns)
    BY <1>6 DEF Get2, Remaining
  <2>2. spent' => spent \/ (period_ns >= 0 /\ p2.rem = 0)
    BY <1>6, Zenon DEF Get2, Spent, Remaining
  <2>3. /\ p2.rem \in Nat /\ cur \in Nat /\ period_ns \in Int /\ duty_ns \in Int
        /\ p2.armed \/ p2.rem = 0
    BY DEF Typed, Counting, Timer
  <2>4. cur = 0 \/ p2.rem = 0 => val'[1] = 0 \/ val'[2] = 0
    BY <2>1, <2>3, RephasedInt
  <2> QED
    BY <2>1, <2>2, <2>3, <2>4 DEF Frozen
<1>7. CASE Set1
  <2>1. /\ pc = "set1" /\ pc' = "set2" /\ UNCHANGED <<period_ns, p2, val, spent>>
        /\ p1' = Settime(p1, val[1], period_ns)
    BY <1>7 DEF Set1
  <2>2. /\ period_ns >= 0 /\ val[1] = 0 => ~p1'.armed
        /\ period_ns < 0 => p1' = p1
    BY <2>1, SettimeOff DEF Typed
  <2> QED
    BY <2>1, <2>2 DEF Frozen, Typed
<1>8. CASE Set2
  <2>1. /\ pc = "set2" /\ pc' = "idle" /\ UNCHANGED <<period_ns, p1, val, spent>>
        /\ p2' = Settime(p2, val[2], period_ns)
    BY <1>8 DEF Set2
  <2>2. /\ period_ns >= 0 /\ val[2] = 0 => ~p2'.armed
        /\ period_ns < 0 => p2' = p2
    BY <2>1, SettimeOff DEF Typed
  <2> QED
    BY <2>1, <2>2 DEF Frozen, Typed
<1>9. CASE HandleP1
  BY <1>9, FrozenTimers, ClearedCounts DEF HandleP1, Typed
<1>10. CASE HandleP2
  BY <1>10, FrozenTimers, ClearedCounts DEF HandleP2, Typed
<1>11. CASE Elapse
  BY <1>11, FrozenTimers, ElapsedCounts DEF Elapse, Typed
<1>12. CASE Expire1
  BY <1>12, FrozenTimers DEF Expire1, Due
<1>13. CASE Expire2
  BY <1>13, FrozenTimers DEF Expire2, Due
<1>14. CASE UNCHANGED vars
  BY <1>14 DEF vars, Frozen
<1> QED
  BY <1>2, <1>3, <1>4, <1>5, <1>6, <1>7, <1>8, <1>9, <1>10, <1>11, <1>12, <1>13, <1>14
  DEF Next

\* How far p1 has got since it was restarted, up to lag units ago: it counts down
\* from val[1], or has expired once and counts down from the period.
Drifted(r) ==
  \/ val[1] - lag <= r /\ r <= val[1]
  \/ val[1] <= lag /\ val[1] + period_ns - lag <= r /\ r <= period_ns

\* The wave as the LED sees it: WaveAccurate at rest.
Close(r1, r2) == IF r1 < r2 THEN Near(r2 - r1, period_ns - duty_ns) ELSE Near(r1 - r2, duty_ns)

\* Until then a sound shape makes the timers run, whatever ran before: what is read
\* of them only has to be positive, since the phases of an update owe nothing to
\* those before it.
Running ==
  ~spent =>
    /\ pc = "get2" /\ period_ns >= 0 => 1 <= cur
    /\ pc \in {"set1", "set2"} /\ Sound => /\ 1 <= val[1] /\ 1 <= val[2]
                                           /\ Thick => Gap(val[1], val[2])
    /\ pc = "set2" /\ Sound => /\ p1.armed /\ p1.intv = period_ns
                               /\ Thick => Drifted(p1.rem)
    /\ pc = "idle" /\ Sound => /\ p1.armed /\ p1.intv = period_ns
                               /\ p2.armed /\ p2.intv = period_ns
                               /\ Thick => Close(p1.rem, p2.rem)

LEMMA ThickSound ==
  ASSUME Typed, Thick
  PROVE  Sound
BY ConstTypes DEF Typed, Thick, Sound

LEMMA RunningInit ==
  ASSUME Init
  PROVE  Running
<1>1. /\ pc = "set1" /\ val[1] = duty_ns /\ val[2] = period_ns
      /\ period_ns \in Int /\ duty_ns \in Int /\ MaxLag \in Nat
  BY ConstTypes DEF Init
<1>2. ~spent => ~(val[1] = 0) /\ ~(val[2] = 0)
  BY Zenon DEF Init
<1>3. Thick => Gap(val[1], val[2])
  BY <1>1 DEF Thick, Gap
<1> QED
  BY <1>1, <1>2, <1>3 DEF Running, Sound

\* New first expiries of two timers that have time left.
LEMMA RephasedGap ==
  ASSUME NEW r \in Nat, NEW q \in Nat, 1 <= r, 1 <= q, Typed, Sound
  PROVE  LET v == Rephased(r, q, period_ns, duty_ns)
         IN  1 <= v[1] /\ 1 <= v[2] /\ (Thick => Gap(v[1], v[2]))
<1>1. period_ns \in Int /\ duty_ns \in Int /\ MaxLag \in Nat
  BY ConstTypes DEF Typed
<1>2. CASE r < q
  <2>1. /\ Rephased(r, q, period_ns, duty_ns)[1] = r
        /\ Rephased(r, q, period_ns, duty_ns)[2] = r + (period_ns - duty_ns)
    BY <1>2 DEF Rephased
  <2> QED
    BY <1>1, <2>1 DEF Sound, Thick, Gap
<1>3. CASE ~(r < q)
  <2>1. /\ Rephased(r, q, period_ns, duty_ns)[1] = q + duty_ns
        /\ Rephased(r, q, period_ns, duty_ns)[2] = q
    BY <1>3 DEF Rephased
  <2> QED
    BY <1>1, <2>1 DEF Sound, Thick, Gap
<1> QED
  BY <1>2, <1>3

\* The distance between the timers when the second one is restarted.
LEMMA DriftClose ==
  ASSUME Typed, Thick, Gap(val[1], val[2]), Drifted(p1.rem), 1 <= val[1], 1 <= val[2]
  PROVE  Close(p1.rem, val[2])
<1>1. /\ val[1] \in Int /\ val[2] \in Int /\ p1.rem \in Nat
      /\ lag \in Nat /\ lag <= MaxLag /\ MaxLag \in Nat
      /\ duty_ns \in Int /\ period_ns \in Int
      /\ MaxLag < duty_ns /\ MaxLag < period_ns - duty_ns
  BY ConstTypes DEF Typed, Counting, Timer, Thick
<1>2. /\ IF val[1] < val[2] THEN val[2] - val[1] = period_ns - duty_ns
                            ELSE val[1] - val[2] = duty_ns
  BY DEF Gap
<1> QED
  BY <1>1, <1>2 DEF Drifted, Close, Near

\* One unit of time, during an update and at rest.
LEMMA RunningElapse ==
  ASSUME Typed, Running, Elapse
  PROVE  Running'
<1>1. /\ p1 \in Counting /\ p2 \in Counting /\ lag \in Nat /\ MaxLag \in Nat
      /\ ~Due(p1) /\ ~Due(p2) /\ p1.rem \in Nat /\ p2.rem \in Nat
      /\ val[1] \in Int /\ val[2] \in Int /\ period_ns \in Int /\ duty_ns \in Int
  BY ConstTypes DEF Typed, Counting, Timer, Elapse
<1>2. /\ p1'.armed = p1.armed /\ p1'.intv = p1.intv
      /\ p1.armed => 1 <= p1.rem /\ p1'.rem = p1.rem - 1
  BY <1>1, ElapsedCounts DEF Elapse
<1>3. /\ p2'.armed = p2.armed /\ p2'.intv = p2.intv
      /\ p2.armed => 1 <= p2.rem /\ p2'.rem = p2.rem - 1
  BY <1>1, ElapsedCounts DEF Elapse
<1>4. pc # "idle" => lag' = lag + 1
  BY DEF Elapse
<1>5. UNCHANGED <<period_ns, duty_ns, pc, cur, val, spent>>
  BY DEF Elapse
<1>6. ASSUME pc = "idle", p1.armed, p2.armed, Close(p1.rem, p2.rem)
      PROVE  Close(p1.rem, p2.rem)'
  <2>1. p1'.rem = p1.rem - 1 /\ p2'.rem = p2.rem - 1
    BY <1>2, <1>3, <1>6
  <2> QED
    BY <1>1, <1>5, <1>6, <2>1 DEF Close, Near
<1>7. ASSUME pc = "set2", p1.armed, Drifted(p1.rem)
      PROVE  Drifted(p1.rem)'
  <2>1. p1'.rem = p1.rem - 1 /\ lag' = lag + 1 /\ 1 <= p1.rem
    BY <1>2, <1>4, <1>7
  <2> QED
    BY <1>1, <1>5, <1>7, <2>1 DEF Drifted
<1> QED
  BY <1>2, <1>3, <1>5, <1>6, <1>7 DEF Running, Sound, Thick, Gap

\* p1 expires: at rest the wave goes on, during an update it does so once.
LEMMA RunningExpire1 ==
  ASSUME Typed, Running, Expire1
  PROVE  Running'
<1>1. /\ p1 \in Counting /\ p2 \in Counting /\ p1.armed /\ p1.rem = 0 /\ p2.rem \in Nat
      /\ lag \in Nat /\ MaxLag \in Nat /\ lag <= MaxLag
      /\ val[1] \in Int /\ val[2] \in Int /\ period_ns \in Int /\ duty_ns \in Int
  BY ConstTypes DEF Typed, Counting, Timer, Expire1, Due
<1>2. /\ p1'.intv = p1.intv /\ p1'.rem = p1.intv
      /\ p1.intv > 0 => p1'.armed
  BY ExpiredCounts DEF Expire1, Expired, Typed
<1>3. UNCHANGED <<period_ns, duty_ns, p2, pc, cur, val, lag, spent>>
  BY DEF Expire1
<1>4. ASSUME p1.intv = period_ns, Thick, Close(p1.rem, p2.rem)
      PROVE  Close(p1.rem, p2.rem)'
  <2>1. p1'.rem = period_ns /\ p2' = p2 /\ Close(0, p2.rem)
    BY <1>1, <1>2, <1>3, <1>4
  <2> QED
    BY <1>1, <1>3, <1>4, <2>1 DEF Close, Near, Thick
<1>5. ASSUME p1.intv = period_ns, Thick, Drifted(p1.rem)
      PROVE  Drifted(p1.rem)'
  <2>1. p1'.rem = period_ns /\ Drifted(0)
    BY <1>1, <1>2, <1>5
  <2> QED
    BY <1>1, <1>3, <1>5, <2>1 DEF Drifted, Thick
<1> QED
  BY <1>1, <1>2, <1>3, <1>4, <1>5 DEF Running, Sound, Thick, Gap

LEMMA RunningExpire2 ==
  ASSUME Typed, Running, Expire2
  PROVE  Running'
<1>1. /\ p1 \in Counting /\ p2 \in Counting /\ p2.armed /\ p2.rem = 0 /\ p1.rem \in Nat
      /\ MaxLag \in Nat /\ period_ns \in Int /\ duty_ns \in Int
  BY ConstTypes DEF Typed, Counting, Timer, Expire2, Due
<1>2. /\ p2'.intv = p2.intv /\ p2'.rem = p2.intv
      /\ p2.intv > 0 => p2'.armed
  BY ExpiredCounts DEF Expire2, Expired, Typed
<1>3. UNCHANGED <<period_ns, duty_ns, p1, pc, cur, val, lag, spent>>
  BY DEF Expire2
<1>4. ASSUME p2.intv = period_ns, Thick, Close(p1.rem, p2.rem)
      PROVE  Close(p1.rem, p2.rem)'
  <2>1. p2'.rem = period_ns /\ p1' = p1 /\ Close(p1.rem, 0)
    BY <1>1, <1>2, <1>3, <1>4
  <2> QED
    BY <1>1, <1>3, <1>4, <2>1 DEF Close, Near, Thick
<1> QED
  BY <1>1, <1>2, <1>3, <1>4 DEF Running, Sound, Thick, Gap, Drifted

LEMMA RunningStep ==
  ASSUME Typed, Running, [Next]_vars
  PROVE  Running'
<1>1. ASSUME NEW p \in Int, NEW d \in Int, Update(p, d)
      PROVE  Running'
  BY <1>1 DEF Update, Running
<1>2. CASE IncreaseTimerPeriod
  BY <1>1, <1>2, ScaledInt DEF IncreaseTimerPeriod, Typed
<1>3. CASE DecreaseTimerPeriod
  BY <1>1, <1>3, ScaledInt DEF DecreaseTimerPeriod, Typed
<1>4. CASE ResetTimerPeriod
  BY <1>1, <1>4, ConstTypes DEF ResetTimerPeriod, Typed
<1>5. CASE Get1
  <2>1. pc' = "get2" /\ cur' = p1.rem /\ period_ns' = period_ns /\ p1.rem \in Nat
    BY <1>5 DEF Get1, Remaining, Typed, Counting, Timer
  <2>2. ~spent' /\ period_ns >= 0 => ~(p1.rem = 0)
    BY <1>5, Zenon DEF Get1, Spent, Remaining
  <2> QED
    BY <2>1, <2>2 DEF Running
<1>6. CASE Get2
  <2>1. /\ pc = "get2" /\ pc' = "set1" /\ UNCHANGED <<period_ns, duty_ns>>
        /\ val' = Rephased(cur, p2.rem, period_ns, duty_ns)
        /\ p2.rem \in Nat /\ cur \in Nat
    BY <1>6 DEF Get2, Remaining, Typed, Counting, Timer
  <2>2. ~spent' => ~spent /\ (period_ns >= 0 => ~(p2.rem = 0))
    BY <1>6, Zenon DEF Get2, Spent, Remaining
  <2>3. ASSUME ~spent', Sound
        PROVE  1 <= val'[1] /\ 1 <= val'[2] /\ (Thick => Gap(val'[1], val'[2]))
    <3>1. period_ns >= 0
      BY <2>3 DEF Sound, Typed
    <3>2. 1 <= cur /\ 1 <= p2.rem
      BY <2>1, <2>2, <2>3, <3>1 DEF Running
    <3> QED
      BY <2>1, <2>3, <3>2, RephasedGap
  <2> QED
    BY <2>1, <2>3 DEF Running, Sound, Thick, Gap
<1>7. CASE Set1
  <2>1. /\ pc = "set1" /\ pc' = "set2" /\ UNCHANGED <<period_ns, duty_ns, val, lag, spent>>
        /\ p1' = Settime(p1, val[1], period_ns) /\ val[1] \in Int /\ period_ns \in Int
        /\ lag \in Nat
    BY <1>7, ConstTypes DEF Set1, Typed
  <2>2. ASSUME ~spent, Sound
        PROVE  /\ p1'.armed /\ p1'.intv = period_ns /\ p1'.rem = val[1]
    <3>1. 1 <= val[1] /\ val[1] \in Nat /\ period_ns \in Nat
      BY <2>1, <2>2 DEF Running, Sound
    <3> QED
      BY <2>1, <3>1, SettimeArms
  <2>3. ASSUME ~spent, Sound
        PROVE  Drifted(p1.rem)'
    BY <2>1, <2>2, <2>3 DEF Drifted
  <2> QED
    BY <2>1, <2>2, <2>3 DEF Running, Sound, Thick, Gap
<1>8. CASE Set2
  <2>1. /\ pc = "set2" /\ pc' = "idle" /\ UNCHANGED <<period_ns, duty_ns, p1, spent>>
        /\ p2' = Settime(p2, val[2], period_ns) /\ val[2] \in Int /\ period_ns \in Int
    BY <1>8 DEF Set2, Typed
  <2>2. ASSUME ~spent, Sound
        PROVE  /\ p2'.armed /\ p2'.intv = period_ns /\ p2'.rem = val[2]
    <3>1. 1 <= val[2] /\ val[2] \in Nat /\ period_ns \in Nat
      BY <2>1, <2>2 DEF Running, Sound
    <3> QED
      BY <2>1, <3>1, SettimeArms
  <2>3. ASSUME ~spent, Sound, Thick
        PROVE  Close(p1.rem, p2.rem)'
    <3>1. Close(p1.rem, val[2])
      BY <2>1, <2>3, DriftClose DEF Running
    <3> QED
      BY <2>1, <2>2, <2>3, <3>1 DEF Close
  <2> QED
    BY <2>1, <2>2, <2>3 DEF Running, Sound, Thick
<1>9. CASE HandleP1
  BY <1>9, ClearedCounts DEF HandleP1, Typed, Running, Sound, Thick, Close
<1>10. CASE HandleP2
  BY <1>10, ClearedCounts DEF HandleP2, Typed, Running, Sound, Thick, Close
<1>11. CASE UNCHANGED vars
  BY <1>11 DEF vars, Running, Sound, Thick, Gap, Close, Drifted
<1> QED
  BY <1>2, <1>3, <1>4, <1>5, <1>6, <1>7, <1>8, <1>9, <1>10, <1>11,
     RunningElapse, RunningExpire1, RunningExpire2 DEF Next

\* The inductive invariant.
LagInv == Typed /\ Frozen /\ Running

LEMMA LagInvariant == Spec => []LagInv
<1>1. ASSUME Init
      PROVE  LagInv
  <2>1. Typed /\ Running
    BY <1>1, TypedInit, RunningInit
  <2>2. ~p1.armed /\ pc = "set1"
    BY <1>1 DEF Init, Created
  <2>3. spent => val[1] = 0 \/ val[2] = 0
    BY <1>1, Zenon DEF Init
  <2> QED
    BY <2>1, <2>2, <2>3 DEF Frozen, LagInv
<1>2. LagInv /\ [Next]_vars => LagInv'
  BY TypedStep, FrozenStep, RunningStep DEF LagInv
<1> QED
  BY <1>1, <1>2, PTL DEF Spec

\* The LED freezes only after an update found a timer with no time left, and then for
\* ever: for all constants, with interrupts and updates of any delay, through period 0
\* and overflow (timer.c:96-117, 177-186).
THEOREM StaysArmed == Spec => []BlinkArmed
<1>1. LagInv => BlinkArmed
  BY DEF LagInv, Frozen, Running, BlinkArmed
<1> QED
  BY <1>1, LagInvariant, PTL

\* After every update the phases of a running LED last duty_ns and period_ns - duty_ns
\* to within the time the update took, whatever came before (update_timers_value and
\* start_timers).
THEOREM WaveKept == Spec => []WaveAccurate
<1>1. ASSUME LagInv, pc = "idle", p1.armed, p2.armed, Thick
      PROVE  Close(p1.rem, p2.rem)
  <2>1. ~spent
    BY <1>1 DEF LagInv, Frozen
  <2>2. Sound
    BY <1>1, ThickSound DEF LagInv
  <2> QED
    BY <1>1, <2>1, <2>2 DEF LagInv, Running
<1>2. LagInv => WaveAccurate
  BY <1>1 DEF WaveAccurate, Close
<1> QED
  BY <1>2, LagInvariant, PTL

\* No period or duty below 0 while button steps keep the phases above it.
Bounded == MinPhase <= duty_ns /\ MinPhase <= period_ns - duty_ns /\ val \in Nat \X Nat

LEMMA BoundedStep ==
  ASSUME MinPhase >= 1, Typed, Bounded, [Next]_vars
  PROVE  Bounded'
<1>1. MinPhase \in Nat
  BY TimerMathAssumption
<1>2. ASSUME NEW p \in Int, NEW d \in Int, Update(p, d)
      PROVE  Bounded'
  BY <1>1, <1>2 DEF Update, InRange, Bounded
<1>3. CASE IncreaseTimerPeriod
  BY <1>2, <1>3, ScaledInt DEF IncreaseTimerPeriod, Typed
<1>4. CASE DecreaseTimerPeriod
  BY <1>2, <1>4, ScaledInt DEF DecreaseTimerPeriod, Typed
<1>5. CASE ResetTimerPeriod
  BY <1>2, <1>5, ConstTypes DEF ResetTimerPeriod, Typed
<1>6. CASE Get2
  <2>1. /\ cur \in Nat /\ p2.rem \in Nat /\ period_ns \in Int /\ duty_ns \in Int
        /\ 1 <= duty_ns /\ 1 <= period_ns - duty_ns
    BY <1>1 DEF Typed, Counting, Timer, Bounded
  <2>2. Rephased(cur, p2.rem, period_ns, duty_ns) \in Nat \X Nat
    BY <2>1 DEF Rephased
  <2> QED
    BY <1>6, <2>2 DEF Get2, Remaining, Bounded
<1>7. CASE UNCHANGED <<period_ns, duty_ns, val>>
  BY <1>7 DEF Bounded
<1> QED
  BY <1>3, <1>4, <1>5, <1>6, <1>7
  DEF Next, Get1, Set1, Set2, HandleP1, HandleP2, Elapse, Expire1, Expire2, vars

\* led is a truth value, whatever else goes on.
LEMMA LedType ==
  ASSUME led \in BOOLEAN, [Next]_vars
  PROVE  led' \in BOOLEAN
BY DEF Next, IncreaseTimerPeriod, DecreaseTimerPeriod, ResetTimerPeriod, Update, Get1, Get2,
       Set1, Set2, HandleP1, HandleP2, Elapse, Expire1, Expire2, vars

\* The variables keep their types: in particular no first expiry handed to
\* timerfd_settime (timer.c:180-185) is negative, as long as no button step is allowed
\* to shrink a phase to nothing (the bound MinPhase of the model).
THEOREM TypeCorrect ==
  ASSUME MinPhase >= 1
  PROVE  Spec => []TypeOK
<1>1. Init => Bounded /\ led \in BOOLEAN
  <2>1. ASSUME Init
        PROVE  Bounded
    <3>1. /\ period_ns \in Int /\ duty_ns \in Int /\ InRange(period_ns, duty_ns)
          /\ MinPhase \in Nat
      BY TimerMathAssumption, BlinkTimersAssumption, ScaledInt, <2>1 DEF Init
    <3>2. /\ MinPhase <= duty_ns /\ MinPhase <= period_ns - duty_ns
      BY <3>1 DEF InRange
    <3>3. val \in Nat \X Nat
      BY <2>1, <3>1, <3>2 DEF Init
    <3> QED
      BY <3>2, <3>3 DEF Bounded
  <2> QED
    BY <2>1 DEF Init
<1>2. Typed /\ Bounded /\ led \in BOOLEAN /\ [Next]_vars => (Bounded /\ led \in BOOLEAN)'
  BY BoundedStep, LedType
<1>3. LagInv => Typed
  BY DEF LagInv
<1>4. Typed /\ Bounded /\ led \in BOOLEAN => TypeOK
  BY TimerMathAssumption DEF Typed, Bounded, Counting, TypeOK
<1> QED
  BY <1>1, <1>2, <1>3, <1>4, LagInvariant, PTL DEF Spec

-----------------------------------------------------------------------------
(* The driver implements SquareWave *)

LEMMA ShapeOf ==
  ASSUME NEW p \in Nat, NEW d \in Nat, 1 <= d, 1 <= p - d
  PROVE  Wave!Shape(p, d)
BY DEF Wave!Shape

\* A step that leaves the two countdowns alone stutters or changes the shape.
LEMMA WaveChange ==
  ASSUME Smooth, SmoothInv, SmoothInv',
         NextEdge' = NextEdge, NextLeft' = NextLeft
  PROVE  Wave!Next
<1>1. /\ period_ns' \in Nat /\ duty_ns' \in Nat
      /\ 1 <= duty_ns' /\ 1 <= period_ns' - duty_ns'
  BY DEF SmoothInv, TypeOK, Gap, Due
<1>2. Wave!Shape(period_ns', duty_ns')
  BY <1>1, ShapeOf
<1> QED
  BY <1>2 DEF Wave!Next, Wave!Change

LEMMA WaveStep ==
  ASSUME Smooth, SmoothInv, SmoothInv', [Next]_vars
  PROVE  [Wave!Next]_(Wave!waveVars)
<1> USE DEF SmoothInv, TypeOK
<1>1. CASE IncreaseTimerPeriod \/ DecreaseTimerPeriod \/ ResetTimerPeriod
  <2>1. pc = "idle" /\ pc' = "get1" /\ p1' = p1 /\ p2' = p2
    BY <1>1 DEF IncreaseTimerPeriod, DecreaseTimerPeriod, ResetTimerPeriod, Update
  <2> QED
    BY <2>1, WaveChange DEF Left1, Left2, NextEdge, NextLeft
<1>2. CASE Get1
  BY <1>2, WaveChange DEF Get1, Left1, Left2, NextEdge, NextLeft
<1>3. CASE Get2
  <2>1. /\ pc = "get2" /\ pc' = "set1" /\ cur = p1.rem
        /\ val' = Rephased(p1.rem, p2.rem, period_ns, duty_ns)
    BY <1>3 DEF Get2, Remaining
  <2>2. p1.rem \in Nat /\ p2.rem \in Nat
    BY DEF Timer
  <2>3. IF p1.rem < p2.rem THEN val'[1] = p1.rem /\ val'[1] < val'[2]
                           ELSE val'[2] = p2.rem /\ ~(val'[1] < val'[2])
    BY <2>1, <2>2 DEF Rephased
  <2> QED
    BY <2>1, <2>2, <2>3, WaveChange DEF Left1, Left2, NextEdge, NextLeft
<1>4. CASE Set1
  BY <1>4, WaveChange DEF Set1, Left1, Left2, NextEdge, NextLeft
<1>5. CASE Set2
  <2>1. /\ pc = "set2" /\ pc' = "idle" /\ p1' = p1 /\ val' = val
        /\ p2' = Settime(p2, val[2], period_ns) /\ p1.rem = val[1]
    BY <1>5 DEF Set2
  <2>2. p2'.rem = val[2]
    BY <2>1, SettimeArms
  <2> QED
    BY <2>1, <2>2, WaveChange DEF Left1, Left2, NextEdge, NextLeft
<1>6. CASE HandleP1
  BY <1>6, WaveChange DEF HandleP1, Cleared, Left1, Left2, NextEdge, NextLeft, Timer
<1>7. CASE HandleP2
  BY <1>7, WaveChange DEF HandleP2, Cleared, Left1, Left2, NextEdge, NextLeft, Timer
<1>8. CASE Elapse
  <2>1. /\ pc = "idle" /\ pc' = "idle" /\ period_ns' = period_ns /\ duty_ns' = duty_ns
        /\ p1.armed /\ p2.armed /\ p1.rem \in Nat /\ p2.rem \in Nat
    BY <1>8 DEF Elapse, Smooth, Timer
  <2>2. /\ p1'.rem = p1.rem - 1 /\ p2'.rem = p2.rem - 1
        /\ 1 <= p1.rem /\ 1 <= p2.rem
    BY <1>8, <2>1 DEF Elapse, Elapsed, Due, Timer
  <2> QED
    BY <2>1, <2>2 DEF Left1, Left2, NextEdge, NextLeft, Wave!Next, Wave!Elapse
<1>9. CASE Expire1
  <2>1. /\ pc = "idle" /\ pc' = "idle" /\ period_ns' = period_ns /\ duty_ns' = duty_ns
        /\ p1.rem = 0 /\ p1.intv = period_ns /\ p2' = p2
        /\ p2.rem \in Nat /\ Gap(p1.rem, p2.rem)
    BY <1>9 DEF Expire1, Due, Timer
  <2>2. p1'.rem = period_ns
    BY <1>9, <2>1, ExpiredReloads DEF Expire1
  <2> QED
    BY <2>1, <2>2 DEF Left1, Left2, NextEdge, NextLeft, Gap, Wave!Next, Wave!Toggle
<1>10. CASE Expire2
  <2>1. /\ pc = "idle" /\ pc' = "idle" /\ period_ns' = period_ns /\ duty_ns' = duty_ns
        /\ p2.rem = 0 /\ p2.intv = period_ns /\ p1' = p1
        /\ p1.rem \in Nat /\ Gap(p1.rem, p2.rem)
    BY <1>10 DEF Expire2, Due, Timer
  <2>2. p2'.rem = period_ns
    BY <1>10, <2>1, ExpiredReloads DEF Expire2
  <2> QED
    BY <2>1, <2>2 DEF Left1, Left2, NextEdge, NextLeft, Gap, Wave!Next, Wave!Toggle
<1>11. CASE UNCHANGED vars
  BY <1>11 DEF vars, Left1, Left2, NextEdge, NextLeft, Wave!waveVars
<1> QED
  BY <1>1, <1>2, <1>3, <1>4, <1>5, <1>6, <1>7, <1>8, <1>9, <1>10, <1>11 DEF Next

LEMMA WaveInit ==
  ASSUME Smooth, Init
  PROVE  Wave!Init
<1>1. SmoothInv
  BY SmoothInit
<1> QED
  BY <1>1 DEF Init, SmoothInv, TypeOK, Left1, Left2, NextEdge, NextLeft, Wave!Init, Wave!Shape

\* Button steps change the shape of the wave and never move its next edge.
THEOREM DriverImplementsWave ==
  ASSUME Smooth
  PROVE  Spec => ImplementsWave
<1>1. Init => Wave!Init
  BY WaveInit
<1>2. SmoothInv /\ SmoothInv' /\ [Next]_vars => [Wave!Next]_(Wave!waveVars)
  BY WaveStep
<1> QED
  BY <1>1, <1>2, SmoothInvariant, PTL DEF Spec, ImplementsWave, Wave!Spec
=============================================================================
