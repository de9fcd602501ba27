-------------------------- MODULE ProgramProofs --------------------------
(***************************************************************************)
(* What TLAPS proves of the programs that run by themselves.               *)
(***************************************************************************)
EXTENDS ProcessProofs, TextProofs

-----------------------------------------------------------------------------
(* The polling LED *)

InLoop == at \in {"clock", "test", "write"}

LedTyped ==
  /\ period \in Nat
  /\ at \in {"unexport", "export", "config", "start", "clock", "test", "write"}
  /\ k \in {0, 1} /\ lit \in BOOLEAN /\ ready \in BOOLEAN /\ onset \in BOOLEAN
  /\ delta \in Int /\ since \in Int /\ age \in Int /\ gap \in 0..MaxGap

\* The LED shows the phase, except between the test that ends a phase and the write.
ShowsPhase ==
  ready => /\ at \in {"clock", "test"} => (lit <=> k = 0)
           /\ at = "write" => (lit <=> k = 1)

\* The phase of the LED as it is, not as k says.
LitPhase == IF at = "write" THEN (IF k = 1 THEN Silly!P1 ELSE Silly!P2) ELSE Silly!Phase

\* t1 is the reading that ended the last phase, the LED was changed at most MaxGap
\* after it, or at most MaxGap before it if the phase is the first (since - age); and
\* the loop has looked at the clock at most gap ago.  In "clock" that look found the
\* phase unfinished; in "test" it has one round more.
Clocked ==
  /\ at \in {"clock", "test"} => /\ 0 <= since - age + Silly!Slack
                                 /\ since - age + Silly!Slack <= MaxGap
  /\ at = "clock" => age - gap <= Silly!Phase + Silly!Slack
  /\ at = "test" => since = delta + gap /\ age - gap <= Silly!Phase + MaxGap + Silly!Slack
  /\ at = "write" => /\ since = gap
                     /\ age - gap <= LitPhase + MaxGap + Silly!Slack
                     /\ age - gap >= LitPhase - MaxGap + Silly!Slack

\* Between the first write and the first reading of the clock.
Starting == k = 0 /\ (lit <=> ready) /\ since = 0 /\ age = gap /\ onset

PhaseInv ==
  /\ LedTyped
  /\ InLoop => ShowsPhase /\ Clocked
  /\ at = "start" => Starting
  /\ ~InLoop /\ at # "start" => k = 0 /\ ~ready /\ onset /\ since = 0

\* The two phases make up the period.
LEMMA PhasesNatural == ASSUME period \in Nat PROVE Silly!P1 \in Nat /\ Silly!P2 \in Nat
<1> DEFINE q == period \div 100
<1>1. q \in Nat /\ 100 * q <= period
  OBVIOUS
<1>2. Silly!P1 = q * 2 /\ Silly!P2 = period - q * 2
  BY DEF Silly!P1, Silly!P2
<1> HIDE DEF q
<1> QED
  BY <1>1, <1>2

LEMMA PhaseInit == Silly!SillyLedAssumption /\ Silly!Init => PhaseInv
<1> SUFFICES ASSUME Silly!SillyLedAssumption, Silly!Init
             PROVE  PhaseInv
  OBVIOUS
<1>1. at = "unexport" /\ period \in Nat /\ MaxGap \in Nat
  BY DEF Silly!Init, Silly!SillyLedAssumption
<1>2. k = 0 /\ delta = 0 /\ since = 0 /\ age = 0 /\ gap = 0 /\ onset
  BY DEF Silly!Init
<1>3. lit \in BOOLEAN /\ ready \in BOOLEAN /\ ~ready
  BY DEF Silly!Init
<1> QED
  BY <1>1, <1>2, <1>3 DEF PhaseInv, LedTyped, InLoop

\* Up to the loop only the pin changes; Configure lights the LED, StartClock sets t1.
LEMMA OpenLedKeeps ==
  ASSUME Silly!SillyLedAssumption, PhaseInv,
         Silly!Unexport \/ Silly!Export \/ Silly!Configure \/ Silly!StartClock
  PROVE  PhaseInv'
<1>1. CASE Silly!Unexport \/ Silly!Export
  <2>1. ~InLoop /\ ~InLoop' /\ at # "start" /\ at' # "start"
    BY <1>1 DEF Silly!Unexport, Silly!Export, InLoop
  <2>2. /\ at' \in {"export", "config"}
        /\ UNCHANGED <<period, ready, k, delta, since, lit, age, gap, onset>>
    BY <1>1 DEF Silly!Unexport, Silly!Export
  <2> QED
    BY <2>1, <2>2 DEF PhaseInv, LedTyped
<1>2. CASE Silly!Configure
  <2>1. /\ at' = "start" /\ age' = 0 /\ gap' = 0 /\ since' = 0 /\ since = 0
        /\ period' = period /\ k' = 0 /\ delta' = delta /\ k = 0 /\ onset /\ onset' = onset
    BY <1>2 DEF Silly!Configure, PhaseInv, InLoop
  <2>2. lit' \in BOOLEAN /\ ready' \in BOOLEAN /\ (lit' <=> ready')
    BY <1>2 DEF Silly!Configure
  <2>3. period \in Nat /\ delta \in Int /\ MaxGap \in Nat
    BY DEF PhaseInv, LedTyped, Silly!SillyLedAssumption
  <2> QED
    BY <2>1, <2>2, <2>3 DEF PhaseInv, LedTyped, InLoop, Starting
<1>3. CASE Silly!StartClock
  <2>1. /\ at = "start" /\ at' = "clock" /\ since' = 0 /\ gap' = 0
        /\ UNCHANGED <<period, ready, k, delta, lit, age, onset>>
    BY <1>3 DEF Silly!StartClock
  <2>2. LedTyped /\ Starting /\ MaxGap \in Nat
    BY <2>1 DEF PhaseInv, Silly!SillyLedAssumption
  <2>3. LedTyped' /\ InLoop'
    BY <2>1, <2>2 DEF LedTyped, InLoop
  <2>4. ShowsPhase'
    BY <2>1, <2>2 DEF ShowsPhase, Starting
  <2>5. Silly!Phase' = Silly!P1 /\ Silly!P1 \in Nat
    BY <2>1, <2>2, PhasesNatural DEF Silly!Phase, Silly!P1, LedTyped, Starting
  <2>6. Silly!Slack' = MaxGap /\ age' \in 0..MaxGap /\ at' = "clock"
    BY <2>1, <2>2 DEF Silly!Slack, Starting, LedTyped
  <2>7. Clocked'
    BY <2>1, <2>2, <2>5, <2>6 DEF Clocked
  <2> QED
    BY <2>1, <2>3, <2>4, <2>7 DEF PhaseInv
<1> QED
  BY <1>1, <1>2, <1>3

\* Time between the first write and the first reading of the clock.
LEMMA StartingKeeps ==
  ASSUME Silly!SillyLedAssumption, PhaseInv, at = "start", Silly!Tick
  PROVE  PhaseInv'
<1>1. /\ age' = age + 1 /\ gap' = gap + 1 /\ gap < MaxGap /\ since' = since
      /\ UNCHANGED <<period, at, ready, k, delta, lit, onset>>
  BY DEF Silly!Tick
<1>2. MaxGap \in Nat /\ LedTyped /\ Starting
  BY DEF PhaseInv, Silly!SillyLedAssumption
<1>3. LedTyped'
  BY <1>1, <1>2 DEF LedTyped
<1>4. Starting'
  BY <1>1, <1>2 DEF Starting, LedTyped
<1> QED
  BY <1>1, <1>3, <1>4 DEF PhaseInv, InLoop

\* The loop, and time.  P1 and P2 do not change.
LEMMA LoopKeeps ==
  ASSUME Silly!SillyLedAssumption, PhaseInv, at # "start",
         Silly!ReadClock \/ Silly!Test \/ Silly!WriteLed \/ Silly!Tick
  PROVE  PhaseInv'
<1>1. InLoop /\ LedTyped /\ ShowsPhase /\ Clocked /\ MaxGap \in Nat
  BY DEF Silly!ReadClock, Silly!Test, Silly!WriteLed, Silly!Tick, InLoop, PhaseInv,
     Silly!SillyLedAssumption
<1>2. Silly!P1 \in Nat /\ Silly!P2 \in Nat /\ Silly!P1' = Silly!P1 /\ Silly!P2' = Silly!P2
  BY <1>1, PhasesNatural DEF LedTyped, Silly!P1, Silly!P2, Silly!ReadClock, Silly!Test,
     Silly!WriteLed, Silly!Tick
<1>2a. Silly!Slack \in Nat /\ Silly!Slack <= MaxGap
  BY <1>1 DEF Silly!Slack
<1>3. InLoop'
  BY <1>1 DEF Silly!ReadClock, Silly!Test, Silly!WriteLed, Silly!Tick, InLoop
<1> SUFFICES LedTyped' /\ ShowsPhase' /\ Clocked'
  BY <1>3 DEF PhaseInv, InLoop
<1> HIDE DEF Silly!P1, Silly!P2
<1>4. CASE Silly!ReadClock
  <2>1. LedTyped' /\ ShowsPhase'
    BY <1>1, <1>4 DEF Silly!ReadClock, LedTyped, ShowsPhase
  <2>1a. Silly!Slack' = Silly!Slack
    BY <1>4 DEF Silly!ReadClock, Silly!Slack
  <2>2. Clocked'
    BY <1>1, <1>2, <1>4, <1>2a, <2>1a DEF Silly!ReadClock, LedTyped, Clocked, Silly!Phase
  <2> QED
    BY <2>1, <2>2
<1>5. CASE Silly!Test /\ delta >= Silly!Phase
  <2>1. /\ at = "test" /\ at' = "write" /\ k' = (k + 1) % 2 /\ since' = since - delta
        /\ UNCHANGED <<period, pin, ready, delta, lit, age, gap, onset>>
    BY <1>5 DEF Silly!Test
  <2>2. k' \in {0, 1} /\ (k' = 1 <=> k = 0)
    BY <1>1, <2>1 DEF LedTyped
  <2>3. LitPhase' = Silly!Phase /\ Silly!Phase \in Nat
    BY <1>1, <1>2, <2>1, <2>2 DEF LedTyped, LitPhase, Silly!Phase
  <2>4. LedTyped'
    BY <1>1, <2>1, <2>2 DEF LedTyped
  <2>5. ShowsPhase'
    BY <1>1, <2>1, <2>2 DEF ShowsPhase
  <2>6. Clocked'
    <3>1. Silly!Slack' = Silly!Slack
      BY <2>1 DEF Silly!Slack
    <3> QED
      BY <1>1, <1>5, <1>2a, <2>1, <2>3, <3>1 DEF LedTyped, Clocked
  <2> QED
    BY <2>4, <2>5, <2>6
<1>6. CASE Silly!Test /\ ~(delta >= Silly!Phase)
  <2>1. /\ at = "test" /\ at' = "clock" /\ UNCHANGED <<k, since>>
        /\ UNCHANGED <<period, pin, ready, delta, lit, age, gap, onset>>
    BY <1>6 DEF Silly!Test
  <2>2. Silly!Phase' = Silly!Phase /\ Silly!Phase \in Nat
    BY <1>1, <1>2, <2>1 DEF LedTyped, Silly!Phase
  <2>3. LedTyped' /\ ShowsPhase'
    BY <1>1, <2>1 DEF LedTyped, ShowsPhase
  <2>4. Clocked'
    <3>1. Silly!Slack' = Silly!Slack
      BY <2>1 DEF Silly!Slack
    <3> QED
      BY <1>1, <1>6, <1>2a, <2>1, <2>2, <3>1 DEF LedTyped, Clocked
  <2> QED
    BY <2>3, <2>4
<1>7. CASE Silly!WriteLed
  <2>1. /\ at = "write" /\ at' = "clock" /\ age' = 0 /\ gap' = 0 /\ ~onset' /\ onset' \in BOOLEAN
        /\ UNCHANGED <<period, pin, ready, k, delta, since>>
    BY <1>7 DEF Silly!WriteLed
  <2>2. lit' = IF ready THEN k = 0 ELSE lit
    BY <1>7 DEF Silly!WriteLed
  <2>3. lit' \in BOOLEAN /\ (ready => (lit' <=> k = 0))
    BY <1>1, <2>2 DEF LedTyped
  <2>4. LedTyped' /\ ShowsPhase'
    BY <1>1, <2>1, <2>3 DEF LedTyped, ShowsPhase
  <2>5. Silly!Phase' \in Nat
    BY <1>2, <2>1 DEF Silly!Phase
  <2>6. Clocked'
    <3>1. Silly!Slack' = 0
      BY <2>1 DEF Silly!Slack
    <3>2. since' = gap /\ gap \in 0..MaxGap
      BY <1>1, <2>1 DEF LedTyped, Clocked
    <3>3. 0 <= since' - age' + Silly!Slack' /\ since' - age' + Silly!Slack' <= MaxGap
      BY <1>1, <2>1, <3>1, <3>2
    <3>4. age' - gap' <= Silly!Phase' + Silly!Slack'
      <4>1. \A x \in Nat : 0 - 0 <= x + 0
        OBVIOUS
      <4>2. age' = 0 /\ gap' = 0
        BY <2>1
      <4> QED
        BY <2>5, <3>1, <4>1, <4>2, Zenon
    <3> QED
      BY <2>1, <3>3, <3>4 DEF Clocked
  <2> QED
    BY <2>4, <2>6
<1>8. CASE Silly!Tick
  <2>1. /\ since' = since + 1 /\ age' = age + 1 /\ gap' = gap + 1 /\ gap < MaxGap
        /\ UNCHANGED <<period, pin, at, ready, k, delta, lit, onset>>
    BY <1>8 DEF Silly!Tick
  <2>2. LedTyped' /\ ShowsPhase'
    BY <1>1, <2>1 DEF LedTyped, ShowsPhase
  <2>3. Silly!Phase' = Silly!Phase /\ LitPhase' = LitPhase /\ Silly!Phase \in Nat /\ LitPhase \in Nat
    BY <1>2, <2>1 DEF Silly!Phase, LitPhase
  <2>4. Clocked'
    <3>1. Silly!Slack' = Silly!Slack
      BY <2>1 DEF Silly!Slack
    <3> QED
      BY <1>1, <1>2a, <2>1, <2>3, <3>1 DEF LedTyped, Clocked
  <2> QED
    BY <2>2, <2>4
<1> QED
  BY <1>4, <1>5, <1>6, <1>7, <1>8

LEMMA PhaseStep == Silly!SillyLedAssumption /\ PhaseInv /\ [Silly!Next]_(Silly!svars) => PhaseInv'
<1>1. PhaseInv /\ UNCHANGED Silly!svars => PhaseInv'
  BY DEF PhaseInv, LedTyped, InLoop, ShowsPhase, Clocked, Starting, LitPhase, Silly!Slack,
     Silly!Phase, Silly!P1, Silly!P2, Silly!svars
<1>2. Silly!ReadClock \/ Silly!Test \/ Silly!WriteLed => at # "start"
  BY DEF Silly!ReadClock, Silly!Test, Silly!WriteLed
<1> QED
  BY <1>1, <1>2, OpenLedKeeps, StartingKeeps, LoopKeeps DEF Silly!Next, Silly!Loop

\* Only the write ends a phase of a LED that is there.
LEMMA PhaseEnds ==
  ASSUME Silly!SillyLedAssumption, PhaseInv, Silly!Next, lit' # lit, ready
  PROVE  /\ age >= (IF lit THEN Silly!P1 ELSE Silly!P2) - MaxGap + Silly!Slack
         /\ age <= (IF lit THEN Silly!P1 ELSE Silly!P2) + 2 * MaxGap + Silly!Slack
<1>1. Silly!WriteLed
  <2>1. InLoop \/ at = "start"
    BY DEF PhaseInv
  <2> QED
    BY <2>1 DEF Silly!StartClock, Silly!Next, Silly!Loop, Silly!Unexport, Silly!Export, Silly!Configure,
       Silly!ReadClock, Silly!Test, Silly!Tick, InLoop
<1>2. at = "write" /\ LedTyped /\ ShowsPhase /\ Clocked /\ MaxGap \in Nat
  BY <1>1 DEF Silly!WriteLed, PhaseInv, InLoop, Silly!SillyLedAssumption
<1>3. lit <=> k = 1
  BY <1>2 DEF ShowsPhase
<1>4. Silly!P1 \in Nat /\ Silly!P2 \in Nat
  BY <1>2, PhasesNatural DEF LedTyped
<1>5. LitPhase = (IF lit THEN Silly!P1 ELSE Silly!P2) /\ LitPhase \in Nat
  BY <1>2, <1>3, <1>4 DEF LitPhase
<1>6. /\ age - gap <= LitPhase + MaxGap + Silly!Slack
      /\ age - gap >= LitPhase - MaxGap + Silly!Slack
      /\ age \in Int /\ gap \in 0..MaxGap /\ Silly!Slack \in Nat
  BY <1>2 DEF LedTyped, Clocked, Silly!Slack
<1>7. age >= LitPhase - MaxGap + Silly!Slack /\ age <= LitPhase + 2 * MaxGap + Silly!Slack
  <2>1. \A x, n, s \in Nat, a \in Int : \A g \in 0..n :
          a - g <= x + n + s /\ a - g >= x - n + s => a >= x - n + s /\ a <= x + 2 * n + s
    OBVIOUS
  <2>2. LitPhase \in Nat /\ MaxGap \in Nat
    BY <1>2, <1>5
  <2> QED
    BY <1>6, <2>1, <2>2
<1> QED
  BY <1>5, <1>7

LEMMA SillySteps == [Next]_vars => [Silly!Next]_(Silly!svars)
  BY DEF Next, vars, sillyVars, Silly!svars

\* However the process is scheduled, each phase of the LED has its length to within
\* the delays of one round of the loop, and the first one to within that and the delay
\* of the first reading of the clock, for every period: the error does not add up.
THEOREM PhasesHold == Spec => PhaseLength
<1>1. Init => PhaseInv
  BY PhaseInit, ProgramsAssumption DEF Init
<1>2. PhaseInv /\ [Next]_vars => PhaseInv'
  BY PhaseStep, SillySteps, ProgramsAssumption
<1>3. PhaseInv /\ [Next]_vars =>
        [lit' # lit /\ ready =>
           /\ age >= (IF lit THEN Silly!P1 ELSE Silly!P2) - MaxGap + Silly!Slack
           /\ age <= (IF lit THEN Silly!P1 ELSE Silly!P2) + 2 * MaxGap + Silly!Slack]_(Silly!svars)
  BY PhaseEnds, SillySteps, ProgramsAssumption DEF Silly!svars
<1> QED
  BY <1>1, <1>2, <1>3, PTL DEF Spec, PhaseLength, Silly!PhaseLength

-----------------------------------------------------------------------------
(* The memory cgroup program *)

\* What the loops have done: the blocks below index are held while the first loop
\* runs, those from index up to h while the second does; h is where malloc failed.
Allocating ==
  /\ charged = index
  /\ \A b \in Mem!Blocks : pmem[b] = "held" <=> b < index \/ (b = index /\ doing = "memset")
  /\ doing = "memset" => index < NbrBlocks
  /\ doing = "group" => index = 0

Freeing(h) ==
  /\ \A b \in Mem!Blocks : pmem[b] = "held" <=> index <= b /\ b < h
  /\ \A b \in Mem!Blocks : pmem[b] = "unset" => h <= b
  /\ charged = IF index < h THEN h - index ELSE 0
  /\ h < NbrBlocks => denied

MemInv ==
  /\ Mem!TypeOK
  /\ doing \in {"group", "malloc", "memset"} => Allocating
  /\ doing = "free" => \E h \in 0..NbrBlocks : Freeing(h)
  /\ Mem!FreedAll

LEMMA MemSteps == [Next]_vars => [Mem!Next]_(Mem!mvars)
  BY DEF Next, vars, memVars, Mem!mvars

LEMMA MemInit == Init => MemInv
<1> SUFFICES ASSUME Init
             PROVE  MemInv
  OBVIOUS
<1>1. Mem!Init /\ NbrBlocks \in Nat \ {0}
  BY ProgramsAssumption DEF Init, Mem!MemGroupAssumption
<1> QED
  BY <1>1 DEF Mem!Init, MemInv, Allocating, Mem!TypeOK, Mem!FreedAll, Mem!Blocks

LEMMA MemKept == MemInv /\ [Next]_vars => MemInv'
<1> SUFFICES ASSUME MemInv, [Mem!Next]_(Mem!mvars)
             PROVE  MemInv'
  BY MemSteps
<1>1. NbrBlocks \in Nat \ {0}
  BY ProgramsAssumption DEF Mem!MemGroupAssumption
<1> USE <1>1 DEF MemInv, Mem!TypeOK, Mem!FreedAll, Mem!Blocks
<1>2. CASE Mem!Enter
  BY <1>2 DEF Mem!Enter, Allocating
<1>3. CASE Mem!Malloc
  <2>1. CASE doing' = "memset"
    BY <1>3, <2>1 DEF Mem!Malloc, Allocating
  <2>2. CASE doing' = "free"
    <3>1. PICK h \in 0..NbrBlocks : h = index
      OBVIOUS
    <3>2. Freeing(h)'
      BY <1>3, <2>2, <3>1 DEF Mem!Malloc, Allocating, Freeing
    <3> QED
      BY <1>3, <2>2, <3>1, <3>2 DEF Mem!Malloc
  <2> QED
    BY <1>3, <2>1, <2>2 DEF Mem!Malloc
<1>4. CASE Mem!Memset
  BY <1>4 DEF Mem!Memset, Allocating
<1>5. CASE Mem!AllMalloced
  <2>1. Freeing(NbrBlocks)'
    BY <1>5 DEF Mem!AllMalloced, Allocating, Freeing
  <2> QED
    BY <1>5, <2>1 DEF Mem!AllMalloced
<1>6. CASE Mem!Free
  <2>1. PICK h \in 0..NbrBlocks : Freeing(h)
    BY <1>6 DEF Mem!Free
  <2>2. CASE doing' = "free"
    <3>1. Freeing(h)'
      BY <1>6, <2>1, <2>2 DEF Mem!Free, Freeing
    <3> QED
      BY <1>6, <2>2, <3>1 DEF Mem!Free
  <2>3. CASE doing' = "abort"
    <3>1. pmem[index] = "unset" /\ h < NbrBlocks
      BY <1>6, <2>1, <2>3 DEF Mem!Free, Freeing
    <3> QED
      BY <1>6, <2>1, <2>3, <3>1 DEF Mem!Free, Freeing
  <2> QED
    BY <1>6, <2>2, <2>3 DEF Mem!Free
<1>7. CASE Mem!AllFreed
  <2>1. PICK h \in 0..NbrBlocks : Freeing(h)
    BY <1>7 DEF Mem!AllFreed
  <2> QED
    BY <1>7, <2>1 DEF Mem!AllFreed, Freeing
<1>8. CASE UNCHANGED Mem!mvars
  BY <1>8 DEF Mem!mvars, Allocating, Freeing
<1> QED
  BY <1>2, <1>3, <1>4, <1>5, <1>6, <1>7, <1>8 DEF Mem!Next

\* For any number of blocks and any limit: a process that ends has freed every block
\* it got, wherever malloc failed, and free meets a pointer that was never set only
\* after a failed malloc (05_system/exercice02/main.c:60-88).
THEOREM AllBlocksFreed == Spec => []FreedAll
<1>1. MemInv => FreedAll
  BY DEF MemInv, FreedAll
<1> QED
  BY MemInit, MemKept, <1>1, PTL DEF Spec

-----------------------------------------------------------------------------
(* The cpuset program *)

\* Where each process can be.
Stages ==
  /\ stage["main"] \in {"setup", "fork1", "fork2", "ended"}
  /\ stage["c1"] \in {"absent", "joinHigh", "pi1", "fork2", "ended"}
  /\ \A x \in {"c2", "c12"} : stage[x] \in {"absent", "joinLow", "pi2", "ended"}

\* Who is forked when: nobody before the groups are set up, and the child of the first
\* child not before that one has left its block.
Forked ==
  /\ stage["main"] \in {"setup", "fork1"} => stage["c1"] = "absent"
  /\ stage["main"] # "ended" => stage["c2"] = "absent"
  /\ stage["c1"] # "ended" => stage["c12"] = "absent"

BothSetUp == configured = {"high", "low"}

\* Who computes has joined its group, if it was given processors.
Joined ==
  BothSetUp =>
    /\ stage["c1"] = "pi1" => group["c1"] = "high"
    /\ \A x \in {"c2", "c12"} : stage[x] = "pi2" => group[x] = "low"

CpuInv == Cpu!TypeOK /\ Stages /\ Forked /\ Joined

LEMMA CpuSteps == [Next]_vars => [Cpu!Next]_(Cpu!gvars)
  BY DEF Next, vars, cpuVars, Cpu!gvars

LEMMA CpuInit == Init => CpuInv
<1> SUFFICES ASSUME Cpu!Init
             PROVE  CpuInv
  BY DEF Init
<1> USE DEF Cpu!Init, Cpu!Processes
<1>1. Cpu!TypeOK
  BY DEF Cpu!TypeOK
<1>2. Stages /\ Forked /\ Joined
  BY DEF Stages, Forked, Joined
<1> QED
  BY <1>1, <1>2 DEF CpuInv

\* Whom a fork of main and of the first child creates.
LEMMA Children ==
  /\ Cpu!ForkedBy["fork1"]["main"] = "c1" /\ Cpu!ForkedBy["fork2"]["main"] = "c2"
  /\ Cpu!ForkedBy["fork2"]["c1"] = "c12"
  BY DEF Cpu!ForkedBy

LEMMA CpuKept == CpuInv /\ [Next]_vars => CpuInv'
<1> SUFFICES ASSUME CpuInv, [Cpu!Next]_(Cpu!gvars)
             PROVE  CpuInv'
  BY CpuSteps
<1> USE DEF CpuInv, Cpu!TypeOK, Cpu!Processes, Stages, Forked, Joined
<1>1. CASE Cpu!Setup
  BY <1>1 DEF Cpu!Setup
<1>2. ASSUME configured' = configured
      PROVE  BothSetUp' <=> BothSetUp
  BY <1>2 DEF BothSetUp
<1>3. CASE Cpu!Fork1
  <2>1. /\ stage["main"] = "fork1" /\ configured' = configured
        /\ \/ /\ stage' = [stage EXCEPT !["main"] = "fork2", !["c1"] = "joinHigh"]
              /\ group' = [group EXCEPT !["c1"] = group["main"]]
           \/ stage' = [stage EXCEPT !["main"] = "fork2"] /\ group' = group
    BY <1>3, Children DEF Cpu!Fork1, Cpu!Fork
  <2> QED
    BY <1>2, <2>1
<1>4. ASSUME NEW x \in Cpu!Processes, Cpu!Fork2(x)
      PROVE  CpuInv'
  <2>1. CASE x = "main"
    <3>1. /\ stage["main"] = "fork2" /\ configured' = configured
          /\ \/ /\ stage' = [stage EXCEPT !["main"] = "ended", !["c2"] = "joinLow"]
                /\ group' = [group EXCEPT !["c2"] = group["main"]]
             \/ stage' = [stage EXCEPT !["main"] = "ended"] /\ group' = group
      BY <1>4, <2>1, Children DEF Cpu!Fork2, Cpu!Fork
    <3> QED
      BY <1>2, <3>1
  <2>2. CASE x = "c1"
    <3>1. /\ stage["c1"] = "fork2" /\ configured' = configured
          /\ \/ /\ stage' = [stage EXCEPT !["c1"] = "ended", !["c12"] = "joinLow"]
                /\ group' = [group EXCEPT !["c12"] = group["c1"]]
             \/ stage' = [stage EXCEPT !["c1"] = "ended"] /\ group' = group
      BY <1>4, <2>2, Children DEF Cpu!Fork2, Cpu!Fork
    <3> QED
      BY <1>2, <3>1
  <2>3. x \in {"main", "c1"}
    BY <1>4 DEF Cpu!Fork2, Cpu!Fork
  <2> QED
    BY <2>1, <2>2, <2>3
<1>5. ASSUME NEW x \in Cpu!Processes, Cpu!Join1(x)
      PROVE  CpuInv'
  <2>1. BothSetUp => "high" \in configured
    BY DEF BothSetUp
  <2> QED
    BY <1>2, <1>5, <2>1 DEF Cpu!Join1, Cpu!Join
<1>6. ASSUME NEW x \in Cpu!Processes, Cpu!Join2(x)
      PROVE  CpuInv'
  <2>1. BothSetUp => "low" \in configured
    BY DEF BothSetUp
  <2> QED
    BY <1>2, <1>6, <2>1 DEF Cpu!Join2, Cpu!Join
<1>7. ASSUME NEW x \in Cpu!Processes, Cpu!Pi1(x) \/ Cpu!Pi2(x)
      PROVE  CpuInv'
  <2>1. CASE Cpu!Pi1(x)
    BY <1>2, <2>1 DEF Cpu!Pi1
  <2>2. CASE Cpu!Pi2(x)
    BY <1>2, <2>2 DEF Cpu!Pi2
  <2> QED
    BY <1>7, <2>1, <2>2
<1>8. CASE UNCHANGED Cpu!gvars
  BY <1>2, <1>8 DEF Cpu!gvars
<1> QED
  BY <1>1, <1>3, <1>4, <1>5, <1>6, <1>7, <1>8 DEF Cpu!Next, Cpu!Step

LEMMA CpuImplies == CpuInv => GroupsApart
<1> SUFFICES ASSUME CpuInv, BothSetUp
             PROVE  /\ Cpu!Alone("high") /\ Cpu!Computing("root") = {}
                    /\ ~Cpu!Alone("low") => Cpu!Computing("high") = {}
  BY Zenon DEF GroupsApart, Cpu!GroupsApart, BothSetUp
<1>1. /\ \A x \in Cpu!Computing("high") : x = "c1" /\ stage["c1"] = "pi1"
      /\ \A x \in Cpu!Computing("root") : FALSE
      /\ \A x \in Cpu!Computing("low") : x = "c2" \/ (x = "c12" /\ stage["c12"] = "pi2")
  BY DEF CpuInv, Stages, Joined, Cpu!Computing, Cpu!Processes
<1>2. Cpu!Alone("high") /\ Cpu!Computing("root") = {}
  BY <1>1 DEF Cpu!Alone
<1>3. ASSUME Cpu!Computing("high") # {}
      PROVE  Cpu!Alone("low")
  <2>1. stage["c1"] = "pi1"
    BY <1>1, <1>3
  <2>2. \A x \in Cpu!Computing("low") : x = "c2"
    BY <1>1, <2>1 DEF CpuInv, Forked
  <2> QED
    BY <2>2 DEF Cpu!Alone
<1> QED
  BY <1>2, <1>3

\* When both groups were set up, whatever is forked by whom: "high" computes one thing
\* at a time, nothing is computed outside, and "low" shares its processor only when
\* "high" has ended (05_system/exercice03/main.c:89-133).
THEOREM GroupsStayApart == Spec => []GroupsApart
  BY CpuInit, CpuKept, CpuImplies, PTL DEF Spec

-----------------------------------------------------------------------------
(* The start of the smart program *)

\* The number of each call of init_app.
Place ==
  [unexport  |-> [led |-> 1, k1 |-> 5, k2 |-> 6, k3 |-> 7],
   export    |-> [led |-> 2, k1 |-> 8, k2 |-> 9, k3 |-> 10],
   direction |-> [led |-> 3, k1 |-> 11, k2 |-> 12, k3 |-> 13],
   edge      |-> [k1 |-> 14, k2 |-> 15, k3 |-> 16],
   open      |-> [led |-> 4, k1 |-> 17, k2 |-> 18, k3 |-> 19],
   create    |-> [p1 |-> 20, p2 |-> 21, press |-> 22],
   epoll     |-> [epoll |-> 23],
   add       |-> [p1 |-> 24, p2 |-> 25, press |-> 26, k1 |-> 27, k2 |-> 28, k3 |-> 29]]

\* Whether init_app has made this call.
Made(op, x) == Place[op][x] < calls

\* init_app makes every call of Place, and makes it there.
LEMMA CallOf ==
  /\ \A n \in 1..29 : /\ Start!InitApp[n] = <<Start!InitApp[n][1], Start!InitApp[n][2]>>
                       /\ Start!InitApp[n][1] \in DOMAIN Place
                       /\ Start!InitApp[n][2] \in DOMAIN Place[Start!InitApp[n][1]]
                       /\ Place[Start!InitApp[n][1]][Start!InitApp[n][2]] = n
  /\ \A op \in DOMAIN Place : \A x \in DOMAIN Place[op] :
       Place[op][x] \in 1..29 /\ Start!InitApp[Place[op][x]] = <<op, x>>
<1> DEFINE app == Start!InitApp
           Is(m, op, x) == app[m] = <<op, x>> /\ op \in DOMAIN Place /\ x \in DOMAIN Place[op]
                             /\ Place[op][x] = m
<1>1. /\ Is(1, "unexport", "led") /\ Is(2, "export", "led")
      /\ Is(3, "direction", "led") /\ Is(4, "open", "led")
  BY DEF Start!InitApp, Start!OpenLed, Start!OpenButtons, Start!OnButtons, Start!InitTimers,
         Start!Register, Place
<1>2. /\ Is(5, "unexport", "k1") /\ Is(6, "unexport", "k2") /\ Is(7, "unexport", "k3")
      /\ Is(8, "export", "k1") /\ Is(9, "export", "k2") /\ Is(10, "export", "k3")
  BY DEF Start!InitApp, Start!OpenLed, Start!OpenButtons, Start!OnButtons, Start!InitTimers,
         Start!Register, Place
<1>3. /\ Is(11, "direction", "k1") /\ Is(12, "direction", "k2") /\ Is(13, "direction", "k3")
      /\ Is(14, "edge", "k1") /\ Is(15, "edge", "k2") /\ Is(16, "edge", "k3")
  BY DEF Start!InitApp, Start!OpenLed, Start!OpenButtons, Start!OnButtons, Start!InitTimers,
         Start!Register, Place
<1>4. /\ Is(17, "open", "k1") /\ Is(18, "open", "k2") /\ Is(19, "open", "k3")
      /\ Is(20, "create", "p1") /\ Is(21, "create", "p2") /\ Is(22, "create", "press")
  BY DEF Start!InitApp, Start!OpenLed, Start!OpenButtons, Start!OnButtons, Start!InitTimers,
         Start!Register, Place
<1>5. /\ Is(23, "epoll", "epoll") /\ Is(24, "add", "p1") /\ Is(25, "add", "p2")
      /\ Is(26, "add", "press") /\ Is(27, "add", "k1") /\ Is(28, "add", "k2")
      /\ Is(29, "add", "k3")
  BY DEF Start!InitApp, Start!OpenLed, Start!OpenButtons, Start!OnButtons, Start!InitTimers,
         Start!Register, Place
<1>6. ASSUME NEW n \in 1..29
      PROVE  /\ app[n] = <<app[n][1], app[n][2]>>
             /\ app[n][1] \in DOMAIN Place
             /\ app[n][2] \in DOMAIN Place[app[n][1]]
             /\ Place[app[n][1]][app[n][2]] = n
  <2>1. PICK op, x : Is(n, op, x)
    <3> HIDE DEF Is
    <3>1. n \in {1, 2, 3, 4, 5, 6, 7, 8, 9, 10, 11, 12, 13, 14, 15} \/ n \in {16, 17, 18, 19, 20,
                 21, 22, 23, 24, 25, 26, 27, 28, 29}
      OBVIOUS
    <3> QED
      BY <1>1, <1>2, <1>3, <1>4, <1>5, <3>1
  <2>2. app[n][1] = op /\ app[n][2] = x
    BY <2>1
  <2> QED
    BY <2>1, <2>2
<1>7. ASSUME NEW op \in DOMAIN Place, NEW x \in DOMAIN Place[op]
      PROVE  Place[op][x] \in 1..29 /\ app[Place[op][x]] = <<op, x>>
  <2> HIDE DEF app
  <2>1. CASE op \in {"unexport", "export", "direction", "edge"}
    BY <1>1, <1>2, <1>3, <2>1 DEF Place
  <2>2. CASE op \in {"open", "create", "epoll", "add"}
    BY <1>1, <1>4, <1>5, <2>2 DEF Place
  <2>3. op \in {"unexport", "export", "direction", "edge", "open", "create", "epoll", "add"}
    BY DEF Place
  <2> QED
    BY <2>1, <2>2, <2>3
<1> QED
  BY <1>6, <1>7

\* There are 29 of them, and the 23rd is epoll_create1.
LEMMA CallCount == Len(Start!InitApp) = 29 /\ Start!Epoll = 23
BY DEF Start!InitApp, Start!Epoll, Start!OpenLed, Start!OpenButtons, Start!OnButtons,
       Start!InitTimers, Start!Register

\* Which call comes before which.
LEMMA PlaceOrder ==
  /\ \A p \in Start!Pins :
       /\ Place["unexport"][p] \in 1..19 /\ Place["export"][p] \in 1..19
       /\ Place["direction"][p] \in 1..19 /\ Place["open"][p] \in 1..19
       /\ Place["unexport"][p] < Place["export"][p]
       /\ Place["export"][p] < Place["direction"][p]
       /\ Place["direction"][p] < Place["open"][p]
  /\ \A p \in Start!Buttons :
       /\ Place["edge"][p] \in 1..19 /\ Place["direction"][p] < Place["edge"][p]
       /\ Place["edge"][p] < Place["open"][p]
  /\ \A t \in Start!Timers : Place["create"][t] \in 20..22 /\ Place["add"][t] \in 24..29
  /\ \A p \in Start!Buttons : Place["add"][p] \in 24..29
  /\ Place["epoll"]["epoll"] = 23
BY DEF Place, Start!Pins, Start!Buttons, Start!Timers

\* The calls there are.
LEMMA CallKinds ==
  ASSUME NEW op \in DOMAIN Place, NEW x \in DOMAIN Place[op]
  PROVE  \/ op \in {"unexport", "export", "direction", "open"} /\ x \in Start!Pins
         \/ op = "edge" /\ x \in Start!Buttons
         \/ op = "create" /\ x \in Start!Timers
         \/ op = "epoll" /\ x = "epoll"
         \/ op = "add" /\ x \in Start!All
BY DEF Place, Start!Pins, Start!Buttons, Start!Timers, Start!All

\* What holds of a run that has not ended: what its calls have done, or that they failed.
Prepared ==
  /\ watched \subseteq Start!All
  /\ where # "close" => \A x \in Start!All : Made("add", x) => x \in watched
  /\ \A p \in Start!Pins : Made("export", p) =>
       pins[p] \in {"exported", "claimed"} \/ <<"export", p>> \in lost
  /\ \A p \in Start!Pins : Made("direction", p) =>
       direction[p] = Start!Direction(p) \/ pins[p] # "exported" \/ <<"direction", p>> \in lost
  /\ \A p \in Start!Buttons : Made("edge", p) =>
       detected[p] = Start!Edge(p) \/ pins[p] # "exported" \/ <<"edge", p>> \in lost
  /\ \A p \in Start!Pins : Made("open", p) =>
       p \in fds \/ pins[p] # "exported" \/ <<"open", p>> \in lost
  /\ \A p \in Start!Pins : p \in fds => Made("open", p) /\ pins[p] = "exported"
  /\ \A t \in Start!Timers : Made("create", t) => t \in fds \/ lost # {}

StartTyped ==
  /\ where \in {"init", "loop", "close", "exited", "killed"}
  /\ pins \in [Start!Pins -> {"free", "exported", "claimed"}]
  /\ direction \in [Start!Pins -> {"in", "out"}]
  /\ detected \in [Start!Pins -> {"none", "rising", "both"}]
  /\ \A p \in Start!Pins : detected[p] # "none" => pins[p] = "exported"
  /\ watched \subseteq fds /\ fds \subseteq Start!Pins \union Start!Timers
  /\ calls \in 1..30 /\ runs \in 1..MaxRuns /\ refused \in 0..MaxFailures

StartInv ==
  /\ StartTyped
  /\ where \in {"init", "loop", "close"} => Prepared
  /\ where = "loop" => calls = 30
  /\ where = "close" => calls > 23 /\ (watched = Start!All \/ lost # {}
                           \/ \E p \in Start!Buttons : pins[p] = "claimed")
  /\ where \in {"exited", "killed"} => calls = 1 /\ fds = {} /\ watched = {}
  /\ where = "exited" /\ pins["led"] = "exported" =>
       \E op \in {"open", "release"} : <<op, "led">> \in lost

\* In the first state of a run no call has been made.
LEMMA NothingMade ==
  ASSUME calls = 1
  PROVE  /\ \A p \in Start!Pins : /\ ~Made("export", p) /\ ~Made("direction", p)
                                  /\ ~Made("open", p)
         /\ \A p \in Start!Buttons : ~Made("edge", p)
         /\ \A t \in Start!Timers : ~Made("create", t)
         /\ \A x \in Start!All : ~Made("add", x)
BY PlaceOrder DEF Made, Start!All

LEMMA StartInit == Start!SmartStartAssumption /\ Start!Init => StartInv
<1> SUFFICES ASSUME Start!SmartStartAssumption, Start!Init
             PROVE  StartInv
  OBVIOUS
<1>1. /\ pins \in [Start!Pins -> {"free", "exported", "claimed"}]
      /\ direction = [p \in Start!Pins |-> "in"] /\ detected = [p \in Start!Pins |-> "none"]
      /\ fds = {} /\ watched = {} /\ calls = 1 /\ where = "init" /\ runs = 1 /\ refused = 0
      /\ MaxRuns \in Nat \ {0} /\ MaxFailures \in Nat
  BY DEF Start!Init, Start!SmartStartAssumption
<1>2. StartTyped
  BY <1>1 DEF StartTyped
<1>3. Prepared
  BY <1>1, NothingMade DEF Prepared
<1> QED
  BY <1>1, <1>2, <1>3 DEF StartInv

\* What a call that succeeds does.
LEMMA Effects ==
  ASSUME Start!Succeed, NEW op, NEW x, op = Start!Op, x = Start!Arg
  PROVE  \/ /\ op = "unexport" /\ pins[x] = "exported"
            /\ pins' = [pins EXCEPT ![x] = "free"] /\ detected' = [detected EXCEPT ![x] = "none"]
            /\ UNCHANGED <<direction, fds, watched>>
         \/ /\ op = "export" /\ pins[x] = "free" /\ pins' = [pins EXCEPT ![x] = "exported"]
            /\ UNCHANGED <<direction, detected, fds, watched>>
         \/ /\ op = "direction" /\ pins[x] = "exported"
            /\ direction' = [direction EXCEPT ![x] = Start!Direction(x)]
            /\ UNCHANGED <<pins, detected, fds, watched>>
         \/ /\ op = "edge" /\ pins[x] = "exported"
            /\ detected' = [detected EXCEPT ![x] = Start!Edge(x)]
            /\ UNCHANGED <<pins, direction, fds, watched>>
         \/ /\ op = "open" /\ pins[x] = "exported" /\ fds' = fds \union {x}
            /\ UNCHANGED <<pins, direction, detected, watched>>
         \/ /\ op = "create" /\ fds' = fds \union {x}
            /\ UNCHANGED <<pins, direction, detected, watched>>
         \/ /\ op = "add" /\ x \in fds /\ watched' = watched \union {x}
            /\ UNCHANGED <<pins, direction, detected, fds>>
         \/ /\ op \notin {"unexport", "export", "direction", "edge", "open", "create", "add"}
            /\ UNCHANGED <<pins, direction, detected, fds, watched>>
<1>1. CASE op = "unexport"
  BY <1>1 DEF Start!Succeed, Start!Possible
<1>2. CASE op = "export"
  BY <1>2 DEF Start!Succeed, Start!Possible
<1>3. CASE op = "direction"
  BY <1>3 DEF Start!Succeed, Start!Possible
<1>4. CASE op = "edge"
  BY <1>4 DEF Start!Succeed, Start!Possible
<1>5. CASE op = "open"
  BY <1>5 DEF Start!Succeed, Start!Possible
<1>6. CASE op = "create"
  BY <1>6 DEF Start!Succeed, Start!Possible
<1>7. CASE op = "add"
  BY <1>7 DEF Start!Succeed, Start!Possible
<1>8. CASE op \notin {"unexport", "export", "direction", "edge", "open", "create", "add"}
  BY <1>8 DEF Start!Succeed, Start!Possible
<1> QED
  BY <1>1, <1>2, <1>3, <1>4, <1>5, <1>6, <1>7, <1>8

\* The call that is made now, among the others.
LEMMA Now ==
  ASSUME StartTyped, Start!Initialising
  PROVE  /\ where = "init" /\ calls \in 1..29
         /\ Start!InitApp[calls] = <<Start!Op, Start!Arg>>
         /\ Start!Op \in DOMAIN Place /\ Start!Arg \in DOMAIN Place[Start!Op]
         /\ Place[Start!Op][Start!Arg] = calls
<1>1. where = "init" /\ calls \in 1..29
  BY CallCount DEF StartTyped, Start!Initialising
<1> QED
  BY <1>1, CallOf DEF Start!Op, Start!Arg

\* A call more has been made.
LEMMA OneMore ==
  ASSUME StartTyped, Start!Initialising, calls' = calls + 1,
         NEW op \in DOMAIN Place, NEW x \in DOMAIN Place[op]
  PROVE  Made(op, x)' => Made(op, x) \/ (Start!Op = op /\ Start!Arg = x)
<1> DEFINE n == Place[op][x]
<1>1. n \in 1..29 /\ Start!InitApp[n] = <<op, x>> /\ calls \in 1..29
  BY CallOf, Now
<1>2. Made(op, x)' => n < calls + 1
  BY DEF Made
<1>3. n < calls => Made(op, x)
  BY DEF Made
<1>4. n = calls => Start!Op = op /\ Start!Arg = x
  BY <1>1, Now
<1> HIDE DEF n
<1> QED
  BY <1>1, <1>2, <1>3, <1>4

\* The timers that are not created are skipped; no call for a pin is.
LEMMA Skipped ==
  ASSUME StartTyped, Start!Initialising, Start!Op = "create", calls' = 23,
         NEW op \in DOMAIN Place, NEW x \in DOMAIN Place[op]
  PROVE  Made(op, x)' => Made(op, x) \/ op = "create"
<1>1. calls \in 20..22
  BY Now, CallKinds, PlaceOrder
<1>2. Made(op, x)' => Place[op][x] < 23
  BY DEF Made
<1>3. op # "create" /\ Place[op][x] < 23 => Place[op][x] < 20 /\ Place[op][x] \in Nat
  BY CallKinds, PlaceOrder DEF Start!All
<1> QED
  BY <1>1, <1>2, <1>3 DEF Made

\* The names of the calls, for all of which Made is meant.
LEMMA Names ==
  /\ {"unexport", "export", "direction", "open", "edge", "create", "add"} \subseteq DOMAIN Place
  /\ \A op \in {"unexport", "export", "direction", "open"} : DOMAIN Place[op] = Start!Pins
  /\ DOMAIN Place["edge"] = Start!Buttons /\ DOMAIN Place["create"] = Start!Timers
  /\ DOMAIN Place["add"] = Start!All
BY DEF Place, Start!Pins, Start!Buttons, Start!Timers, Start!All

\* A call that succeeds keeps the types ...
LEMMA SucceedTyped == ASSUME StartTyped, Start!Succeed PROVE StartTyped'
<1> DEFINE op == Start!Op
           x == Start!Arg
<1>1. op \in DOMAIN Place /\ x \in DOMAIN Place[op] /\ calls \in 1..29
  BY Now DEF Start!Succeed
<1>2. where' = where /\ runs' = runs /\ refused' = refused /\ calls' = calls + 1
  BY DEF Start!Succeed
<1> HIDE DEF op, x
<1>3. \/ op \in {"unexport", "export", "direction", "open"} /\ x \in Start!Pins
      \/ op = "edge" /\ x \in Start!Buttons
      \/ op = "create" /\ x \in Start!Timers
      \/ op = "epoll" /\ x = "epoll"
      \/ op = "add" /\ x \in Start!All
  BY <1>1, CallKinds
<1>4. /\ pins' \in [Start!Pins -> {"free", "exported", "claimed"}]
      /\ direction' \in [Start!Pins -> {"in", "out"}]
      /\ detected' \in [Start!Pins -> {"none", "rising", "both"}]
      /\ \A p \in Start!Pins : detected'[p] # "none" => pins'[p] = "exported"
      /\ watched' \subseteq fds' /\ fds' \subseteq Start!Pins \union Start!Timers
  BY <1>3, Effects DEF op, x, StartTyped, Start!Direction, Start!Edge, Start!Pins
<1> QED
  BY <1>1, <1>2, <1>4 DEF StartTyped

\* ... and leaves behind what Prepared says.
LEMMA SucceedPrepares == ASSUME StartTyped, Prepared, Start!Succeed PROVE Prepared'
<1>1. PICK op, x :
        /\ op = Start!Op /\ x = Start!Arg
        /\ op \in DOMAIN Place /\ x \in DOMAIN Place[op] /\ calls \in 1..29
        /\ where = "init" /\ Place[op][x] = calls
  BY Now DEF Start!Succeed
<1>2. where' = where /\ lost' = lost /\ calls' = calls + 1
  BY DEF Start!Succeed
<1>3. \A o \in DOMAIN Place : \A y \in DOMAIN Place[o] :
        /\ Made(o, y)' => Made(o, y) \/ (op = o /\ x = y)
        /\ Made(o, y) => Made(o, y)'
        /\ Made(o, y) <=> Place[o][y] < calls
  <2> TAKE o \in DOMAIN Place
  <2> TAKE y \in DOMAIN Place[o]
  <2>1. Made(o, y)' => Made(o, y) \/ (op = o /\ x = y)
    BY <1>1, <1>2, OneMore DEF Start!Succeed
  <2>2. Place[o][y] \in 1..29
    BY CallOf
  <2>3. Made(o, y) => Made(o, y)'
    BY <1>1, <1>2, <2>2 DEF Made
  <2> QED
    BY <2>1, <2>3 DEF Made
<1>4. CASE op = "unexport"
  <2>1. /\ x \in Start!Pins /\ pins' = [pins EXCEPT ![x] = "free"]
        /\ detected' = [detected EXCEPT ![x] = "none"]
        /\ UNCHANGED <<direction, fds, watched>>
    BY <1>1, <1>4, CallKinds, Effects
  <2>2. ~Made("open", x)
    BY <1>1, <1>3, <1>4, <2>1, PlaceOrder, Names
  <2>3. pins' \in [Start!Pins -> {"free", "exported", "claimed"}] /\ pins'[x] = "free"
        /\ \A p \in Start!Pins : p # x => pins'[p] = pins[p] /\ detected'[p] = detected[p]
    BY <2>1 DEF StartTyped
  <2>4. \A p \in Start!Pins : Made("export", p)' =>
          pins'[p] \in {"exported", "claimed"} \/ <<"export", p>> \in lost'
    <3>1. ~Made("export", x)
      BY <1>1, <1>3, <1>4, <2>1, PlaceOrder, Names
    <3> QED
      BY <1>2, <1>3, <1>4, <2>3, <3>1, Names DEF Prepared
  <2>5. \A p \in Start!Buttons : p \in Start!Pins
    BY DEF Start!Pins
  <2>6. \A p \in Start!Pins : p \in fds' => Made("open", p)' /\ pins'[p] = "exported"
    BY <1>3, <2>1, <2>2, <2>3, Names DEF Prepared
  <2> QED
    BY <1>1, <1>2, <1>3, <1>4, <2>1, <2>3, <2>4, <2>5, <2>6, Names DEF Prepared
<1>5. CASE op = "export"
  <2>1. /\ x \in Start!Pins /\ pins[x] = "free" /\ pins' = [pins EXCEPT ![x] = "exported"]
        /\ UNCHANGED <<direction, detected, fds, watched>>
    BY <1>1, <1>5, CallKinds, Effects
  <2>2. ~Made("direction", x) /\ ~Made("open", x) /\ (x \in Start!Buttons => ~Made("edge", x))
    BY <1>1, <1>3, <1>5, <2>1, PlaceOrder, Names
  <2> QED
    BY <1>1, <1>2, <1>3, <1>5, <2>1, <2>2, Names DEF Prepared, StartTyped
<1>6. CASE op = "direction"
  <2>1. /\ x \in Start!Pins /\ direction' = [direction EXCEPT ![x] = Start!Direction(x)]
        /\ UNCHANGED <<pins, detected, fds, watched>>
    BY <1>1, <1>6, CallKinds, Effects
  <2> QED
    BY <1>1, <1>2, <1>3, <1>6, <2>1, Names DEF Prepared, StartTyped
<1>7. CASE op = "edge"
  <2>1. /\ x \in Start!Buttons /\ detected' = [detected EXCEPT ![x] = Start!Edge(x)]
        /\ UNCHANGED <<pins, direction, fds, watched>>
    BY <1>1, <1>7, CallKinds, Effects
  <2>2. Start!Buttons \subseteq Start!Pins
    BY DEF Start!Pins
  <2> QED
    BY <1>1, <1>2, <1>3, <1>7, <2>1, <2>2, Names DEF Prepared, StartTyped
<1>8. CASE op = "open"
  <2>1. /\ x \in Start!Pins /\ pins[x] = "exported" /\ fds' = fds \union {x}
        /\ UNCHANGED <<pins, direction, detected, watched>>
    BY <1>1, <1>8, CallKinds, Effects
  <2>2. Made("open", x)'
    BY <1>1, <1>2, <1>8 DEF Made
  <2> QED
    BY <1>1, <1>2, <1>3, <1>8, <2>1, <2>2, Names DEF Prepared, StartTyped
<1>9. CASE op = "create"
  <2>1. /\ x \in Start!Timers /\ fds' = fds \union {x}
        /\ UNCHANGED <<pins, direction, detected, watched>>
    BY <1>1, <1>9, CallKinds, Effects
  <2>2. x \notin Start!Pins
    BY <2>1 DEF Start!Timers, Start!Pins, Start!Buttons
  <2> QED
    BY <1>1, <1>2, <1>3, <1>9, <2>1, <2>2, Names DEF Prepared, StartTyped
<1>10. CASE op = "add"
  <2>1. /\ x \in Start!All /\ watched' = watched \union {x}
        /\ UNCHANGED <<pins, direction, detected, fds>>
    BY <1>1, <1>10, CallKinds, Effects
  <2> QED
    BY <1>1, <1>2, <1>3, <1>10, <2>1, Names DEF Prepared, StartTyped
<1>11. CASE op = "epoll"
  <2>1. UNCHANGED <<pins, direction, detected, fds, watched>>
    BY <1>1, <1>11, Effects
  <2> QED
    BY <1>1, <1>2, <1>3, <1>11, <2>1, Names DEF Prepared, StartTyped
<1> QED
  BY <1>1, <1>4, <1>5, <1>6, <1>7, <1>8, <1>9, <1>10, <1>11, CallKinds

\* A call that fails is not possible, or is noted; and it leaves what was there.
LEMMA FailPrepares ==
  ASSUME StartTyped, Prepared, Start!Fail
  PROVE  Prepared'
<1> DEFINE op == Start!Op
           x == Start!Arg
<1>1. /\ op \in DOMAIN Place /\ x \in DOMAIN Place[op] /\ calls \in 1..29
      /\ where = "init" /\ Start!InitApp[calls] = <<op, x>>
  BY Now DEF Start!Fail
<1>2. /\ UNCHANGED <<pins, direction, detected, fds, watched>>
      /\ where' = IF op \in {"epoll", "add"} THEN "close" ELSE "init"
      /\ calls' = IF op = "create" THEN 23 ELSE calls + 1
  BY CallCount DEF Start!Fail, Start!pins
<1>3. lost \subseteq lost' /\ (<<op, x>> \in lost' \/ ~Start!Possible)
  BY <1>1 DEF Start!Fail
<1>4. \A o \in DOMAIN Place : \A y \in DOMAIN Place[o] :
        /\ Made(o, y)' => Made(o, y) \/ (op = o /\ x = y) \/ (op = "create" /\ o = "create")
        /\ Made(o, y) => Made(o, y)'
  <2> TAKE o \in DOMAIN Place
  <2> TAKE y \in DOMAIN Place[o]
  <2>1. Place[o][y] \in 1..29 /\ Place[op][x] = calls
    BY CallOf, Now DEF Start!Fail
  <2>2. CASE op = "create"
    <3>1. calls' = 23 /\ calls \in 20..22
      BY <1>1, <1>2, <2>1, <2>2, CallKinds, PlaceOrder
    <3>2. Made(o, y)' => Made(o, y) \/ o = "create"
      BY <2>2, <3>1, Skipped DEF Start!Fail
    <3>3. Made(o, y) => Made(o, y)'
      BY <2>1, <3>1 DEF Made
    <3> QED
      BY <2>2, <3>2, <3>3
  <2>3. CASE op # "create"
    <3>1. calls' = calls + 1
      BY <1>2, <2>3
    <3>2. Made(o, y)' => Made(o, y) \/ (op = o /\ x = y)
      BY <3>1, OneMore DEF Start!Fail
    <3>3. Made(o, y) => Made(o, y)'
      BY <1>1, <2>1, <3>1 DEF Made
    <3> QED
      BY <3>2, <3>3
  <2> QED
    BY <2>2, <2>3
<1>5. /\ op = "export" => pins[x] # "free" \/ <<op, x>> \in lost'
      /\ op \in {"direction", "edge", "open"} => pins[x] # "exported" \/ <<op, x>> \in lost'
      /\ op = "create" => lost' # {}
  BY <1>3 DEF Start!Possible
<1> HIDE DEF op, x
<1>6. Start!Buttons \subseteq Start!Pins
  BY DEF Start!Pins
<1>7. watched' \subseteq Start!All
  BY <1>2 DEF Prepared
<1>8. where' # "close" => \A y \in Start!All : Made("add", y)' => y \in watched'
  BY <1>1, <1>2, <1>4, Names DEF Prepared
<1>9. \A p \in Start!Pins : Made("export", p)' =>
        pins'[p] \in {"exported", "claimed"} \/ <<"export", p>> \in lost'
  BY <1>2, <1>3, <1>4, <1>5, Names DEF Prepared, StartTyped
<1>10. \A p \in Start!Pins : Made("direction", p)' =>
         direction'[p] = Start!Direction(p) \/ pins'[p] # "exported" \/ <<"direction", p>> \in lost'
  BY <1>2, <1>3, <1>4, <1>5, Names DEF Prepared
<1>11. \A p \in Start!Buttons : Made("edge", p)' =>
         detected'[p] = Start!Edge(p) \/ pins'[p] # "exported" \/ <<"edge", p>> \in lost'
  BY <1>2, <1>3, <1>4, <1>5, <1>6, Names DEF Prepared
<1>12. \A p \in Start!Pins : Made("open", p)' =>
         p \in fds' \/ pins'[p] # "exported" \/ <<"open", p>> \in lost'
  BY <1>2, <1>3, <1>4, <1>5, Names DEF Prepared
<1>13. \A p \in Start!Pins : p \in fds' => Made("open", p)' /\ pins'[p] = "exported"
  BY <1>2, <1>4, Names DEF Prepared
<1>14. \A t \in Start!Timers : Made("create", t)' => t \in fds' \/ lost' # {}
  BY <1>2, <1>3, <1>4, <1>5, Names DEF Prepared
<1> QED
  BY <1>7, <1>8, <1>9, <1>10, <1>11, <1>12, <1>13, <1>14, <1>6 DEF Prepared, Start!Direction, Start!Edge

\* Why init_app fails: a descriptor is missing, or epoll was refused.
LEMMA FailCause ==
  ASSUME StartTyped, Prepared, Start!Fail, where' = "close"
  PROVE  calls' > 23 /\ (lost' # {} \/ \E p \in Start!Buttons : pins'[p] = "claimed")
<1> DEFINE op == Start!Op
           x == Start!Arg
<1>1. /\ op \in DOMAIN Place /\ x \in DOMAIN Place[op] /\ calls \in 1..29
      /\ Place[op][x] = calls
  BY Now DEF Start!Fail
<1>2. op \in {"epoll", "add"} /\ calls' = calls + 1 /\ pins' = pins
  BY DEF Start!Fail, Start!pins
<1>3. lost \subseteq lost' /\ (lost' # {} \/ (op = "add" /\ x \notin fds))
  BY <1>2 DEF Start!Fail, Start!Possible
<1> HIDE DEF op, x
<1>4. x \in Start!All \/ op = "epoll"
  BY <1>1, <1>2, CallKinds
<1>5. calls >= 23
  BY <1>1, <1>2, CallKinds, PlaceOrder DEF Start!All
<1>6. CASE x \in Start!Timers /\ x \notin fds
  <2>1. Made("create", x)
    BY <1>1, <1>5, <1>6, PlaceOrder DEF Made
  <2> QED
    BY <1>1, <1>2, <1>3, <1>5, <1>6, <2>1 DEF Prepared
<1>7. CASE x \in Start!Buttons /\ x \notin fds
  <2>1. x \in Start!Pins /\ Made("open", x) /\ Made("export", x)
    BY <1>1, <1>5, <1>7, PlaceOrder DEF Made, Start!Pins
  <2>2. pins[x] = "claimed" \/ lost # {}
    BY <1>7, <2>1 DEF Prepared
  <2> QED
    BY <1>1, <1>2, <1>3, <1>5, <1>7, <2>2
<1> QED
  BY <1>1, <1>2, <1>3, <1>4, <1>5, <1>6, <1>7 DEF Start!All

LEMMA FailTyped == ASSUME Start!SmartStartAssumption, StartTyped, Start!Fail PROVE StartTyped'
<1>1. calls \in 1..29 /\ MaxFailures \in Nat
  BY Now DEF Start!Fail, Start!SmartStartAssumption
<1>2. /\ UNCHANGED <<pins, direction, detected, fds, watched, runs>>
      /\ where' \in {"close", "init"}
      /\ (calls' = 23 \/ calls' = calls + 1)
  BY CallCount DEF Start!Fail, Start!pins
<1>3. refused' = refused \/ (refused' = refused + 1 /\ refused < MaxFailures)
  BY DEF Start!Fail
<1> QED
  BY <1>1, <1>2, <1>3 DEF StartTyped

\* When init_app is through, everything it should watch is watched; and the LED pin, if
\* it is not open, is not there or its call has failed.
LEMMA ThroughInit ==
  ASSUME StartTyped, Prepared, where # "close", calls = 30
  PROVE  watched = Start!All
<1>1. \A x \in Start!All : Made("add", x)
  BY PlaceOrder DEF Made, Start!All
<1> QED
  BY <1>1 DEF Prepared

\* The other steps of a run.
LEMMA EntersOrLeaves ==
  ASSUME Start!SmartStartAssumption, StartInv, Start!EnterLoop \/ Start!LeaveLoop
  PROVE  StartInv'
<1>1. UNCHANGED <<pins, direction, detected, fds, watched, calls, lost, runs>>
  BY DEF Start!EnterLoop, Start!LeaveLoop, Start!pins
<1>2. refused' \in 0..MaxFailures
  BY DEF Start!EnterLoop, Start!LeaveLoop, StartInv, StartTyped, Start!SmartStartAssumption
<1>3. where \in {"init", "loop"} /\ where' \in {"loop", "close"} /\ calls = 30
  BY CallCount DEF Start!EnterLoop, Start!LeaveLoop, StartInv, StartTyped
<1>4. watched = Start!All
  BY <1>3, ThroughInit DEF StartInv
<1>5. StartTyped'
  BY <1>1, <1>2, <1>3 DEF StartInv, StartTyped
<1>6. Prepared'
  BY <1>1, <1>3 DEF StartInv, Prepared, Made
<1> QED
  BY <1>1, <1>3, <1>4, <1>5, <1>6 DEF StartInv

\* The end of a run.
LEMMA LifeEndKeeps ==
  ASSUME Start!SmartStartAssumption, StartInv, Start!CloseLed \/ Start!Kill
  PROVE  StartInv'
<1>1. fds' = {} /\ watched' = {} /\ calls' = 1 /\ UNCHANGED <<direction, runs>>
  BY DEF Start!CloseLed, Start!Kill, Start!Ended, Start!pins
<1>2. /\ where' \in {"exited", "killed"}
      /\ refused' = refused \/ (refused < MaxFailures /\ refused' = refused + 1)
      /\ \/ UNCHANGED <<pins, detected>>
         \/ /\ pins' = [pins EXCEPT !["led"] = "free"]
            /\ detected' = [detected EXCEPT !["led"] = "none"]
  BY DEF Start!CloseLed, Start!Kill, Start!Ended, Start!pins
<1>3. "led" \in Start!Pins
  BY DEF Start!Pins
<1>4. refused' \in 0..MaxFailures
  BY <1>2 DEF StartInv, StartTyped, Start!SmartStartAssumption
<1>5. StartTyped'
  BY <1>1, <1>2, <1>3, <1>4 DEF StartInv, StartTyped
<1>6. ASSUME where' = "exited", pins'["led"] = "exported"
      PROVE  \E op \in {"open", "release"} : <<op, "led">> \in lost'
  <2>1. Start!CloseLed /\ where = "close"
    BY <1>6 DEF Start!CloseLed, Start!Kill, Start!Ended
  <2>2. CASE pins' = [pins EXCEPT !["led"] = "free"]
    BY <1>3, <1>6, <2>2 DEF StartInv, StartTyped
  <2>3. CASE "led" \notin fds /\ pins' = pins /\ lost' = lost
    <3>1. Made("open", "led")
      BY <1>3, <2>1, PlaceOrder DEF StartInv, StartTyped, Made
    <3>2. <<"open", "led">> \in lost
      BY <1>3, <1>6, <2>1, <2>3, <3>1 DEF StartInv, Prepared
    <3> QED
      BY <2>3, <3>2
  <2>4. CASE lost' = lost \union {<<"release", "led">>}
    BY <2>4
  <2> QED
    BY <2>1, <2>2, <2>3, <2>4 DEF Start!CloseLed
<1> QED
  BY <1>1, <1>2, <1>5, <1>6 DEF StartInv

\* The next run finds the pins as the last one has left them.
LEMMA RestartKeeps ==
  ASSUME Start!SmartStartAssumption, StartInv, Start!Restart
  PROVE  StartInv'
<1>1. /\ where \in {"exited", "killed"} /\ where' = "init" /\ lost' = {}
      /\ runs < MaxRuns /\ runs' = runs + 1
      /\ UNCHANGED <<pins, direction, detected, fds, watched, calls, refused>>
  BY DEF Start!Restart, Start!pins
<1>2. calls' = 1 /\ fds' = {} /\ watched' = {}
  BY <1>1 DEF StartInv
<1>3. StartTyped'
  BY <1>1 DEF StartInv, StartTyped, Start!SmartStartAssumption
<1>4. /\ \A p \in Start!Pins : ~Made("export", p)' /\ ~Made("direction", p)' /\ ~Made("open", p)'
      /\ \A p \in Start!Buttons : ~Made("edge", p)'
      /\ \A t \in Start!Timers : ~Made("create", t)'
      /\ \A x \in Start!All : ~Made("add", x)'
  BY <1>2, PlaceOrder DEF Made, Start!All
<1>5. Prepared'
  BY <1>2, <1>4 DEF Prepared
<1> QED
  BY <1>1, <1>2, <1>3, <1>5 DEF StartInv

LEMMA StartStep ==
  Start!SmartStartAssumption /\ StartInv /\ [Start!Next]_(Start!startVars) => StartInv'
<1> SUFFICES ASSUME Start!SmartStartAssumption, StartInv, [Start!Next]_(Start!startVars)
             PROVE  StartInv'
  OBVIOUS
<1>1. CASE Start!Succeed
  <2>1. where = "init" /\ where' = "init"
    BY <1>1 DEF Start!Succeed, Start!Initialising
  <2>2. StartTyped' /\ Prepared'
    BY <1>1, <2>1, SucceedTyped, SucceedPrepares DEF StartInv
  <2> QED
    BY <2>1, <2>2 DEF StartInv
<1>2. CASE Start!Fail
  <2>1. where = "init" /\ where' \in {"init", "close"}
    BY <1>2 DEF Start!Fail, Start!Initialising
  <2>2. StartTyped' /\ Prepared'
    BY <1>2, <2>1, FailTyped, FailPrepares DEF StartInv
  <2>3. where' = "close" => calls' > 23 /\ (lost' # {} \/ \E p \in Start!Buttons : pins'[p] = "claimed")
    BY <1>2, <2>1, FailCause DEF StartInv
  <2> QED
    BY <2>1, <2>2, <2>3 DEF StartInv
<1>3. CASE UNCHANGED Start!startVars
  BY <1>3 DEF Start!startVars, StartInv, StartTyped, Prepared, Made
<1> QED
  BY <1>1, <1>2, <1>3, EntersOrLeaves, LifeEndKeeps, RestartKeeps DEF Start!Next

LEMMA StartImplies == StartInv => CleanLife
<1> SUFFICES ASSUME StartInv
             PROVE  Start!StartsWhole /\ Start!GivesUpForCause /\ Start!ExitReleasesLed
  BY DEF CleanLife, Start!CleanLife
<1>1. ASSUME where = "loop"
      PROVE  /\ watched = Start!All
             /\ \A p \in Start!Pins :
                  /\ direction[p] # Start!Direction(p) => pins[p] # "exported" \/ <<"direction", p>> \in lost
                  /\ p \in Start!Buttons /\ detected[p] # Start!Edge(p) => <<"edge", p>> \in lost
             /\ "led" \notin fds =>
                  pins["led"] = "claimed" \/ \E op \in {"export", "open"} : <<op, "led">> \in lost
  <2>1. calls = 30 /\ StartTyped /\ Prepared
    BY <1>1 DEF StartInv
  <2>2. watched = Start!All
    BY <1>1, <2>1, ThroughInit
  <2>3. /\ \A p \in Start!Pins : Made("export", p) /\ Made("direction", p) /\ Made("open", p)
        /\ \A p \in Start!Buttons : Made("edge", p)
    BY <2>1, PlaceOrder DEF Made
  <2>4. \A p \in Start!Buttons : p \in Start!Pins /\ p \in fds
    BY <2>1, <2>2 DEF StartTyped, Start!All, Start!Pins
  <2>5. "led" \in Start!Pins
    BY DEF Start!Pins
  <2> QED
    BY <2>1, <2>2, <2>3, <2>4, <2>5 DEF Prepared, StartTyped
<1>2. Start!StartsWhole
  BY <1>1 DEF Start!StartsWhole
<1> QED
  BY <1>2 DEF StartInv, Start!GivesUpForCause, Start!ExitReleasesLed

LEMMA StartSteps == [Next]_vars => [Start!Next]_(Start!startVars)
  BY DEF Next, vars, startVars, Start!startVars

\* However often the smart program is killed and started again, and whatever of its calls
\* fail, a run that comes to its loop watches all timers and buttons, one that gives up
\* has a cause, and one that ends by itself gives the LED's pin back
\* (04_system/smart: init_app and close_led).
THEOREM LivesCleanly == Spec => []CleanLife
<1>1. Init => StartInv
  BY StartInit, ProgramsAssumption DEF Init
<1>2. StartInv /\ [Next]_vars => StartInv'
  BY StartStep, StartSteps, ProgramsAssumption
<1>3. StartInv => CleanLife
  BY StartImplies
<1> QED
  BY <1>1, <1>2, <1>3, PTL DEF Spec

-----------------------------------------------------------------------------
(* The display *)

OledParts == {"init", "off", "clear", "home", "lines", "ended"}

OledTyped ==
  /\ opened \in BOOLEAN /\ part \in OledParts
  /\ row \in 0..(Rows - 1) /\ page \in 0..(Rows - 1) /\ column \in 0..(Display!Width - 1)
  /\ part = "lines" => row < Len(Lines)
  /\ written \in Nat /\ (part # "ended" => written < Len(Display!Messages))
  /\ failures \in 0..MaxFailures /\ hit \subseteq 0..(Rows - 1)
  /\ DOMAIN screen = 0..(Rows - 1)
  /\ \A r \in 0..(Rows - 1) : screen[r] = [c \in 0..(Display!Width - 1) |-> screen[r][c]]

\* The display points where the program means to write, unless a failure has hit both rows.
Aimed ==
  part \in {"clear", "lines"} =>
    /\ written >= 1 => page = row \/ {page, row} \subseteq hit
    /\ row \notin hit => /\ written = 2 => column % Nibble = 0
                         /\ written >= 3 => column = written - 3

\* The first n data bytes of the present row, and all rows before it.
Before(r, c, n) == r < row \/ (r = row /\ c < n)

\* What is cleared so far, and what has its text.
Blanked(r, c) == part \in {"home", "lines", "ended"} \/ (part = "clear" /\ Before(r, c, written - 3))
Texted(r, c) == part = "ended" \/ (part = "lines" /\ Before(r, c, written - 3))

SpaceAt(c) == Display!Glyph(Space, (c % CharWidth) + 1)

Drawn ==
  \A r \in 0..(Rows - 1), c \in 0..(Display!Width - 1) :
    r \notin hit /\ Blanked(r, c) =>
      screen[r][c] = IF Texted(r, c) THEN Display!Expected(r)[c] ELSE SpaceAt(c)

SwitchedOn ==
  failures = 0 /\ (part \in {"lines", "ended"} \/ (part = "home" /\ written >= 1)) => on

OledInv == OledTyped /\ (opened => Aimed /\ Drawn /\ SwitchedOn)

LEMMA Sizes ==
  ASSUME Display!OledAssumption
  PROVE  /\ Display!Width \in Nat /\ Display!Width >= 1 /\ Display!Width = RowChars * CharWidth
         /\ Rows \in Nat /\ Rows >= 1 /\ CharWidth \in Nat \ {0} /\ RowChars \in Nat \ {0}
         /\ Nibble \in Nat \ {0} /\ MaxFailures \in Nat /\ Len(Lines) \in 0..Rows
<1>1. /\ Rows \in Nat \ {0} /\ CharWidth \in Nat \ {0} /\ RowChars \in Nat \ {0}
      /\ Nibble \in Nat \ {0} /\ MaxFailures \in Nat /\ Len(Lines) \in 0..Rows
  BY DEF Display!OledAssumption
<1>2. \A m, n \in Nat \ {0} : m * n \in Nat /\ m * n >= 1
  OBVIOUS
<1>3. RowChars * CharWidth \in Nat /\ RowChars * CharWidth >= 1
  BY <1>1, <1>2
<1> QED
  BY <1>1, <1>3 DEF Display!Width

\* Which character a column belongs to.
LEMMA CharacterOf ==
  ASSUME NEW c \in Nat, NEW d \in Nat \ {0}, NEW l \in Nat
  PROVE  /\ c \div d \in Nat /\ c % d \in 0..(d - 1) /\ l * d \in Nat
         /\ c < l * d => (c \div d) + 1 <= l
         /\ ~(c < l * d) => ~((c \div d) + 1 <= l)
<1> DEFINE q == c \div d
<1>1. q \in Nat /\ q * d <= c /\ c < q * d + d /\ c % d \in 0..(d - 1)
  OBVIOUS
<1> HIDE DEF q
<1>2. l * d \in Nat
  OBVIOUS
<1>3. ASSUME q + 1 <= l
      PROVE  c < l * d
  <2>1. (q + 1) * d <= l * d
    BY <1>1, <1>3
  <2>2. (q + 1) * d = q * d + d
    BY <1>1
  <2> QED
    BY <1>1, <1>2, <2>1, <2>2
<1>4. ASSUME ~(q + 1 <= l)
      PROVE  ~(c < l * d)
  <2>1. l <= q
    BY <1>1, <1>4
  <2>2. l * d <= q * d
    BY <1>1, <2>1
  <2> QED
    BY <1>1, <1>2, <2>2
<1> QED
  BY <1>1, <1>2, <1>3, <1>4 DEF q

LEMMA Multiple ==
  ASSUME NEW q \in Nat, NEW d \in Nat \ {0}
  PROVE  (q * d) % d = 0
<1> DEFINE n == q * d
           p == n \div d
           x == n % d
<1>1. n \in Nat
  OBVIOUS
<1> HIDE DEF n
<1>2. p \in Nat /\ x \in 0..(d - 1) /\ n = p * d + x
  BY <1>1
<1> HIDE DEF p, x
<1>3. /\ p * d \in Nat /\ q * d \in Nat
      /\ (p + 1) * d = p * d + d /\ (q + 1) * d = q * d + d
      /\ p + 1 <= q => (p + 1) * d <= q * d
      /\ q + 1 <= p => (q + 1) * d <= p * d
  BY <1>2
<1>4. ~(p + 1 <= q) /\ ~(q + 1 <= p)
  BY <1>2, <1>3 DEF n
<1>5. p = q
  BY <1>2, <1>4
<1>6. n = q * d
  BY DEF n
<1>7. x = 0
  <2>1. n = n + x /\ n \in Nat /\ x \in Nat
    BY <1>1, <1>2, <1>5, <1>6
  <2> QED
    BY <2>1
<1> QED
  BY <1>6, <1>7 DEF x

\* A position, and a text behind it.
PlacedText(all, r, str) ==
  LET n == Len(str) * CharWidth
  IN  /\ Len(all) = 3 + n
      /\ all[1] = <<"page", r>> /\ all[2] = <<"low", 0>> /\ all[3] = <<"high", 0>>
      /\ \A c \in 0..(n - 1) :
           all[c + 4] = <<"data", Display!Glyph(str[(c \div CharWidth) + 1], (c % CharWidth) + 1)>>

LEMMA TextAt ==
  ASSUME Display!OledAssumption, NEW r, NEW str, Len(str) \in Nat
  PROVE  PlacedText(Display!SetPosition(0, r) \o Display!Puts(str), r, str)
<1> DEFINE all == Display!SetPosition(0, r) \o Display!Puts(str)
           n == Len(str) * CharWidth
           Item(i) == <<"data", Display!Glyph(str[((i - 1) \div CharWidth) + 1], ((i - 1) % CharWidth) + 1)>>
           first == Display!SetPosition(0, r)
           text == Display!Puts(str)
           S == {<<"page", r>>, <<"low", 0>>, <<"high", 0>>} \union {Item(i) : i \in 1..n}
<1>1. n \in Nat /\ CharWidth \in Nat \ {0} /\ Nibble \in Nat \ {0}
  <2>1. \A l \in Nat : l * CharWidth \in Nat
    BY Sizes
  <2> QED
    BY <2>1, Sizes
<1>2. first = << <<"page", r>>, <<"low", 0>>, <<"high", 0>> >>
  <2>1. (CharWidth * 0) % Nibble = 0 /\ ((CharWidth * 0) \div Nibble) % Nibble = 0
    <3>1. CharWidth * 0 = 0 /\ 0 % Nibble = 0 /\ 0 \div Nibble = 0
      BY <1>1
    <3> QED
      BY <3>1
  <2> QED
    BY <2>1 DEF Display!SetPosition
<1>3. text = [i \in 1..n |-> Item(i)]
  BY DEF Display!Puts
<1>4. all = first \o text
  OBVIOUS
<1> HIDE DEF first, text, all, n
<1>5. first \in Seq(S) /\ Len(first) = 3
  BY <1>2
<1>6. \A i \in 1..n : Item(i) \in S
  OBVIOUS
<1> HIDE DEF Item, S
<1>11. text \in Seq(S) /\ Len(text) = n /\ \A i \in 1..n : text[i] = Item(i)
  <2>1. text \in [1..n -> S] /\ \A i \in 1..n : text[i] = Item(i)
    BY <1>3, <1>6
  <2>2. \A g \in [1..n -> S] : g \in Seq(S) /\ Len(g) = n
    BY <1>1
  <2> QED
    BY <2>1, <2>2
<1>7. /\ Len(all) = 3 + n
      /\ \A i \in 1..(3 + n) : all[i] = IF i <= 3 THEN first[i] ELSE text[i - 3]
  <2>1. /\ Len(first \o text) = Len(first) + Len(text)
        /\ \A i \in 1..(Len(first) + Len(text)) :
             (first \o text)[i] = IF i <= Len(first) THEN first[i] ELSE text[i - Len(first)]
    BY <1>5, <1>11, ConcatProperties
  <2>2. Len(all) = 3 + n
    BY <1>4, <1>5, <1>11, <2>1
  <2>3. ASSUME NEW i \in 1..(3 + n)
        PROVE  all[i] = IF i <= 3 THEN first[i] ELSE text[i - 3]
    <3>1. i \in 1..(Len(first) + Len(text))
      BY <1>5, <1>11
    <3>2. all[i] = IF i <= Len(first) THEN first[i] ELSE text[i - Len(first)]
      BY <1>4, <2>1, <3>1
    <3> QED
      BY <1>5, <3>2
  <2> QED
    BY <2>2, <2>3
<1>8. all[1] = first[1] /\ all[2] = first[2] /\ all[3] = first[3]
  BY <1>1, <1>7
<1>9. ASSUME NEW c \in 0..(n - 1)
      PROVE  all[c + 4] = Item(c + 1)
  <2>1. c + 4 \in 1..(3 + n) /\ ~(c + 4 <= 3) /\ (c + 4) - 3 = c + 1 /\ c + 1 \in 1..n
    BY <1>1
  <2> QED
    BY <1>11, <1>7, <2>1
<1>10. \A c \in 0..(n - 1) :
         Item(c + 1) = <<"data", Display!Glyph(str[(c \div CharWidth) + 1], (c % CharWidth) + 1)>>
  <2> TAKE c \in 0..(n - 1)
  <2>1. (c + 1) - 1 = c
    BY <1>1
  <2> QED
    BY <2>1 DEF Item
<1> QED
  BY <1>1, <1>2, <1>7, <1>8, <1>9, <1>10 DEF PlacedText, all, n

\* What each part sends.
LEMMA Sends ==
  ASSUME Display!OledAssumption, part \in OledParts, row \in 0..(Rows - 1),
         part = "lines" => row < Len(Lines)
  PROVE  /\ part # "ended" => Len(Display!Messages) \in Nat /\ Len(Display!Messages) >= 1
         /\ part = "init" =>
              /\ Len(Display!Messages) = 6
              /\ \A i \in 1..6 : Display!Messages[i] \in
                   {<<kind, 0>> : kind \in {"off", "low", "high", "page", "setup", "on"}}
         /\ part = "off" => Len(Display!Messages) = 1 /\ Display!Messages[1] = <<"off", 0>>
         /\ part = "home" =>
              /\ Len(Display!Messages) = 4
              /\ Display!Messages[1] = <<"on", 0>> /\ Display!Messages[2] = <<"page", 0>>
              /\ Display!Messages[3] = <<"low", 0>> /\ Display!Messages[4] = <<"high", 0>>
         /\ part \in {"clear", "lines"} =>
              /\ Display!Messages[1] = <<"page", row>>
              /\ Display!Messages[2] = <<"low", 0>> /\ Display!Messages[3] = <<"high", 0>>
              /\ Len(Display!Messages) >= 3 /\ Len(Display!Messages) <= 3 + Display!Width
              /\ \A c \in 0..(Len(Display!Messages) - 4) :
                   Display!Messages[c + 4] =
                     <<"data", IF part = "lines" THEN Display!Expected(row)[c] ELSE SpaceAt(c)>>
         /\ part = "clear" => Len(Display!Messages) = 3 + Display!Width
         /\ part = "lines" =>
              \A c \in 0..(Display!Width - 1) :
                c >= Len(Display!Messages) - 3 => Display!Expected(row)[c] = SpaceAt(c)
<1>0. /\ Display!Width \in Nat /\ Display!Width >= 1 /\ Display!Width = RowChars * CharWidth
      /\ CharWidth \in Nat \ {0} /\ RowChars \in Nat \ {0} /\ Nibble \in Nat \ {0} /\ Rows \in Nat
  BY Sizes
<1>1. CASE part = "init"
  BY <1>1 DEF Display!Messages, Display!InitCommands
<1>2. CASE part = "off"
  BY <1>2 DEF Display!Messages
<1>3. CASE part = "home"
  <2>1. (CharWidth * 0) % Nibble = 0 /\ ((CharWidth * 0) \div Nibble) % Nibble = 0
    <3>1. CharWidth * 0 = 0 /\ 0 % Nibble = 0 /\ 0 \div Nibble = 0
      BY <1>0
    <3> QED
      BY <3>1
  <2>2. Display!SetPosition(0, 0) = << <<"page", 0>>, <<"low", 0>>, <<"high", 0>> >>
    BY <2>1 DEF Display!SetPosition
  <2>3. Display!Messages = << <<"on", 0>> >> \o << <<"page", 0>>, <<"low", 0>>, <<"high", 0>> >>
    BY <1>3, <2>2 DEF Display!Messages
  <2> QED
    BY <1>3, <2>3
<1>4. CASE part = "clear"
  <2> DEFINE str == Display!Blank
             all == Display!Messages
  <2>1. Len(str) = RowChars /\ \A i \in 1..RowChars : str[i] = Space
    BY <1>0 DEF Display!Blank
  <2>2. all = Display!SetPosition(0, row) \o Display!Puts(str)
    BY <1>4 DEF Display!Messages
  <2> HIDE DEF str, all
  <2>3. /\ Len(all) = 3 + Display!Width
        /\ all[1] = <<"page", row>> /\ all[2] = <<"low", 0>> /\ all[3] = <<"high", 0>>
        /\ \A c \in 0..(Display!Width - 1) :
             all[c + 4] = <<"data", Display!Glyph(str[(c \div CharWidth) + 1], (c % CharWidth) + 1)>>
    <3>1. Len(str) \in Nat /\ Display!Width = Len(str) * CharWidth
      BY <1>0, <2>1
    <3>2. PlacedText(all, row, str)
      BY <2>2, <3>1, TextAt
    <3> QED
      BY <3>1, <3>2 DEF PlacedText
  <2>4. ASSUME NEW c \in 0..(Display!Width - 1)
        PROVE  all[c + 4] = <<"data", SpaceAt(c)>>
    <3>1. c \in Nat /\ c < RowChars * CharWidth
      BY <1>0
    <3>2. c \div CharWidth \in Nat /\ (c \div CharWidth) + 1 <= RowChars
      BY <1>0, <3>1, CharacterOf
    <3>3. (c \div CharWidth) + 1 \in 1..RowChars
      BY <1>0, <3>2
    <3> QED
      BY <2>1, <2>3, <3>3 DEF SpaceAt
  <2>5. Len(all) - 4 = Display!Width - 1 /\ Len(all) \in Nat /\ Len(all) >= 3
    BY <1>0, <2>3
  <2>6. \A c \in 0..(Len(all) - 4) :
          all[c + 4] = <<"data", IF part = "lines" THEN Display!Expected(row)[c] ELSE SpaceAt(c)>>
    BY <1>4, <2>4, <2>5
  <2>7. Len(all) >= 1 /\ Len(all) <= 3 + Display!Width
    BY <1>0, <2>3, <2>5
  <2> QED
    BY <1>4, <2>3, <2>5, <2>6, <2>7 DEF all
<1>5. CASE part = "lines"
  <2> DEFINE str == Lines[row + 1]
             all == Display!Messages
             n == Len(str) * CharWidth
  <2>1. Len(str) \in 0..RowChars /\ row < Len(Lines)
    <3>1. row + 1 \in 1..Len(Lines)
      BY <1>0, <1>5 DEF Display!OledAssumption
    <3> QED
      BY <1>5, <3>1 DEF Display!OledAssumption
  <2>2. all = Display!SetPosition(0, row) \o Display!Puts(str)
    BY <1>5 DEF Display!Messages
  <2>3. \A c \in 0..(Display!Width - 1) :
          Display!Expected(row)[c] =
            Display!Glyph(IF row < Len(Lines) /\ (c \div CharWidth) + 1 <= Len(str)
                          THEN str[(c \div CharWidth) + 1] ELSE Space, (c % CharWidth) + 1)
    BY DEF Display!Expected
  <2>4. n \in Nat /\ n <= Display!Width
    <3>1. \A l \in 0..RowChars : l * CharWidth \in Nat /\ l * CharWidth <= RowChars * CharWidth
      BY <1>0
    <3> QED
      BY <1>0, <2>1, <3>1
  <2> HIDE DEF str, all
  <2>5. /\ Len(all) = 3 + n
        /\ all[1] = <<"page", row>> /\ all[2] = <<"low", 0>> /\ all[3] = <<"high", 0>>
        /\ \A c \in 0..(n - 1) :
             all[c + 4] = <<"data", Display!Glyph(str[(c \div CharWidth) + 1], (c % CharWidth) + 1)>>
    <3>1. Len(str) \in Nat /\ n = Len(str) * CharWidth
      BY <2>1
    <3>2. PlacedText(all, row, str)
      BY <2>2, <3>1, TextAt
    <3> HIDE DEF n
    <3> QED
      BY <3>1, <3>2 DEF PlacedText
  <2>6. ASSUME NEW c \in Nat
        PROVE  /\ c < n => (c \div CharWidth) + 1 <= Len(str)
               /\ ~(c < n) => ~((c \div CharWidth) + 1 <= Len(str))
    <3>1. Len(str) \in Nat /\ CharWidth \in Nat \ {0}
      BY <1>0, <2>1
    <3> QED
      BY <3>1, CharacterOf
  <2> HIDE DEF n
  <2>7. ASSUME NEW c \in 0..(n - 1)
        PROVE  all[c + 4] = <<"data", Display!Expected(row)[c]>>
    <3>1. c \in 0..(Display!Width - 1) /\ c \in Nat /\ c < n
      BY <1>0, <2>4
    <3> QED
      BY <2>1, <2>3, <2>5, <2>6, <3>1
  <2>8. ASSUME NEW c \in 0..(Display!Width - 1), c >= n
        PROVE  Display!Expected(row)[c] = SpaceAt(c)
    <3>1. c \in Nat /\ ~(c < n)
      BY <1>0, <2>4, <2>8
    <3>2. ~((c \div CharWidth) + 1 <= Len(str))
      BY <2>6, <3>1
    <3> QED
      BY <2>3, <3>2 DEF SpaceAt
  <2>9. Len(all) - 4 = n - 1 /\ Len(all) \in Nat /\ Len(all) >= 3 /\ Len(all) - 3 = n
    BY <2>4, <2>5
  <2>10. \A c \in 0..(Len(all) - 4) :
           all[c + 4] = <<"data", IF part = "lines" THEN Display!Expected(row)[c] ELSE SpaceAt(c)>>
    BY <1>5, <2>7, <2>9
  <2>11. Len(all) >= 1 /\ Len(all) <= 3 + Display!Width
    BY <1>0, <2>4, <2>5, <2>9
  <2>12. \A c \in 0..(Display!Width - 1) :
           c >= Len(all) - 3 => Display!Expected(row)[c] = SpaceAt(c)
    BY <2>8, <2>9
  <2> QED
    BY <1>5, <2>5, <2>9, <2>10, <2>11, <2>12 DEF all
<1>6. CASE part = "ended"
  BY <1>6
<1> QED
  BY <1>1, <1>2, <1>3, <1>4, <1>5, <1>6 DEF OledParts

SendsSome ==
  part \in OledParts /\ part # "ended" /\ row \in 0..(Rows - 1) /\ (part = "lines" => row < Len(Lines))
    => Len(Display!Messages) \in Nat /\ Len(Display!Messages) >= 1

LEMMA SendsOne ==
  ASSUME Display!OledAssumption
  PROVE  SendsSome
BY Sends DEF SendsSome

\* The message of each moment.
LEMMA MessageIs ==
  ASSUME Display!OledAssumption, OledTyped, part # "ended"
  PROVE  /\ part = "init" =>
              Display!Message \in {<<kind, 0>> : kind \in {"off", "low", "high", "page", "setup", "on"}}
         /\ part = "off" => Display!Message = <<"off", 0>>
         /\ part = "home" =>
              /\ written = 0 => Display!Message = <<"on", 0>>
              /\ written = 1 => Display!Message = <<"page", 0>>
              /\ written = 2 => Display!Message = <<"low", 0>>
              /\ written = 3 => Display!Message = <<"high", 0>>
              /\ written \in 0..3
         /\ part \in {"clear", "lines"} =>
              /\ written = 0 => Display!Message = <<"page", row>>
              /\ written = 1 => Display!Message = <<"low", 0>>
              /\ written = 2 => Display!Message = <<"high", 0>>
              /\ written >= 3 =>
                   Display!Message =
                     <<"data", IF part = "lines" THEN Display!Expected(row)[written - 3]
                                                 ELSE SpaceAt(written - 3)>>
<1>1. part \in OledParts /\ row \in 0..(Rows - 1) /\ (part = "lines" => row < Len(Lines))
      /\ written \in Nat /\ written < Len(Display!Messages) /\ Rows \in Nat
  BY Sizes DEF OledTyped
<1>2. Len(Display!Messages) \in Nat
  BY <1>1, SendsOne DEF SendsSome
<1>3. CASE part = "init"
  <2>1. /\ Len(Display!Messages) = 6
        /\ \A i \in 1..6 : Display!Messages[i] \in
             {<<kind, 0>> : kind \in {"off", "low", "high", "page", "setup", "on"}}
    BY <1>1, <1>3, Sends
  <2>2. written + 1 \in 1..6
    BY <1>1, <2>1
  <2> QED
    BY <1>3, <2>1, <2>2 DEF Display!Message
<1>4. CASE part = "off"
  <2>1. Len(Display!Messages) = 1 /\ Display!Messages[1] = <<"off", 0>>
    BY <1>1, <1>4, Sends
  <2>2. written + 1 = 1
    BY <1>1, <2>1
  <2>3. Display!Message = <<"off", 0>>
    BY <2>1, <2>2 DEF Display!Message
  <2>4. part # "init" /\ part # "home" /\ part \notin {"clear", "lines"}
    BY <1>4
  <2> QED
    BY <2>3, <2>4
<1>5. CASE part = "home"
  <2>1. /\ Len(Display!Messages) = 4
        /\ Display!Messages[1] = <<"on", 0>> /\ Display!Messages[2] = <<"page", 0>>
        /\ Display!Messages[3] = <<"low", 0>> /\ Display!Messages[4] = <<"high", 0>>
    BY <1>1, <1>5, Sends
  <2>2. written \in 0..3
    BY <1>1, <2>1
  <2> QED
    BY <1>5, <2>1, <2>2 DEF Display!Message
<1>6. CASE part \in {"clear", "lines"}
  <2>1. written >= 3 => written - 3 \in 0..(Len(Display!Messages) - 4) /\ (written - 3) + 4 = written + 1
    BY <1>1, <1>2
  <2>2. /\ Display!Messages[1] = <<"page", row>>
        /\ Display!Messages[2] = <<"low", 0>> /\ Display!Messages[3] = <<"high", 0>>
        /\ \A c \in 0..(Len(Display!Messages) - 4) :
             Display!Messages[c + 4] =
               <<"data", IF part = "lines" THEN Display!Expected(row)[c] ELSE SpaceAt(c)>>
    BY <1>1, <1>6, Sends
  <2>3. ASSUME written >= 3
        PROVE  Display!Messages[written + 1] =
                 <<"data", IF part = "lines" THEN Display!Expected(row)[written - 3]
                                             ELSE SpaceAt(written - 3)>>
    <3>1. Display!Messages[(written - 3) + 4] =
            <<"data", IF part = "lines" THEN Display!Expected(row)[written - 3]
                                        ELSE SpaceAt(written - 3)>>
      BY <2>1, <2>2, <2>3
    <3> QED
      BY <2>1, <2>3, <3>1
  <2>4. (written = 0 => written + 1 = 1) /\ (written = 1 => written + 1 = 2)
        /\ (written = 2 => written + 1 = 3)
    OBVIOUS
  <2> QED
    BY <1>6, <2>2, <2>3, <2>4 DEF Display!Message
<1> QED
  BY <1>1, <1>3, <1>4, <1>5, <1>6 DEF OledParts

\* The parts follow each other, and what the program holds keeps its type.
LEMMA Proceeds ==
  ASSUME Display!OledAssumption, OledTyped, part # "ended", Display!Proceed
  PROVE  /\ part' \in OledParts /\ row' \in 0..(Rows - 1) /\ (part' = "lines" => row' < Len(Lines))
         /\ written' \in Nat /\ (part' # "ended" => written' < Len(Display!Messages'))
         /\ \/ part' = part /\ row' = row /\ written' = written + 1
               /\ written + 1 < Len(Display!Messages)
            \/ written' = 0 /\ written + 1 = Len(Display!Messages)
               /\ part' = Display!Following[1] /\ row' = Display!Following[2]
<1>1. part \in OledParts /\ row \in 0..(Rows - 1) /\ (part = "lines" => row < Len(Lines))
      /\ written \in Nat /\ written < Len(Display!Messages) /\ Rows \in Nat /\ Rows >= 1
      /\ Len(Lines) \in 0..Rows
  BY Sizes DEF OledTyped
<1>2. Len(Display!Messages) \in Nat
  BY <1>1, SendsOne DEF SendsSome
<1>3. CASE written + 1 < Len(Display!Messages)
  <2>1. written' = written + 1 /\ part' = part /\ row' = row
    BY <1>3 DEF Display!Proceed
  <2>2. Display!Messages' = Display!Messages
    BY <2>1 DEF Display!Messages
  <2> QED
    BY <1>1, <1>2, <1>3, <2>1, <2>2
<1>4. CASE ~(written + 1 < Len(Display!Messages))
  <2>1. written' = 0 /\ part' = Display!Following[1] /\ row' = Display!Following[2]
    BY <1>4 DEF Display!Proceed
  <2>2. part' \in OledParts /\ row' \in 0..(Rows - 1) /\ (part' = "lines" => row' < Len(Lines))
    BY <1>1, <2>1 DEF OledParts, Display!Following, Display!ClearFrom, Display!LinesFrom
  <2>3. SendsSome'
    BY SendsOne, PTL
  <2>4. part' # "ended" => Len(Display!Messages') \in Nat /\ Len(Display!Messages') >= 1
    BY <2>2, <2>3 DEF SendsSome
  <2>5. written + 1 = Len(Display!Messages)
    BY <1>1, <1>2, <1>4
  <2> QED
    BY <2>1, <2>2, <2>4, <2>5
<1> QED
  BY <1>3, <1>4

\* What a row without a text has to show.
LEMMA NoText ==
  ASSUME Display!OledAssumption, NEW r \in 0..(Rows - 1), NEW c \in 0..(Display!Width - 1),
         ~(r < Len(Lines))
  PROVE  Display!Expected(r)[c] = SpaceAt(c)
BY DEF Display!Expected, SpaceAt

\* The screen after this message, for the rows no failure shows in.
Painted ==
  \A r \in 0..(Rows - 1), c \in 0..(Display!Width - 1) :
    r \notin hit' =>
      /\ r \notin hit
      /\ screen'[r][c] = IF part \in {"clear", "lines"} /\ r = row /\ c = written - 3
                         THEN IF part = "lines" THEN Display!Expected(r)[c] ELSE SpaceAt(c)
                         ELSE screen[r][c]

LEMMA DrawnMoves ==
  ASSUME Display!OledAssumption, OledTyped, part # "ended", Display!Proceed, Drawn, Painted
  PROVE  Drawn'
<1>0. /\ Display!Width \in Nat /\ Rows \in Nat /\ Rows >= 1 /\ Len(Lines) \in 0..Rows
      /\ part \in OledParts /\ row \in 0..(Rows - 1) /\ (part = "lines" => row < Len(Lines))
      /\ written \in Nat /\ Display!Width' = Display!Width
  BY Sizes DEF OledTyped, Display!Width
<1> DEFINE Want(r, c) == Display!Expected(r)[c]
<1> SUFFICES ASSUME NEW r \in 0..(Rows - 1), NEW c \in 0..(Display!Width - 1),
                    r \notin hit', Blanked(r, c)'
             PROVE  screen'[r][c] = IF Texted(r, c)' THEN Want(r, c) ELSE SpaceAt(c)
  BY <1>0 DEF Drawn, SpaceAt
<1>1. /\ part \in {"clear", "lines"} /\ r = row /\ c = written - 3 =>
           screen'[r][c] = IF part = "lines" THEN Want(r, c) ELSE SpaceAt(c)
      /\ ~(part \in {"clear", "lines"} /\ r = row /\ c = written - 3) => screen'[r][c] = screen[r][c]
      /\ Blanked(r, c) /\ Texted(r, c) => screen[r][c] = Want(r, c)
      /\ Blanked(r, c) /\ ~Texted(r, c) => screen[r][c] = SpaceAt(c)
  BY DEF Drawn, Painted
<1> HIDE DEF Want
<1> DEFINE S == screen'[r][c]
           Sent == r < row \/ (r = row /\ c < written - 2)
<1>2. /\ part = "clear" /\ Sent => S = SpaceAt(c)
      /\ part = "home" => S = SpaceAt(c)
      /\ part = "lines" => S = IF Sent THEN Want(r, c) ELSE SpaceAt(c)
  <2>1. Before(r, c, written - 3) => Sent /\ ~(r = row /\ c = written - 3)
    BY <1>0 DEF Before
  <2>2. Sent => Before(r, c, written - 3) \/ (r = row /\ c = written - 3)
    BY <1>0 DEF Before
  <2>3. (r = row /\ c = written - 3) => Sent
    BY <1>0
  <2>4. ASSUME part = "clear", Sent
        PROVE  S = SpaceAt(c)
    <3>1. CASE r = row /\ c = written - 3
      BY <1>1, <2>4, <3>1
    <3>2. CASE ~(r = row /\ c = written - 3)
      <4>1. Blanked(r, c) /\ ~Texted(r, c)
        BY <2>2, <2>4, <3>2 DEF Blanked, Texted
      <4> QED
        BY <1>1, <3>2, <4>1
    <3> QED
      BY <3>1, <3>2
  <2>5. ASSUME part = "home"
        PROVE  S = SpaceAt(c)
    <3>1. Blanked(r, c) /\ ~Texted(r, c) /\ part \notin {"clear", "lines"}
      BY <2>5 DEF Blanked, Texted
    <3> QED
      BY <1>1, <3>1
  <2>6. ASSUME part = "lines"
        PROVE  S = IF Sent THEN Want(r, c) ELSE SpaceAt(c)
    <3>1. Blanked(r, c) /\ (Texted(r, c) <=> Before(r, c, written - 3))
      BY <2>6 DEF Blanked, Texted
    <3>2. CASE r = row /\ c = written - 3
      BY <1>1, <2>3, <2>6, <3>2
    <3>3. CASE ~(r = row /\ c = written - 3)
      BY <1>1, <2>1, <2>2, <3>1, <3>3
    <3> QED
      BY <3>2, <3>3
  <2> QED
    BY <2>4, <2>5, <2>6
<1> HIDE DEF S
<1>3. CASE part' = part /\ row' = row /\ written' = written + 1
  <2>1. (r < row' \/ (r = row' /\ c < written' - 3)) <=> Sent
    BY <1>0, <1>3
  <2>2. part \in {"clear", "home", "lines"} /\ (part = "clear" => Sent)
    BY <1>3, <2>1 DEF Blanked, Before
  <2> QED
    BY <1>2, <1>3, <2>1, <2>2 DEF Texted, Before, S
<1>4. CASE written' = 0 /\ written + 1 = Len(Display!Messages)
           /\ part' = Display!Following[1] /\ row' = Display!Following[2]
  <2>1. ~(c < written' - 3)
    BY <1>0, <1>4
  <2>2. CASE part \in {"init", "off"}
    BY <1>0, <1>4, <2>1, <2>2 DEF Blanked, Before, Display!Following, Display!ClearFrom
  <2>3. CASE part = "clear"
    <3>1. Len(Display!Messages) = 3 + Display!Width
      BY <1>0, <2>3, Sends
    <3>2. r <= row => S = SpaceAt(c)
      BY <1>0, <1>2, <1>4, <2>3, <3>1
    <3>3. part' \in {"clear", "home"} /\ (part' = "clear" => row' = row + 1)
          /\ (part' = "home" => row + 1 >= Rows)
      BY <1>0, <1>4, <2>3 DEF Display!Following, Display!ClearFrom
    <3>4. r <= row
      BY <1>0, <2>1, <3>3 DEF Blanked, Before
    <3> QED
      BY <3>2, <3>3, <3>4 DEF Texted, S
  <2>4. CASE part = "home"
    <3>1. (part' = "lines" /\ row' = 0) \/ (part' = "ended" /\ Len(Lines) = 0)
      BY <1>0, <1>4, <2>4 DEF Display!Following, Display!LinesFrom
    <3>2. CASE part' = "lines" /\ row' = 0
      <4>1. ~Texted(r, c)'
        BY <1>0, <2>1, <3>2 DEF Texted, Before
      <4> QED
        BY <1>2, <2>4, <4>1 DEF S
    <3>3. CASE part' = "ended" /\ Len(Lines) = 0
      <4>1. Want(r, c) = SpaceAt(c)
        BY <1>0, <3>3, NoText DEF Want
      <4> QED
        BY <1>2, <2>4, <4>1 DEF S
    <3> QED
      BY <3>1, <3>2, <3>3
  <2>5. CASE part = "lines"
    <3>1. r = row /\ ~Sent => Want(r, c) = SpaceAt(c)
      <4>1. Len(Display!Messages) \in Nat /\
              (\A d \in 0..(Display!Width - 1) :
                d >= Len(Display!Messages) - 3 => Display!Expected(row)[d] = SpaceAt(d))
        BY <1>0, <2>5, Sends
      <4> QED
        BY <1>0, <1>4, <4>1 DEF Want
    <3>2. r <= row => S = Want(r, c)
      BY <1>0, <1>2, <2>5, <3>1
    <3>3. r > row => S = SpaceAt(c)
      BY <1>0, <1>2, <2>5
    <3>4. (part' = "lines" /\ row' = row + 1) \/ (part' = "ended" /\ row + 1 >= Len(Lines))
      BY <1>0, <1>4, <2>5 DEF Display!Following, Display!LinesFrom
    <3>5. CASE part' = "lines" /\ row' = row + 1
      <4>1. Texted(r, c)' <=> r <= row
        BY <1>0, <2>1, <3>5 DEF Texted, Before
      <4> QED
        BY <1>0, <3>2, <3>3, <4>1 DEF S
    <3>6. CASE part' = "ended" /\ row + 1 >= Len(Lines)
      <4>1. r > row => Want(r, c) = SpaceAt(c)
        BY <1>0, <3>6, NoText DEF Want
      <4>2. Texted(r, c)'
        BY <3>6 DEF Texted
      <4> QED
        BY <1>0, <3>2, <3>3, <4>1, <4>2 DEF S
    <3> QED
      BY <3>4, <3>5, <3>6
  <2> QED
    BY <1>0, <2>2, <2>3, <2>4, <2>5 DEF OledParts
<1> QED
  BY <1>3, <1>4, Proceeds

\* A message that arrives.
LEMMA Receives ==
  ASSUME Display!OledAssumption, OledInv, Display!Received
  PROVE  OledInv'
<1>0. /\ Display!Width \in Nat /\ Display!Width >= 1 /\ Rows \in Nat /\ Rows >= 1 /\ Nibble \in Nat \ {0}
      /\ Display!Width' = Display!Width
      /\ opened /\ part # "ended" /\ opened' = opened /\ failures' = failures /\ hit' = hit
      /\ OledTyped /\ Aimed /\ Drawn /\ SwitchedOn /\ Display!Proceed
  BY Sizes DEF OledInv, Display!Received, Display!Width
<1>1. /\ part \in OledParts /\ row \in 0..(Rows - 1) /\ page \in 0..(Rows - 1)
      /\ column \in 0..(Display!Width - 1) /\ written \in Nat
      /\ (part = "lines" => row < Len(Lines)) /\ written < Len(Display!Messages)
      /\ failures \in 0..MaxFailures /\ hit \subseteq 0..(Rows - 1)
      /\ DOMAIN screen = 0..(Rows - 1)
      /\ \A r \in 0..(Rows - 1) : screen[r] = [c \in 0..(Display!Width - 1) |-> screen[r][c]]
  BY <1>0 DEF OledTyped
<1> DEFINE m == Display!Message
           V(c) == IF part = "lines" THEN Display!Expected(row)[c] ELSE SpaceAt(c)
<1>2. /\ page' = IF m[1] = "page" THEN m[2] ELSE page
      /\ column' = CASE m[1] = "low" -> (column \div Nibble) * Nibble + m[2]
                     [] m[1] = "high" -> m[2] * Nibble + (column % Nibble)
                     [] m[1] = "data" -> (column + 1) % Display!Width
                     [] OTHER -> column
      /\ on' = CASE m[1] = "on" -> TRUE [] m[1] = "off" -> FALSE [] OTHER -> on
      /\ screen' = IF m[1] = "data" THEN [screen EXCEPT ![page][column] = m[2]] ELSE screen
  BY DEF Display!Received
<1>3. /\ part = "init" =>
           m \in {<<kind, 0>> : kind \in {"off", "low", "high", "page", "setup", "on"}}
      /\ part = "off" => m = <<"off", 0>>
      /\ part = "home" => /\ written = 0 => m = <<"on", 0>>
                          /\ written = 1 => m = <<"page", 0>>
                          /\ written = 2 => m = <<"low", 0>>
                          /\ written = 3 => m = <<"high", 0>>
                          /\ written \in 0..3
      /\ part \in {"clear", "lines"} =>
           /\ written = 0 => m = <<"page", row>>
           /\ written = 1 => m = <<"low", 0>>
           /\ written = 2 => m = <<"high", 0>>
           /\ written >= 3 => m = <<"data", V(written - 3)>>
  BY <1>0, MessageIs
<1> HIDE DEF m, V
<1>4. /\ part' \in OledParts /\ row' \in 0..(Rows - 1) /\ (part' = "lines" => row' < Len(Lines))
      /\ written' \in Nat /\ (part' # "ended" => written' < Len(Display!Messages'))
      /\ \/ part' = part /\ row' = row /\ written' = written + 1
            /\ written + 1 < Len(Display!Messages)
         \/ written' = 0 /\ written + 1 = Len(Display!Messages)
            /\ part' = Display!Following[1] /\ row' = Display!Following[2]
  BY <1>0, Proceeds
\* The kinds of message.
<1>5. \/ m[1] = "page" /\ m[2] \in {0, row} /\ (part \in {"clear", "lines"} => m[2] = row /\ written = 0)
         /\ (part = "home" => written = 1) /\ part # "off"
      \/ m[1] = "low" /\ m[2] = 0 /\ (part \in {"clear", "lines"} => written = 1)
         /\ (part = "home" => written = 2) /\ part # "off"
      \/ m[1] = "high" /\ m[2] = 0 /\ (part \in {"clear", "lines"} => written = 2)
         /\ (part = "home" => written = 3) /\ part # "off"
      \/ m[1] = "data" /\ m[2] = V(written - 3) /\ part \in {"clear", "lines"} /\ written >= 3
      \/ m[1] = "on" /\ (part = "init" \/ (part = "home" /\ written = 0))
      \/ m[1] = "off" /\ part \in {"init", "off"}
      \/ m[1] = "setup" /\ part = "init"
  <2>1. CASE part = "init"
    BY <1>3, <2>1
  <2>2. CASE part = "off"
    BY <1>3, <2>2
  <2>3. CASE part = "home"
    BY <1>3, <2>3
  <2>4. CASE part \in {"clear", "lines"}
    BY <1>1, <1>3, <2>4
  <2> QED
    BY <1>0, <1>1, <2>1, <2>2, <2>3, <2>4 DEF OledParts
<1>6. OledTyped'
  <2>1. page' \in 0..(Rows - 1)
    BY <1>0, <1>1, <1>2, <1>5
  <2>2. column' \in 0..(Display!Width - 1)
    <3>1. (column \div Nibble) * Nibble \in 0..column /\ column % Nibble \in 0..column
          /\ (column + 1) % Display!Width \in 0..(Display!Width - 1)
      BY <1>0, <1>1
    <3>2. (column \div Nibble) * Nibble + 0 = (column \div Nibble) * Nibble
          /\ 0 * Nibble + (column % Nibble) = column % Nibble
      BY <1>0, <1>1, <3>1
    <3>3. \/ column' = (column \div Nibble) * Nibble \/ column' = column % Nibble
          \/ column' = (column + 1) % Display!Width \/ column' = column
      BY <1>2, <1>5, <3>2
    <3> QED
      BY <1>0, <1>1, <3>1, <3>3
  <2>3. /\ DOMAIN screen' = 0..(Rows - 1)
        /\ \A r \in 0..(Rows - 1) : screen'[r] = [c \in 0..(Display!Width - 1) |-> screen'[r][c]]
    BY <1>1, <1>2
  <2> QED
    BY <1>0, <1>1, <1>4, <2>1, <2>2, <2>3 DEF OledTyped
<1>7. Aimed'
  <2>1. CASE written' = 0
    BY <2>1 DEF Aimed
  <2>2. CASE /\ part' = part /\ row' = row /\ written' = written + 1
             /\ written + 1 < Len(Display!Messages) /\ part \in {"clear", "lines"}
    <3>1. /\ written >= 1 => page = row \/ {page, row} \subseteq hit
          /\ row \notin hit => /\ written = 2 => column % Nibble = 0
                               /\ written >= 3 => column = written - 3
      BY <1>0, <2>2 DEF Aimed
    <3>2. page' = row \/ {page', row} \subseteq hit
      BY <1>1, <1>2, <1>5, <2>2, <3>1
    <3>3. ASSUME row \notin hit, written' = 2
          PROVE  column' % Nibble = 0
      <4>1. m[1] = "low" /\ m[2] = 0
        BY <1>1, <1>3, <2>2, <3>3
      <4>2. column' = (column \div Nibble) * Nibble + 0
        BY <1>2, <4>1
      <4>3. ((column \div Nibble) * Nibble + 0) % Nibble = 0
        <5>1. column \div Nibble \in Nat
          <6>1. \A n \in Nat, d \in Nat \ {0} : n \div d \in Nat
            OBVIOUS
          <6>2. column \in Nat
            BY <1>0, <1>1
          <6> QED
            BY <1>0, <6>1, <6>2
        <5>2. ((column \div Nibble) * Nibble) % Nibble = 0
          BY <1>0, <5>1, Multiple
        <5>3. (column \div Nibble) * Nibble + 0 = (column \div Nibble) * Nibble
          BY <1>0, <5>1
        <5> QED
          BY <5>2, <5>3
      <4> QED
        BY <4>2, <4>3
    <3>4. ASSUME row \notin hit, written' >= 3
          PROVE  column' = written' - 3
      <4>1. CASE written = 2
        <5>1. m[1] = "high" /\ m[2] = 0
          BY <1>3, <2>2, <4>1
        <5>2. column' = 0 * Nibble + (column % Nibble)
          BY <1>2, <5>1
        <5> QED
          BY <1>0, <2>2, <3>1, <3>4, <4>1, <5>2
      <4>2. CASE written >= 3
        <5>1. m[1] = "data"
          BY <1>3, <2>2, <4>2
        <5>2. column' = (column + 1) % Display!Width /\ column = written - 3
          BY <1>2, <3>1, <3>4, <4>2, <5>1
        <5>3. Len(Display!Messages) \in Nat /\ Len(Display!Messages) <= 3 + Display!Width
          BY <1>1, <2>2, Sends
        <5>4. column + 1 \in 0..(Display!Width - 1)
          BY <1>0, <1>1, <2>2, <4>2, <5>2, <5>3
        <5>5. (column + 1) % Display!Width = column + 1
          BY <1>0, <5>4
        <5> QED
          BY <1>1, <2>2, <5>2, <5>5
      <4> QED
        BY <1>1, <2>2, <3>4, <4>1, <4>2
    <3> QED
      BY <1>0, <2>2, <3>2, <3>3, <3>4 DEF Aimed
  <2> QED
    BY <1>4, <2>1, <2>2 DEF Aimed
<1>8. Painted
  <2> SUFFICES ASSUME NEW r \in 0..(Rows - 1), NEW c \in 0..(Display!Width - 1), r \notin hit
               PROVE  screen'[r][c] = IF part \in {"clear", "lines"} /\ r = row /\ c = written - 3
                                      THEN V(c) ELSE screen[r][c]
    BY <1>0 DEF Painted, V
  <2>1. CASE m[1] = "data"
    <3>1. m[2] = V(written - 3) /\ part \in {"clear", "lines"} /\ written >= 3
      BY <1>5, <2>1
    <3>2. /\ page = row \/ {page, row} \subseteq hit
          /\ row \notin hit => column = written - 3
      BY <1>0, <1>1, <3>1 DEF Aimed
    <3>3. screen'[r][c] = IF r = page /\ c = column THEN m[2] ELSE screen[r][c]
      BY <1>1, <1>2, <2>1
    <3>4. (r = page /\ c = column) <=> (r = row /\ c = written - 3)
      BY <3>2
    <3> QED
      BY <3>1, <3>3, <3>4
  <2>2. CASE m[1] # "data"
    <3>1. screen' = screen
      BY <1>2, <2>2
    <3>2. ~(part \in {"clear", "lines"} /\ c = written - 3)
      BY <1>0, <1>1, <1>5, <2>2
    <3> QED
      BY <3>1, <3>2
  <2> QED
    BY <2>1, <2>2
<1>9. SwitchedOn'
  <2> SUFFICES ASSUME failures = 0, part' \in {"lines", "ended"} \/ (part' = "home" /\ written' >= 1)
               PROVE  on'
    BY <1>0 DEF SwitchedOn
  <2>1. part \in {"home", "lines"}
    BY <1>0, <1>1, <1>4 DEF OledParts, Display!Following, Display!ClearFrom
  <2>2. CASE part = "home" /\ written = 0
    BY <1>2, <1>3, <2>2
  <2>3. CASE ~(part = "home" /\ written = 0)
    <3>1. on
      BY <1>0, <1>1, <2>1, <2>3 DEF SwitchedOn
    <3>2. m[1] # "off" /\ m[1] # "on"
      BY <1>5, <2>1, <2>3
    <3> QED
      BY <1>2, <3>1, <3>2
  <2> QED
    BY <2>2, <2>3
<1> QED
  BY <1>0, <1>6, <1>7, <1>8, <1>9, DrawnMoves DEF OledInv

\* A message that is lost.
LEMMA Loses ==
  ASSUME Display!OledAssumption, OledInv, Display!Lost
  PROVE  OledInv'
<1>0. /\ Display!Width \in Nat /\ Display!Width' = Display!Width /\ Rows \in Nat
      /\ part # "ended" /\ opened' = opened /\ OledTyped /\ Display!Proceed
      /\ page' = page /\ column' = column /\ on' = on /\ screen' = screen
  BY Sizes DEF OledInv, Display!Lost, Display!display, Display!Width
<1>1. /\ part \in OledParts /\ row \in 0..(Rows - 1) /\ page \in 0..(Rows - 1)
      /\ written \in Nat /\ failures \in 0..MaxFailures /\ hit \subseteq 0..(Rows - 1)
      /\ opened \in BOOLEAN /\ MaxFailures \in Nat
  BY <1>0, Sizes DEF OledTyped
<1>2. hit \subseteq hit' /\ hit' \subseteq 0..(Rows - 1)
  BY <1>1 DEF Display!Lost
<1>3. /\ failures' \in 0..MaxFailures
      /\ opened => failures' = failures + 1
  BY <1>1 DEF Display!Lost
<1>4. /\ part' \in OledParts /\ row' \in 0..(Rows - 1) /\ (part' = "lines" => row' < Len(Lines))
      /\ written' \in Nat /\ (part' # "ended" => written' < Len(Display!Messages'))
      /\ \/ part' = part /\ row' = row /\ written' = written + 1
            /\ written + 1 < Len(Display!Messages)
         \/ written' = 0 /\ written + 1 = Len(Display!Messages)
            /\ part' = Display!Following[1] /\ row' = Display!Following[2]
  BY <1>0, Proceeds
<1>5. OledTyped'
  BY <1>0, <1>2, <1>3, <1>4 DEF OledTyped
\* Only the messages for a row matter to it, and those of an earlier part to none.
<1>6. part \in {"clear", "lines"} => {page, row} \subseteq hit'
  <2>1. part \in {"clear", "lines"} => Display!Message[1] \in {"page", "low", "high", "data"}
    <3>1. part \in {"clear", "lines"} =>
            \/ Display!Message = <<"page", row>> \/ Display!Message = <<"low", 0>>
            \/ Display!Message = <<"high", 0>>
            \/ \E v : Display!Message = <<"data", v>>
      <4>1. written = 0 \/ written = 1 \/ written = 2 \/ written >= 3
        BY <1>1
      <4> QED
        BY <1>0, <4>1, MessageIs
    <3> QED
      BY <3>1
  <2> QED
    BY <2>1 DEF Display!Lost
<1>7. ASSUME opened
      PROVE  Aimed' /\ Drawn' /\ SwitchedOn'
  <2>1. Aimed /\ Drawn
    BY <1>7 DEF OledInv
  <2>2. Aimed'
    <3>1. CASE written' = 0
      BY <3>1 DEF Aimed
    <3>2. CASE part' = part /\ row' = row /\ part \in {"clear", "lines"}
      BY <1>0, <1>6, <3>2 DEF Aimed
    <3> QED
      BY <1>4, <3>1, <3>2 DEF Aimed
  <2>3. Painted
    <3>1. part \in {"clear", "lines"} => row \in hit'
      BY <1>6
    <3> QED
      BY <1>0, <1>2, <3>1 DEF Painted
  <2>4. Drawn'
    BY <1>0, <2>1, <2>3, DrawnMoves
  <2>5. failures' # 0
    BY <1>1, <1>3, <1>7
  <2> QED
    BY <2>2, <2>4, <2>5 DEF SwitchedOn
<1> QED
  BY <1>0, <1>5, <1>7 DEF OledInv

LEMMA OledStep ==
  ASSUME Display!OledAssumption, OledInv, [Display!Next]_(Display!ovars)
  PROVE  OledInv'
<1>1. CASE Display!Next
  BY <1>1, Receives, Loses DEF Display!Next
<1>2. CASE UNCHANGED Display!ovars
  <2>1. /\ opened' = opened /\ part' = part /\ row' = row /\ written' = written
        /\ page' = page /\ column' = column /\ on' = on /\ screen' = screen
        /\ failures' = failures /\ hit' = hit
    BY <1>2 DEF Display!ovars, Display!progress, Display!display
  <2>2. Display!Width' = Display!Width /\ Display!Messages' = Display!Messages
    BY <2>1 DEF Display!Width, Display!Messages
  <2>3. OledTyped' <=> OledTyped
    BY <2>1, <2>2 DEF OledTyped
  <2>4. (Aimed' <=> Aimed) /\ (SwitchedOn' <=> SwitchedOn)
    BY <2>1 DEF Aimed, SwitchedOn
  <2>5. Drawn => Drawn'
    BY <2>1, <2>2 DEF Drawn, Blanked, Texted, Before, SpaceAt
  <2> QED
    BY <2>1, <2>3, <2>4, <2>5 DEF OledInv
<1> QED
  BY <1>1, <1>2

LEMMA OledStart ==
  ASSUME Display!OledAssumption, Display!Init
  PROVE  OledInv
<1>1. /\ Display!Width \in Nat /\ Display!Width >= 1 /\ Rows \in Nat /\ Rows >= 1
      /\ MaxFailures \in Nat /\ Len(Lines) \in 0..Rows
  BY Sizes
<1>2. /\ opened \in BOOLEAN /\ written = 0 /\ page = 0 /\ column = 0 /\ on = FALSE
      /\ screen = [r \in 0..(Rows - 1) |-> [c \in 0..(Display!Width - 1) |-> <<"noise", 0>>]]
      /\ failures = 0 /\ hit = {}
      /\ opened => part = "init" /\ row = 0
      /\ ~opened => (part = "lines" /\ row = 0 /\ 0 < Len(Lines)) \/ (part = "ended" /\ row = 0)
  BY DEF Display!Init, Display!LinesFrom
<1>3. part \in OledParts /\ row = 0 /\ (part = "lines" => row < Len(Lines))
  BY <1>2 DEF OledParts
<1>4. part # "ended" => Len(Display!Messages) \in Nat /\ Len(Display!Messages) >= 1
  BY <1>1, <1>3, SendsOne DEF SendsSome
<1>5. OledTyped
  BY <1>1, <1>2, <1>3, <1>4 DEF OledTyped
<1>6. opened => Aimed /\ Drawn /\ SwitchedOn
  BY <1>2 DEF Aimed, Drawn, Blanked, SwitchedOn
<1> QED
  BY <1>5, <1>6 DEF OledInv

LEMMA OledImplies ==
  ASSUME Display!OledAssumption, OledInv
  PROVE  Display!TypeOK /\ Display!DamageContained
<1>1. Display!TypeOK
  <2>1. part # "ended" => Len(Display!Messages) \in Nat
    BY SendsOne DEF OledInv, OledTyped, SendsSome
  <2> QED
    BY <2>1 DEF OledInv, OledTyped, OledParts, Display!TypeOK
<1>2. ASSUME opened, part = "ended", NEW r \in 0..(Rows - 1), r \notin hit
      PROVE  screen[r] = Display!Expected(r)
  <2> DEFINE W == 0..(Display!Width - 1)
             shown == Display!Expected(r)
  <2>1. \A c \in W : screen[r][c] = shown[c]
    BY <1>2 DEF OledInv, Drawn, Blanked, Texted
  <2>2. DOMAIN shown = W /\ shown = [c \in W |-> shown[c]]
    BY DEF Display!Expected
  <2>3. screen[r] = [c \in W |-> screen[r][c]]
    BY <1>2 DEF OledInv, OledTyped
  <2> HIDE DEF shown, W
  <2> QED
    BY <2>1, <2>2, <2>3 DEF shown
<1>3. ASSUME opened, part = "ended", failures = 0
      PROVE  on
  BY <1>3 DEF OledInv, SwitchedOn
<1> QED
  BY <1>1, <1>2, <1>3 DEF Display!DamageContained

LEMMA OledSteps == [Next]_vars => [Display!Next]_(Display!ovars)
  BY DEF Next, vars, oledVars, Display!ovars, Display!progress, Display!display

LEMMA OledAlways == Spec => []OledInv
<1>1. Init => OledInv
  BY OledStart, ProgramsAssumption DEF Init
<1>2. OledInv /\ [Next]_vars => OledInv'
  BY OledStep, OledSteps, ProgramsAssumption
<1> QED
  BY <1>1, <1>2, PTL DEF Spec

\* Whichever of its commands and data are lost on the bus: in the end every row but those
\* a failure shows in has its text from its first column on and blanks behind it, and
\* the display is on unless something failed, for every size of the display and all texts
\* that fit (07_miniproj/oled: ssd1306_clear_display, ssd1306_set_position, ssd1306_puts).
THEOREM DamageStays == Spec => []DamageContained
<1>1. OledInv => DamageContained
  BY OledImplies, ProgramsAssumption DEF DamageContained
<1> QED
  BY <1>1, OledAlways, PTL
-----------------------------------------------------------------------------
(* All types *)

\* The clock of the polling LED: it never counts back, and the LED was changed at most
\* one round after the reading that ended its phase.
ClockInv ==
  PhaseInv /\ delta \in Nat /\ since \in Nat /\ age \in Nat /\ since <= age + MaxGap

LEMMA ClockStart == Silly!SillyLedAssumption /\ Silly!Init => ClockInv
  BY PhaseInit DEF Silly!SillyLedAssumption, Silly!Init, ClockInv

LEMMA ClockStep == Silly!SillyLedAssumption /\ ClockInv /\ [Silly!Next]_(Silly!svars) => ClockInv'
<1> SUFFICES ASSUME Silly!SillyLedAssumption, ClockInv, [Silly!Next]_(Silly!svars)
             PROVE  ClockInv'
  OBVIOUS
<1>1. PhaseInv'
  BY PhaseStep DEF ClockInv
<1>2. /\ delta \in Nat /\ since \in Nat /\ age \in Nat /\ since <= age + MaxGap /\ MaxGap \in Nat
      /\ PhaseInv /\ gap \in 0..MaxGap
  BY DEF ClockInv, PhaseInv, LedTyped, Silly!SillyLedAssumption
<1>3. CASE Silly!Unexport \/ Silly!Export \/ UNCHANGED Silly!svars
  BY <1>1, <1>2, <1>3 DEF Silly!Unexport, Silly!Export, Silly!svars, ClockInv
<1>4. CASE Silly!Configure \/ Silly!StartClock
  <2>1. at = "config" => since = 0
    BY <1>2 DEF PhaseInv, InLoop
  <2> QED
    BY <1>1, <1>2, <1>4, <2>1 DEF Silly!Configure, Silly!StartClock, ClockInv
<1>5. CASE Silly!ReadClock
  BY <1>1, <1>2, <1>5 DEF Silly!ReadClock, ClockInv
<1>6. CASE Silly!Test
  <2>1. since = delta + gap
    BY <1>2, <1>6 DEF Silly!Test, PhaseInv, InLoop, Clocked
  <2>2. (since' = since \/ since' = since - delta) /\ age' = age /\ delta' = delta
    BY <1>6 DEF Silly!Test
  <2> QED
    BY <1>1, <1>2, <2>1, <2>2 DEF ClockInv
<1>7. CASE Silly!WriteLed
  <2>1. since = gap
    BY <1>2, <1>7 DEF Silly!WriteLed, PhaseInv, InLoop, Clocked
  <2> QED
    BY <1>1, <1>2, <1>7, <2>1 DEF Silly!WriteLed, ClockInv
<1>8. CASE Silly!Tick
  BY <1>1, <1>2, <1>8 DEF Silly!Tick, ClockInv
<1> QED
  BY <1>3, <1>4, <1>5, <1>6, <1>7, <1>8 DEF Silly!Next, Silly!Loop

LEMMA OtherTypes == ClockInv /\ MemInv /\ CpuInv /\ StartInv =>
                      Silly!TypeOK /\ Mem!TypeOK /\ Cpu!TypeOK /\ Start!TypeOK
<1> SUFFICES ASSUME ClockInv, MemInv, CpuInv, StartInv
             PROVE  Silly!TypeOK /\ Mem!TypeOK /\ Cpu!TypeOK /\ Start!TypeOK
  OBVIOUS
<1>1. Silly!TypeOK
  BY DEF ClockInv, PhaseInv, LedTyped, Silly!TypeOK
<1>2. Start!TypeOK
  BY CallCount DEF StartInv, StartTyped, Start!TypeOK
<1> QED
  BY <1>1, <1>2 DEF MemInv, CpuInv

\* Every program keeps its types, for all values of the constants; among them that the
\* parent announces only messages that exist, that the interrupt counter is never ahead
\* of the interrupts, that every show and store stays inside its buffers, that the
\* daemon uses descriptors it has, and that the display's pointer stays in its memory.
THEOREM TypesKept == Spec => []TypeOK
<1> DEFINE Inv == ClockInv /\ MemInv /\ CpuInv /\ StartInv
<1>1. Init => Inv
  BY ClockStart, MemInit, CpuInit, StartInit, ProgramsAssumption DEF Init
<1>2. Inv /\ [Next]_vars => Inv'
  BY ClockStep, SillySteps, MemKept, CpuKept, StartStep, StartSteps, ProgramsAssumption
<1>3. Inv => Silly!TypeOK /\ Mem!TypeOK /\ Cpu!TypeOK /\ Start!TypeOK
  BY OtherTypes
<1>4. AttrInv => Attr!TypeOK
  BY AttrImplies, ProgramsAssumption
<1>5. EntryInv => Procfs!TypeOK
  BY DEF EntryInv, ReadSoFar, Procfs!TypeOK
<1>6. OledInv => Display!TypeOK
  BY OledImplies, ProgramsAssumption
<1>7. Spec => []EntryInv
  <2>1. Init => EntryInv
    BY EntryInit, ProgramsAssumption DEF Init
  <2>2. EntryInv /\ [Next]_vars => EntryInv'
    BY EntryStep, ProcfsSteps, ProgramsAssumption
  <2> QED
    BY <2>1, <2>2, PTL DEF Spec
<1> HIDE DEF Inv
<1> QED
  BY <1>1, <1>2, <1>3, <1>4, <1>5, <1>6, <1>7, AttrAlways, OledAlways, PollTypedAlways,
     SocketTypedAlways, DaemonTypedAlways, PTL DEF Spec, TypeOK
=============================================================================
