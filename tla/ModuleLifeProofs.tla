------------------------- MODULE ModuleLifeProofs -------------------------
(***************************************************************************)
(* What TLAPS proves of ModuleLife, for any number of elements, instances, *)
(* children of the device node and unbindings.  First what the functions   *)
(* of each module ask of the kernel: every later section reads only that.  *)
(* Then one section per property, with the invariant that carries it.      *)
(***************************************************************************)
EXTENDS ModuleLife, TLAPS

-----------------------------------------------------------------------------
(* Calls and sequences of calls *)

KindSet ==
  {"region", "cdev", "class", "driver", "mem", "buffers", "device", "file", "misc", "pdev",
   "gpio", "irq", "thread", "map", "element", "buffer", "devm", "proc", "nothing"}
Resource == KindSet \X Nat
RuleSet ==
  {"chained", "untested", "unchecked", "noted", "latest", "required", "always", "held"}
CallSet == [op : {"get", "put", "devm"}, res : Resource, on : Resource, rule : RuleSet]

\* What a call relies on, and what it gives back.
Demands(c) ==
  {r \in {c.on} : r # Nothing} \union {r \in {c.res} : c.op = "put" /\ c.rule # "held"}
Returns(c, r) == (c.op = "put" /\ c.res = r) \/ (c.op = "devm" /\ Kind(r) = "devm")

Asks(s, r) == \E j \in 1..Len(s) : s[j].op = "get" /\ s[j].res = r
GivenBy(s, r) == \E j \in 1..Len(s) : Returns(s[j], r)

\* No call relies on what an earlier one gives back; each finds what it relies
\* on in H or asked for by an earlier one.
Ordered(s) ==
  \A j \in 1..Len(s) : \A r \in Demands(s[j]) : \A i \in 1..(j - 1) : ~Returns(s[i], r)
Supplied(s, H) ==
  \A j \in 1..Len(s) : \A r \in Demands(s[j]) :
    r \in H \/ \E i \in 1..(j - 1) : s[i].op = "get" /\ s[i].res = r
Sound(s, H) == Ordered(s) /\ Supplied(s, H)

\* All a sequence relies on is in H.
Covered(s, H) == \A j \in 1..Len(s) : Demands(s[j]) \subseteq H

\* The platform drivers.
Platforms == {"drv06", "drv06_1", "sample06_3", "dts"}

\* The calls of each kind of function of module m.
InitCall(m, c) ==
  /\ c.op # "devm" /\ c.rule # "required"
  /\ c.op = "put" => m = "mod05"
  /\ c.res = Driver => m \in Platforms
ProbeCall(c) == c.op = "get" /\ c.rule \in {"required", "unchecked"} /\ c.res # Driver
RemoveCall(c) == c.op # "get" /\ ~Guarded(c) /\ c.res # Driver
ExitCall(c) == c.op # "get" /\ ~Guarded(c)

\* The second relies on what the first asks for; it gives all of it back.
Matched(calls, gone) ==
  /\ Ordered(gone)
  /\ \A j \in 1..Len(gone) : \A r \in Demands(gone[j]) : Asks(calls, r)
Returned(calls, gone) == \A j \in 1..Len(calls) : GivenBy(gone, calls[j].res)

\* What a careful module calls: whatever fails, it follows no bad pointer.
Tame(c) ==
  c.rule # "latest" /\ (Guarded(c) \/ (c.on = Nothing /\ (c.op = "put" => c.rule = "held")))
Spared(c, s) ==
  c.op = "get" /\ c.rule \in {"untested", "unchecked"} =>
    \A i \in 1..Len(s) : c.res \notin Demands(s[i])
Modest(calls, gone) ==
  \A j \in 1..Len(calls) : Tame(calls[j]) /\ Spared(calls[j], calls) /\ Spared(calls[j], gone)

\* Nothing that could end the function in an error comes after what the kernel
\* would call.
Inert(calls) ==
  \A j \in 1..Len(calls) : Kind(calls[j].res) \in Callbacks =>
    /\ calls[j].rule \in {"chained", "latest"}
    /\ \A i \in (j + 1)..Len(calls) : calls[i].rule \in {"untested", "unchecked"}

Doorless(calls) == \A j \in 1..Len(calls) : ~IsDoor(calls[j].res)

\* What is not in the exit function is given back by the init function itself.
Settled(calls, gone) ==
  \A j \in 1..Len(calls) : calls[j].op = "get" =>
    \/ GivenBy(gone, calls[j].res)
    \/ \E i \in (j + 1)..Len(calls) : Returns(calls[i], calls[j].res)

\* The data of each door are asked for before it.
Founded(s, H) ==
  \A j \in 1..Len(s) : s[j].op = "get" /\ IsDoor(s[j].res) =>
    /\ Kind(s[j].res) = "misc"
    /\ \/ Devm(s[j].res[2]) \in H
       \/ \E i \in 1..(j - 1) : s[i].op = "get" /\ s[i].res = Devm(s[j].res[2])

\* What comes before a call that may end the probe, the driver core releases.
Backed(s) ==
  \A j \in 1..Len(s) : s[j].rule = "required" => \A i \in 1..(j - 1) : Kind(s[i].res) = "devm"

\* An init function that leaves the driver core alone and gives nothing back,
\* and its exit function.
Getting(c) == c.op = "get" /\ c.rule # "required" /\ c.res # Driver
Plain(calls, gone) ==
  /\ calls \in Seq(CallSet) /\ gone \in Seq(CallSet)
  /\ \A j \in 1..Len(calls) : Getting(calls[j])
  /\ \A j \in 1..Len(gone) : ExitCall(gone[j])
  /\ Sound(calls, {})

\* A probe and what follows a remove.
Bindable(calls, gone) ==
  /\ calls \in Seq(CallSet) /\ gone \in Seq(CallSet)
  /\ \A j \in 1..Len(calls) : ProbeCall(calls[j])
  /\ \A j \in 1..Len(gone) : RemoveCall(gone[j])
  /\ Sound(calls, {})

LEMMA Fields ==
  \A o, r, p, u : LET c == Call(o, r, p, u)
                  IN  /\ c.op = o /\ c.res = r /\ c.on = p /\ c.rule = u
                      /\ o \in {"get", "put", "devm"} /\ r \in Resource /\ p \in Resource /\ u \in RuleSet
                           => c \in CallSet
BY DEF Call, CallSet

LEMMA Cat ==
  ASSUME NEW S, NEW a \in Seq(S), NEW b \in Seq(S)
  PROVE  /\ a \o b \in Seq(S) /\ Len(a \o b) = Len(a) + Len(b)
         /\ \A j \in 1..Len(a) : (a \o b)[j] = a[j]
         /\ \A j \in 1..Len(b) : (a \o b)[Len(a) + j] = b[j]
OBVIOUS

-----------------------------------------------------------------------------
(* The functions of the modules *)

LEMMA Mod01Scripts ==
  Plain(Mod01Init.calls, Mod01Exit) /\ Matched(Mod01Init.calls, Mod01Exit)
    /\ Returned(Mod01Init.calls, Mod01Exit) /\ Modest(Mod01Init.calls, Mod01Exit)
    /\ Len(Mod01Init.calls) = 0
<1> USE DEF Mod01Init, Mod01Exit, Chained,
            Call, CallSet, RuleSet, Resource, KindSet, Nothing, InitOf
<1>1. Plain(Mod01Init.calls, Mod01Exit)
  BY DEF Plain, Getting, ExitCall, Guarded, Sound, Ordered,
         Supplied, Demands, Returns, Kind, Driver
<1>2. Matched(Mod01Init.calls, Mod01Exit)
  BY DEF Matched, Ordered, Demands, Returns, Kind, Asks
<1>3. Returned(Mod01Init.calls, Mod01Exit)
  BY DEF Returned, GivenBy, Returns, Kind
<1>4. Modest(Mod01Init.calls, Mod01Exit)
  BY DEF Modest, Tame, Spared, Guarded, Demands
<1> QED
  BY <1>1, <1>2, <1>3, <1>4

LEMMA Mod04Scripts ==
  Plain(Mod04Init.calls, Mod04Exit) /\ Matched(Mod04Init.calls, Mod04Exit)
    /\ Returned(Mod04Init.calls, Mod04Exit) /\ Modest(Mod04Init.calls, Mod04Exit)
    /\ \A j \in 1..Len(Mod04Init.calls) : Mod04Init.calls[j].rule = "unchecked"
<1> DEFINE calls == Mod04Init.calls
           gone == Mod04Exit
<1>1. /\ calls = [j \in 1..Elements |-> Unchecked(Element(j), Nothing)]
      /\ gone = [j \in 1..Elements |-> GiveIfHeld(Element(j))]
  BY KernelModulesAssumption DEF Mod04Init, InitOf, Mod04Exit, For
<1> HIDE DEF calls, gone
<1>2. ASSUME NEW j \in 1..Elements
      PROVE  /\ calls[j] \in CallSet /\ gone[j] \in CallSet
             /\ calls[j].op = "get" /\ calls[j].res = Element(j) /\ calls[j].on = Nothing /\ calls[j].rule = "unchecked"
             /\ gone[j].op = "put" /\ gone[j].res = Element(j) /\ gone[j].on = Nothing /\ gone[j].rule = "held"
  <2>1. Element(j) \in Resource /\ Nothing \in Resource
    BY KernelModulesAssumption DEF Element, Nothing, Resource, KindSet
  <2> QED
    BY <1>1, <2>1, Fields DEF Unchecked, GiveIfHeld, RuleSet
<1>3. calls \in Seq(CallSet) /\ Len(calls) = Elements /\ gone \in Seq(CallSet) /\ Len(gone) = Elements
  BY <1>1, <1>2, KernelModulesAssumption
<1>4. Plain(calls, gone)
  BY <1>2, <1>3 DEF Plain, Getting, ExitCall, Guarded, Sound, Ordered, Supplied, Driver, Element, Demands
<1>5. Matched(calls, gone)
  BY <1>2, <1>3 DEF Matched, Ordered, Demands
<1>7. Returned(calls, gone)
  BY <1>2, <1>3 DEF Returned, GivenBy, Returns, Kind
<1>8. Modest(calls, gone)
  <2>1. \A j \in 1..Elements : Demands(calls[j]) = {} /\ Demands(gone[j]) = {}
    BY <1>2 DEF Demands
  <2> QED
    BY <1>2, <1>3, <2>1 DEF Modest, Tame, Spared, Guarded
<1> QED
  BY <1>2, <1>3, <1>4, <1>5, <1>7, <1>8 DEF calls, gone

LEMMA Mod05Scripts ==
  /\ Mod05Init.calls \in Seq(CallSet) /\ Mod05Exit \in Seq(CallSet)
  /\ \A j \in 1..Len(Mod05Init.calls) : InitCall("mod05", Mod05Init.calls[j])
  /\ \A j \in 1..Len(Mod05Exit) : ExitCall(Mod05Exit[j])
  /\ Sound(Mod05Init.calls, {}) /\ Matched(Mod05Init.calls, Mod05Exit)
  /\ Settled(Mod05Init.calls, Mod05Exit) /\ Covered(Mod05Exit, {})
  /\ Modest(Mod05Init.calls, Mod05Exit) /\ Inert(Mod05Init.calls) /\ Doorless(Mod05Init.calls)
<1> DEFINE calls == Mod05Init.calls
           gone == Mod05Exit
<1>1. /\ For(3, 1, LAMBDA i : <<Noted(Map(i), Nothing)>>)
           = <<Noted(Map(1), Nothing), Noted(Map(2), Nothing), Noted(Map(3), Nothing)>>
      /\ For(3, 1, LAMBDA i : <<Tidy(Map(i))>>) = <<Tidy(Map(1)), Tidy(Map(2)), Tidy(Map(3))>>
  BY DEF For
<1>a. calls = <<Unchecked(Mem, Nothing)>>
                \o <<Noted(Map(1), Nothing), Noted(Map(2), Nothing), Noted(Map(3), Nothing)>>
                \o <<Tidy(Map(1)), Tidy(Map(2)), Tidy(Map(3))>>
  BY <1>1 DEF Mod05Init, InitOf
<1>b. gone = <<GiveIfHeld(Mem)>>
  BY DEF Mod05Exit
<1> HIDE DEF calls, gone
<1>2. /\ Len(calls) = 7 /\ calls[1] = Unchecked(Mem, Nothing)
      /\ calls[2] = Noted(Map(1), Nothing) /\ calls[3] = Noted(Map(2), Nothing) /\ calls[4] = Noted(Map(3), Nothing)
      /\ calls[5] = Tidy(Map(1)) /\ calls[6] = Tidy(Map(2)) /\ calls[7] = Tidy(Map(3))
  BY <1>a
<1>3. calls \in Seq(CallSet) /\ gone \in Seq(CallSet)
  BY <1>a, <1>b DEF Unchecked, Noted, Tidy, GiveIfHeld, Call, CallSet, RuleSet, Resource, KindSet, Mem, Map, Nothing
<1>4. /\ \A j \in 1..7 : calls[j].on = Nothing
      /\ \A j \in 1..4 : calls[j].op = "get" /\ calls[j].rule \in {"unchecked", "noted"}
      /\ \A j \in 2..4 : calls[j].rule = "noted" /\ calls[j + 3].res = calls[j].res
      /\ \A j \in 5..7 : calls[j].op = "put" /\ calls[j].rule = "chained"
      /\ calls[1].res = Mem /\ calls[2].res = Map(1) /\ calls[3].res = Map(2) /\ calls[4].res = Map(3)
      /\ calls[5].res = Map(1) /\ calls[6].res = Map(2) /\ calls[7].res = Map(3)
  BY <1>2 DEF Unchecked, Noted, Tidy, Call
<1>5. Len(gone) = 1 /\ gone[1].op = "put" /\ gone[1].res = Mem /\ gone[1].on = Nothing /\ gone[1].rule = "held"
  BY <1>b DEF GiveIfHeld, Call
<1>6. /\ \A j \in 1..7 : calls[j].res \in {Mem, Map(1), Map(2), Map(3)}
      /\ \A j \in 1..7 : calls[j].rule \in {"unchecked", "noted", "chained"}
  BY <1>4
<1>7. \A r \in {Mem, Map(1), Map(2), Map(3)} : r # Driver /\ ~IsDoor(r) /\ Kind(r) \notin Callbacks
  BY DEF Mem, Map, Driver, IsDoor, Kind, Callbacks
<1>8. Demands(gone[1]) = {} /\ \A j \in 1..7 : Demands(calls[j]) \subseteq IF j <= 4 THEN {} ELSE {calls[j].res}
  BY <1>4, <1>5 DEF Demands
<1>9. (\A j \in 1..7 : InitCall("mod05", calls[j])) /\ \A j \in 1..1 : ExitCall(gone[j])
  BY <1>4, <1>5, <1>6, <1>7 DEF InitCall, ExitCall, Guarded
<1>10. Sound(calls, {})
  <2>1. Supplied(calls, {})
    BY <1>2, <1>4, <1>8 DEF Supplied
  <2>2. Ordered(calls)
    BY <1>2, <1>4, <1>8 DEF Ordered, Returns, Map
  <2> QED
    BY <2>1, <2>2 DEF Sound
<1>11. Matched(calls, gone) /\ Covered(gone, {})
  BY <1>5, <1>8 DEF Matched, Ordered, Covered
<1>12. Settled(calls, gone)
  <2>1. GivenBy(gone, calls[1].res)
    BY <1>4, <1>5 DEF GivenBy, Returns
  <2>2. \A j \in 2..4 : j + 3 \in (j + 1)..7 /\ Returns(calls[j + 3], calls[j].res)
    BY <1>4 DEF Returns
  <2>3. \A j \in 1..7 : calls[j].op = "get" => j = 1 \/ j \in 2..4
    BY <1>4
  <2> QED
    BY <1>2, <2>1, <2>2, <2>3 DEF Settled
<1>13. Modest(calls, gone)
  <2>1. \A j \in 1..7 : Tame(calls[j])
    BY <1>4, <1>6 DEF Tame, Guarded
  <2>2. \A j \in 1..7 : calls[j].op = "get" /\ calls[j].rule \in {"untested", "unchecked"} => calls[j].res = Mem
    BY <1>4
  <2>3. \A j \in 1..7 : Mem \notin Demands(calls[j])
    BY <1>4, <1>8 DEF Mem, Map
  <2> QED
    BY <1>2, <1>5, <1>8, <2>1, <2>2, <2>3 DEF Modest, Spared
<1>14. Inert(calls) /\ Doorless(calls)
  BY <1>2, <1>6, <1>7 DEF Inert, Doorless
<1> QED
  BY <1>2, <1>3, <1>5, <1>9, <1>10, <1>11, <1>12, <1>13, <1>14 DEF calls, gone

LEMMA Mod06Scripts ==
  Plain(Mod06Init.calls, Mod06Exit) /\ Matched(Mod06Init.calls, Mod06Exit)
    /\ Returned(Mod06Init.calls, Mod06Exit)
<1> USE DEF Mod06Init, Mod06Exit, Unchecked, Give, Thread,
            Call, CallSet, RuleSet, Resource, KindSet, Nothing, InitOf
<1>1. Plain(Mod06Init.calls, Mod06Exit)
  BY DEF Plain, Getting, ExitCall, Guarded, Sound, Ordered,
         Supplied, Demands, Returns, Kind, Driver
<1>2. Matched(Mod06Init.calls, Mod06Exit)
  BY DEF Matched, Ordered, Demands, Returns, Kind, Asks
<1>3. Returned(Mod06Init.calls, Mod06Exit)
  BY DEF Returned, GivenBy, Returns, Kind
<1> QED
  BY <1>1, <1>2, <1>3

LEMMA Mod07Scripts ==
  Plain(Mod07Init.calls, Mod07Exit) /\ Matched(Mod07Init.calls, Mod07Exit)
    /\ Returned(Mod07Init.calls, Mod07Exit)
<1> USE DEF Call, CallSet, RuleSet, Resource, KindSet, Nothing, Unchecked, Give, Thread
<1>1. Mod07Init.calls = <<Unchecked(Thread(1), Nothing), Unchecked(Thread(2), Nothing)>>
  BY DEF Mod07Init, InitOf, For
<1>2. Plain(Mod07Init.calls, Mod07Exit)
  BY <1>1 DEF Mod07Exit, Plain, Getting, ExitCall, Guarded, Sound, Ordered, Supplied, Demands, Returns, Kind, Driver
<1>3. Matched(Mod07Init.calls, Mod07Exit)
  BY <1>1 DEF Mod07Exit, Matched, Ordered, Demands, Returns, Kind, Asks
<1>4. Returned(Mod07Init.calls, Mod07Exit)
  BY <1>1 DEF Mod07Exit, Returned, GivenBy, Returns, Kind
<1> QED
  BY <1>2, <1>3, <1>4

LEMMA Mod08Scripts ==
  Plain(Mod08Init.calls, Mod08Exit) /\ Matched(Mod08Init.calls, Mod08Exit)
    /\ Returned(Mod08Init.calls, Mod08Exit) /\ Modest(Mod08Init.calls, Mod08Exit)
    /\ Doorless(Mod08Init.calls)
<1> DEFINE calls == Mod08Init.calls
           gone == Mod08Exit
<1>1. /\ calls = <<Chained(Gpio(1), Nothing), Chained(Irq(1), Nothing),
                   Chained(Gpio(2), Nothing), Chained(Irq(2), Nothing),
                   Chained(Gpio(3), Nothing), Chained(Irq(3), Nothing)>>
      /\ gone = <<Give(Gpio(1), Nothing), Give(Irq(1), Nothing),
                  Give(Gpio(2), Nothing), Give(Irq(2), Nothing),
                  Give(Gpio(3), Nothing), Give(Irq(3), Nothing)>>
  BY DEF Mod08Init, InitOf, Mod08Calls, Mod08Exit, For
<1>2. calls \in Seq(CallSet) /\ gone \in Seq(CallSet) /\ Len(calls) = 6 /\ Len(gone) = 6
  BY <1>1 DEF Chained, Give, Call, CallSet, RuleSet, Resource, KindSet, Gpio, Irq, Nothing
<1>3. \A j \in 1..6 : /\ calls[j].op = "get" /\ calls[j].on = Nothing /\ calls[j].rule = "chained"
                      /\ gone[j].op = "put" /\ gone[j].on = Nothing /\ gone[j].rule = "always"
                      /\ gone[j].res = calls[j].res
  BY <1>1 DEF Chained, Give, Call
<1>4. /\ gone[1].res = Gpio(1) /\ gone[2].res = Irq(1) /\ gone[3].res = Gpio(2)
      /\ gone[4].res = Irq(2) /\ gone[5].res = Gpio(3) /\ gone[6].res = Irq(3)
  BY <1>1 DEF Give, Call
<1> HIDE DEF calls, gone
<1>5. \A i, j \in 1..6 : i < j => gone[i].res # gone[j].res
  BY <1>4 DEF Gpio, Irq
<1>a. \A j \in 1..6 : calls[j].res # Driver /\ ~IsDoor(calls[j].res)
  BY <1>3, <1>4 DEF Gpio, Irq, Driver, IsDoor, Kind
<1>6. Plain(calls, gone)
  BY <1>2, <1>3, <1>a DEF Plain, Getting, ExitCall, Guarded, Sound, Ordered, Supplied, Demands, Returns
<1>7. Matched(calls, gone)
  BY <1>2, <1>3, <1>5 DEF Matched, Ordered, Demands, Returns, Asks
<1>8. Returned(calls, gone)
  BY <1>2, <1>3 DEF Returned, GivenBy, Returns
<1>9. Modest(calls, gone)
  BY <1>2, <1>3 DEF Modest, Tame, Spared, Guarded
<1>10. Doorless(calls)
  BY <1>2, <1>a DEF Doorless
<1> QED
  BY <1>6, <1>7, <1>8, <1>9, <1>10 DEF calls, gone

LEMMA Drv02Scripts ==
  Plain(Drv02Init.calls, Drv02Exit) /\ Matched(Drv02Init.calls, Drv02Exit)
    /\ Returned(Drv02Init.calls, Drv02Exit)
<1> USE DEF Drv02Init, Drv02Exit, CdevCalls, CdevGone, Chained, Give, Region, Cdev,
            Call, CallSet, RuleSet, Resource, KindSet, Nothing, InitOf
<1>1. Plain(Drv02Init.calls, Drv02Exit)
  BY DEF Plain, Getting, ExitCall, Guarded, Sound, Ordered,
         Supplied, Demands, Returns, Kind, Driver
<1>2. Matched(Drv02Init.calls, Drv02Exit)
  BY DEF Matched, Ordered, Demands, Returns, Kind, Asks
<1>3. Returned(Drv02Init.calls, Drv02Exit)
  BY DEF Returned, GivenBy, Returns, Kind
<1> QED
  BY <1>1, <1>2, <1>3

LEMMA Drv03Scripts ==
  Plain(Drv03Init.calls, Drv03Exit) /\ Matched(Drv03Init.calls, Drv03Exit)
    /\ Returned(Drv03Init.calls, Drv03Exit) /\ Inert(Drv03Init.calls)
    /\ Asks(Drv03Init.calls, Buffers) /\ Asks(Drv03Init.calls, Buffer(1))
<1>0. Instances \in Nat /\ Instances > 0
  BY KernelModulesAssumption
<1> DEFINE calls == Drv03Init.calls
           gone == Drv03Exit
           front == CdevCalls \o <<Untested(Buffers, Nothing)>>
           got == [j \in 1..Instances |-> Untested(Buffer(j), Buffers)]
           put == [j \in 1..Instances |-> GiveFrom(Buffers, Buffer(j))]
           last == <<GiveIfHeld(Buffers)>>
<1>1. calls = front \o got /\ gone = (CdevGone \o put) \o last
  <2>1. For(Instances, 1, LAMBDA i : <<Untested(Buffer(i), Buffers)>>) = got
    BY <1>0 DEF For
  <2>2. For(Instances, 1, LAMBDA i : <<GiveFrom(Buffers, Buffer(i))>>) = put
    BY <1>0 DEF For
  <2> QED
    BY <2>1, <2>2 DEF Drv03Init, Drv03Exit, InitOf
<1>2. ASSUME NEW j \in 1..Instances
      PROVE  /\ got[j] \in CallSet /\ put[j] \in CallSet
             /\ got[j].op = "get" /\ got[j].res = Buffer(j) /\ got[j].on = Buffers /\ got[j].rule = "untested"
             /\ put[j].op = "put" /\ put[j].res = Buffer(j) /\ put[j].on = Buffers /\ put[j].rule = "held"
  <2>1. Buffer(j) \in Resource /\ Buffers \in Resource
    BY <1>0 DEF Buffer, Buffers, Resource, KindSet
  <2> QED
    BY <2>1, Fields DEF Untested, GiveFrom, RuleSet
<1>3. got \in Seq(CallSet) /\ Len(got) = Instances /\ put \in Seq(CallSet) /\ Len(put) = Instances
  BY <1>2, <1>0
<1> HIDE DEF got, put
<1>4. /\ front \in Seq(CallSet) /\ Len(front) = 3 /\ front[2].rule = "chained" /\ front[3].rule = "untested"
      /\ \A j \in 1..3 : front[j].op = "get" /\ front[j].on = Nothing /\ front[j].rule # "required"
      /\ front[1].res = Region /\ front[2].res = Cdev /\ front[3].res = Buffers
  BY DEF CdevCalls, Chained, Untested, Call, CallSet, Resource, KindSet, RuleSet, Region, Cdev, Buffers, Nothing
<1>5. /\ CdevGone \in Seq(CallSet) /\ Len(CdevGone) = 2
      /\ \A j \in 1..2 : CdevGone[j].op = "put" /\ CdevGone[j].on = Nothing /\ CdevGone[j].rule = "always"
      /\ CdevGone[1].res = Cdev /\ CdevGone[2].res = Region
  BY DEF CdevGone, Give, Call, CallSet, Resource, KindSet, RuleSet, Region, Cdev, Nothing
<1>6. /\ last \in Seq(CallSet) /\ Len(last) = 1
      /\ last[1].op = "put" /\ last[1].res = Buffers /\ last[1].on = Nothing /\ last[1].rule = "held"
  BY DEF GiveIfHeld, Call, CallSet, Resource, KindSet, RuleSet, Buffers, Nothing
<1> HIDE DEF calls, gone, front, last
<1>7. /\ calls \in Seq(CallSet) /\ Len(calls) = Instances + 3
      /\ calls[1] = front[1] /\ calls[2] = front[2] /\ calls[3] = front[3]
      /\ \A j \in 1..Instances : calls[3 + j] = got[j]
  <2>1. /\ calls \in Seq(CallSet) /\ Len(calls) = Len(front) + Len(got)
        /\ \A j \in 1..Len(front) : calls[j] = front[j]
        /\ \A j \in 1..Len(got) : calls[Len(front) + j] = got[j]
    <3>1. front \in Seq(CallSet) /\ got \in Seq(CallSet) /\ calls = front \o got
      BY <1>1, <1>3, <1>4
    <3> QED
      BY <3>1, Cat
  <2> QED
    BY <1>3, <1>4, <2>1, <1>0
<1>8. /\ gone \in Seq(CallSet) /\ Len(gone) = Instances + 3
      /\ gone[1] = CdevGone[1] /\ gone[2] = CdevGone[2]
      /\ \A j \in 1..Instances : gone[2 + j] = put[j]
      /\ gone[Instances + 3] = last[1]
  <2> DEFINE most == CdevGone \o put
  <2>1. /\ most \in Seq(CallSet) /\ Len(most) = 2 + Instances /\ most[1] = CdevGone[1] /\ most[2] = CdevGone[2]
        /\ \A j \in 1..Instances : most[2 + j] = put[j]
    <3>1. /\ most \in Seq(CallSet) /\ Len(most) = Len(CdevGone) + Len(put)
          /\ \A j \in 1..Len(CdevGone) : most[j] = CdevGone[j]
          /\ \A j \in 1..Len(put) : most[Len(CdevGone) + j] = put[j]
      <4>1. CdevGone \in Seq(CallSet) /\ put \in Seq(CallSet)
        BY <1>3, <1>5
      <4> QED
        BY <4>1, Cat
    <3> HIDE DEF most
    <3> QED
      BY <1>3, <1>5, <3>1, <1>0
  <2>2. gone = most \o last
    BY <1>1
  <2> HIDE DEF most
  <2>3. /\ gone \in Seq(CallSet) /\ Len(gone) = Len(most) + 1
        /\ \A j \in 1..Len(most) : gone[j] = most[j]
        /\ gone[Len(most) + 1] = last[1]
    BY <2>1, <2>2, <1>6, Cat
  <2>4. \A j \in 1..Instances : 2 + j \in 1..Len(most)
    BY <2>1, <1>0
  <2> QED
    BY <2>1, <2>3, <2>4, <1>0
<1>9. \A j \in 1..Len(calls) : j \in {1, 2, 3} \/ \E i \in 1..Instances : j = 3 + i
  <2> SUFFICES ASSUME NEW j \in 1..Len(calls), j \notin {1, 2, 3} PROVE j - 3 \in 1..Instances /\ j = 3 + (j - 3)
    OBVIOUS
  <2> QED
    BY <1>7, <1>0
<1>10. \A j \in 1..Len(gone) : j \in {1, 2, Instances + 3} \/ \E i \in 1..Instances : j = 2 + i
  <2> SUFFICES ASSUME NEW j \in 1..Len(gone), j \notin {1, 2, Instances + 3}
               PROVE  j - 2 \in 1..Instances /\ j = 2 + (j - 2)
    OBVIOUS
  <2> QED
    BY <1>8, <1>0
<1>11. \A j \in 1..Len(calls) :
         /\ calls[j].op = "get" /\ calls[j].rule # "required"
         /\ calls[j].on = Nothing \/ (calls[j].on = Buffers /\ j > 3)
  BY <1>2, <1>4, <1>7, <1>9
<1>12. \A j \in 1..Len(gone) :
         /\ gone[j].op = "put" /\ ~Guarded(gone[j])
         /\ \A r \in Demands(gone[j]) : (r = Cdev /\ j = 1) \/ (r = Region /\ j = 2) \/ r = Buffers
  BY <1>2, <1>5, <1>6, <1>8, <1>10 DEF Demands, Guarded
<1>13. \A j \in 1..Len(gone) : gone[j].res = Buffers => j = Len(gone)
  BY <1>2, <1>5, <1>6, <1>8, <1>10 DEF Buffers, Buffer, Cdev, Region
<1>14. Ordered(calls) /\ Ordered(gone)
  <2>1. \A j \in 1..Len(calls) : \A r : ~Returns(calls[j], r)
    BY <1>11 DEF Returns
  <2>2. ASSUME NEW j \in 1..Len(gone), NEW r \in Demands(gone[j]), NEW i \in 1..(j - 1)
        PROVE  ~Returns(gone[i], r)
    <3>1. i \in 1..Len(gone) /\ i < j /\ i >= 1 /\ gone[i].op = "put"
      BY <1>8, <1>12, <1>0
    <3>2. CASE r = Buffers
      BY <3>1, <3>2, <1>8, <1>13 DEF Returns
    <3>3. CASE r = Region /\ j = 2
      BY <3>1, <3>3, <1>5, <1>8 DEF Returns, Cdev, Region
    <3>4. CASE r = Cdev /\ j = 1
      BY <3>1, <3>4
    <3> QED
      BY <3>2, <3>3, <3>4, <1>12
  <2>3. \A j \in 1..Len(calls) : \A i \in 1..(j - 1) : i \in 1..Len(calls)
    BY <1>7, <1>0
  <2> QED
    BY <2>1, <2>2, <2>3 DEF Ordered
<1>15. Plain(calls, gone)
  <2>1. \A j \in 1..Len(calls) : Getting(calls[j])
    <3>1. ASSUME NEW j \in 1..Len(calls) PROVE calls[j].res # Driver
      <4>1. \A i \in Nat : Driver \notin {Region, Cdev, Buffers, Buffer(i)}
        BY DEF Region, Cdev, Buffers, Buffer, Driver
      <4>2. CASE j \in {1, 2, 3}
        BY <4>1, <4>2, <1>4, <1>7
      <4>3. CASE \E i \in 1..Instances : j = 3 + i
        <5>1. PICK i \in 1..Instances : j = 3 + i
          BY <4>3
        <5>2. calls[j].res = Buffer(i) /\ i \in Nat
          BY <5>1, <1>0, <1>2, <1>7
        <5> QED
          BY <5>2, <4>1
      <4> QED
        BY <4>2, <4>3, <1>9
    <3> QED
      BY <1>11, <3>1 DEF Getting
  <2>2. Supplied(calls, {})
    BY <1>4, <1>7, <1>11, <1>0 DEF Supplied, Demands
  <2>3. \A j \in 1..Len(gone) : ExitCall(gone[j])
    BY <1>12 DEF ExitCall
  <2> QED
    BY <2>1, <2>2, <2>3, <1>7, <1>8, <1>14 DEF Plain, Sound
<1>16. Matched(calls, gone)
  <2>1. 1 \in 1..Len(calls) /\ 2 \in 1..Len(calls) /\ 3 \in 1..Len(calls)
    BY <1>7, <1>0
  <2>2. Asks(calls, Region) /\ Asks(calls, Cdev) /\ Asks(calls, Buffers)
    BY <2>1, <1>4, <1>7 DEF Asks
  <2> QED
    BY <2>2, <1>12, <1>14 DEF Matched
<1>17. Returned(calls, gone)
  <2>1. ASSUME NEW j \in 1..Instances
        PROVE  Returns(gone[2 + j], calls[3 + j].res) /\ 2 + j \in 1..Len(gone)
    <3>1. gone[2 + j] = put[j] /\ calls[3 + j] = got[j]
      BY <1>7, <1>8
    <3>2. put[j].op = "put" /\ put[j].res = got[j].res
      BY <1>2
    <3> QED
      BY <3>1, <3>2, <1>8, <1>0 DEF Returns
  <2>2. /\ Returns(gone[2], calls[1].res) /\ Returns(gone[1], calls[2].res)
        /\ Returns(gone[Instances + 3], calls[3].res)
    BY <1>4, <1>5, <1>6, <1>7, <1>8 DEF Returns, Kind
  <2>3. {1, 2, Instances + 3} \subseteq 1..Len(gone)
    BY <1>8, <1>0
  <2> QED
    BY <1>9, <2>1, <2>2, <2>3 DEF Returned, GivenBy
<1>18. Inert(calls)
  <2>1. \A j \in 1..Len(calls) : Kind(calls[j].res) \in Callbacks => j = 2
    BY <1>2, <1>4, <1>7, <1>9 DEF Kind, Callbacks, Region, Cdev, Buffers, Buffer
  <2>2. \A j \in 1..Len(calls) : j > 2 => calls[j].rule = "untested"
    BY <1>2, <1>4, <1>7, <1>9
  <2>3. \A i \in (2 + 1)..Len(calls) : i \in 1..Len(calls) /\ i > 2
    OBVIOUS
  <2> QED
    BY <1>4, <1>7, <2>1, <2>2, <2>3 DEF Inert
<1>19. Asks(calls, Buffers) /\ Asks(calls, Buffer(1))
  <2>1. 3 \in 1..Len(calls) /\ 3 + 1 \in 1..Len(calls) /\ 1 \in 1..Instances
    BY <1>7, <1>0
  <2>2. calls[3 + 1].op = "get" /\ calls[3 + 1].res = Buffer(1)
    BY <1>2, <1>7, <2>1
  <2> QED
    BY <1>4, <1>7, <2>1, <2>2 DEF Asks
<1> QED
  BY <1>15, <1>16, <1>17, <1>18, <1>19 DEF calls, gone

LEMMA Drv05Scripts ==
  Plain(Drv05Init.calls, Drv05Exit) /\ Matched(Drv05Init.calls, Drv05Exit)
    /\ Returned(Drv05Init.calls, Drv05Exit)
<1> USE DEF Drv05Init, Drv05Exit, ClassCalls, ClassGone, Chained, Unchecked, Give, GiveIfHeld, Class, Device, File,
            Call, CallSet, RuleSet, Resource, KindSet, Nothing, InitOf
<1>1. Plain(Drv05Init.calls, Drv05Exit)
  BY DEF Plain, Getting, ExitCall, Guarded, Sound, Ordered,
         Supplied, Demands, Returns, Kind, Driver
<1>2. Matched(Drv05Init.calls, Drv05Exit)
  BY DEF Matched, Ordered, Demands, Returns, Kind, Asks
<1>3. Returned(Drv05Init.calls, Drv05Exit)
  BY DEF Returned, GivenBy, Returns, Kind
<1> QED
  BY <1>1, <1>2, <1>3

LEMMA Drv05_1Scripts == Plain(Drv05_1Init.calls, Drv05_1Exit)
<1> DEFINE calls == Drv05_1Init.calls
           gone == Drv05_1Exit
<1>1. /\ calls = CdevCalls \o ClassCalls(1) /\ gone = ClassGone(1) \o CdevGone
  BY DEF Drv05_1Init, Drv05_1Exit, InitOf
<1> HIDE DEF calls, gone
<1>2. /\ Len(calls) = 6 /\ calls[1] = Chained(Region, Nothing) /\ calls[2] = Chained(Cdev, Nothing)
      /\ calls[3] = Unchecked(Class, Nothing) /\ calls[4] = Unchecked(Device(1), Class)
      /\ calls[5] = Chained(File(1), Device(1)) /\ calls[6] = Chained(File(2), Device(1))
      /\ Len(gone) = 6 /\ gone[1] = Give(File(1), Device(1)) /\ gone[2] = Give(File(2), Device(1))
      /\ gone[3] = Give(Device(0), Class) /\ gone[4] = GiveIfHeld(Class)
      /\ gone[5] = Give(Cdev, Nothing) /\ gone[6] = Give(Region, Nothing)
  BY <1>1 DEF CdevCalls, ClassCalls, CdevGone, ClassGone
<1>3. calls \in Seq(CallSet) /\ gone \in Seq(CallSet)
  BY <1>1 DEF CdevCalls, ClassCalls, CdevGone, ClassGone, Chained, Unchecked, Give, GiveIfHeld, Call, CallSet, RuleSet,
              Resource, KindSet, Region, Cdev, Class, Device, File, Nothing
<1>4. \A j \in 1..6 : Getting(calls[j]) /\ ExitCall(gone[j]) /\ calls[j].op = "get"
  BY <1>2 DEF Getting, ExitCall, Guarded, Chained, Unchecked, Give, GiveIfHeld, Call,
              Region, Cdev, Class, Device, File, Driver
<1>5. Ordered(calls)
  BY <1>2, <1>4 DEF Ordered, Returns
<1>6. Supplied(calls, {})
  BY <1>2, <1>4 DEF Supplied, Demands, Chained, Unchecked, Call
<1> QED
  BY <1>2, <1>3, <1>4, <1>5, <1>6 DEF Plain, Sound, calls, gone

LEMMA Drv07Scripts ==
  Plain(Drv07Init.calls, Drv07Exit) /\ Matched(Drv07Init.calls, Drv07Exit)
    /\ Returned(Drv07Init.calls, Drv07Exit) /\ Modest(Drv07Init.calls, Drv07Exit)
<1>1. /\ For(3, 1, LAMBDA i : <<Chained(Irq(i), Misc(0))>>)
           = <<Chained(Irq(1), Misc(0)), Chained(Irq(2), Misc(0)), Chained(Irq(3), Misc(0))>>
      /\ For(3, 1, LAMBDA i : <<GiveIfHeld(Irq(i))>>)
           = <<GiveIfHeld(Irq(1)), GiveIfHeld(Irq(2)), GiveIfHeld(Irq(3))>>
  BY DEF For
<1> DEFINE calls == Drv07Init.calls
           gone == Drv07Exit
<1>a. /\ calls = <<Chained(Misc(0), Nothing)>>
                   \o <<Chained(Irq(1), Misc(0)), Chained(Irq(2), Misc(0)), Chained(Irq(3), Misc(0))>>
      /\ gone = <<Give(Misc(0), Nothing)>> \o <<GiveIfHeld(Irq(1)), GiveIfHeld(Irq(2)), GiveIfHeld(Irq(3))>>
  BY <1>1 DEF Drv07Init, InitOf, Drv07Exit
<1> HIDE DEF calls, gone
<1>2. /\ Len(calls) = 4 /\ calls[1] = Chained(Misc(0), Nothing) /\ calls[2] = Chained(Irq(1), Misc(0))
      /\ calls[3] = Chained(Irq(2), Misc(0)) /\ calls[4] = Chained(Irq(3), Misc(0))
      /\ Len(gone) = 4 /\ gone[1] = Give(Misc(0), Nothing)
      /\ gone[2] = GiveIfHeld(Irq(1)) /\ gone[3] = GiveIfHeld(Irq(2)) /\ gone[4] = GiveIfHeld(Irq(3))
  BY <1>a
<1>3. calls \in Seq(CallSet) /\ gone \in Seq(CallSet)
  BY <1>a DEF Chained, Give, GiveIfHeld, Call, CallSet, RuleSet, Resource, KindSet,
              Nothing, Misc, Irq
<1> USE DEF Chained, Give, GiveIfHeld, Call, Nothing, Misc, Irq
<1>b. Ordered(calls) /\ Supplied(calls, {})
  BY <1>2 DEF Ordered, Supplied, Demands, Returns, Kind
<1>c. \A j \in 1..4 : Getting(calls[j]) /\ ExitCall(gone[j])
  BY <1>2 DEF Getting, ExitCall, Guarded, Driver
<1>4. Plain(calls, gone)
  BY <1>2, <1>3, <1>b, <1>c DEF Plain, Sound
<1>5. Matched(calls, gone)
  BY <1>2 DEF Matched, Ordered, Demands, Returns, Kind, Asks
<1>6. Returned(calls, gone)
  BY <1>2 DEF Returned, GivenBy, Returns, Kind
<1>7. Modest(calls, gone)
  BY <1>2 DEF Modest, Tame, Spared, Guarded
<1> QED
  BY <1>4, <1>5, <1>6, <1>7 DEF calls, gone

LEMMA Drv08Scripts ==
  Plain(Drv08Init.calls, Drv08Exit) /\ Matched(Drv08Init.calls, Drv08Exit)
    /\ Returned(Drv08Init.calls, Drv08Exit)
<1> USE DEF Drv08Init, Drv08Exit, CdevCalls, CdevGone, Chained, Give, Region, Cdev, Pdev,
            Call, CallSet, RuleSet, Resource, KindSet, Nothing, InitOf
<1>1. Plain(Drv08Init.calls, Drv08Exit)
  BY DEF Plain, Getting, ExitCall, Guarded, Sound, Ordered,
         Supplied, Demands, Returns, Kind, Driver
<1>2. Matched(Drv08Init.calls, Drv08Exit)
  BY DEF Matched, Ordered, Demands, Returns, Kind, Asks
<1>3. Returned(Drv08Init.calls, Drv08Exit)
  BY DEF Returned, GivenBy, Returns, Kind
<1> QED
  BY <1>1, <1>2, <1>3

LEMMA Drv10Scripts ==
  Plain(Drv10Init.calls, Drv10Exit) /\ Matched(Drv10Init.calls, Drv10Exit)
    /\ Returned(Drv10Init.calls, Drv10Exit) /\ Doorless(Drv10Init.calls)
<1> USE DEF Drv10Init, Drv10Exit, Noted, Unchecked, Give, Proc,
            Call, CallSet, RuleSet, Resource, KindSet, Nothing, InitOf
<1>1. Plain(Drv10Init.calls, Drv10Exit)
  BY DEF Plain, Getting, ExitCall, Guarded, Sound, Ordered,
         Supplied, Demands, Returns, Kind, Driver
<1>2. Matched(Drv10Init.calls, Drv10Exit)
  BY DEF Matched, Ordered, Demands, Returns, Kind, Asks
<1>3. Returned(Drv10Init.calls, Drv10Exit)
  BY DEF Returned, GivenBy, Returns, Kind
<1>4. Doorless(Drv10Init.calls)
  BY DEF Doorless, IsDoor, Kind
<1> QED
  BY <1>1, <1>2, <1>3, <1>4

LEMMA Sample05Scripts ==
  Plain(Sample05Init.calls, Sample05Exit) /\ Matched(Sample05Init.calls, Sample05Exit)
    /\ Returned(Sample05Init.calls, Sample05Exit) /\ Doorless(Sample05Init.calls) /\ Inert(Sample05Init.calls)
<1> USE DEF Sample05Init, Sample05Exit, Latest, Unchecked, Give, GiveIfHeld, Class, Device, File,
            Call, CallSet, RuleSet, Resource, KindSet, Nothing, InitOf
<1>1. Plain(Sample05Init.calls, Sample05Exit)
  BY DEF Plain, Getting, ExitCall, Guarded, Sound, Ordered,
         Supplied, Demands, Returns, Kind, Driver
<1>2. Matched(Sample05Init.calls, Sample05Exit)
  BY DEF Matched, Ordered, Demands, Returns, Kind, Asks
<1>3. Returned(Sample05Init.calls, Sample05Exit)
  BY DEF Returned, GivenBy, Returns, Kind
<1>4. Doorless(Sample05Init.calls)
  BY DEF Doorless, IsDoor, Kind
<1>5. Inert(Sample05Init.calls)
  BY DEF Inert, Callbacks, Kind
<1> QED
  BY <1>1, <1>2, <1>3, <1>4, <1>5

LEMMA Sample05_1Scripts ==
  Plain(Sample05_1Init.calls, Sample05_1Exit) /\ Matched(Sample05_1Init.calls, Sample05_1Exit)
    /\ Returned(Sample05_1Init.calls, Sample05_1Exit) /\ Doorless(Sample05_1Init.calls)
<1> DEFINE calls == Sample05_1Init.calls
           gone == Sample05_1Exit
           more == For(5, 2, LAMBDA i : <<Unchecked(Device(i), Class), Latest(File(i), Device(i))>>)
           less == For(5, 2, LAMBDA i : <<Give(File(i), Device(i)), Give(Device(i), Class)>>)
<1>1. calls = <<Unchecked(Class, Nothing)>> \o more /\ gone = less \o <<GiveIfHeld(Class)>>
  BY DEF Sample05_1Init, Sample05_1Exit, InitOf
<1>2. /\ more = [j \in 1..10 |->
                   <<Unchecked(Device(((j - 1) \div 2) + 1), Class),
                     Latest(File(((j - 1) \div 2) + 1), Device(((j - 1) \div 2) + 1))>>[((j - 1) % 2) + 1]]
      /\ less = [j \in 1..10 |->
                   <<Give(File(((j - 1) \div 2) + 1), Device(((j - 1) \div 2) + 1)),
                     Give(Device(((j - 1) \div 2) + 1), Class)>>[((j - 1) % 2) + 1]]
  BY DEF For
<1> HIDE DEF calls, gone, more, less
<1>3. ASSUME NEW i \in 1..5
      PROVE  /\ more[2 * i - 1] = Unchecked(Device(i), Class) /\ more[2 * i] = Latest(File(i), Device(i))
             /\ less[2 * i - 1] = Give(File(i), Device(i)) /\ less[2 * i] = Give(Device(i), Class)
  <2>1. 2 * i - 1 \in 1..10 /\ 2 * i \in 1..10 /\ ((2 * i - 1 - 1) \div 2) + 1 = i /\ ((2 * i - 1) \div 2) + 1 = i
        /\ ((2 * i - 1 - 1) % 2) + 1 = 1 /\ ((2 * i - 1) % 2) + 1 = 2
    OBVIOUS
  <2> QED
    BY <1>2, <2>1
<1>4. more \in Seq(CallSet) /\ Len(more) = 10 /\ less \in Seq(CallSet) /\ Len(less) = 10
  <2>1. \A k \in 1..10 : \E i \in 1..5 : k = 2 * i - 1 \/ k = 2 * i
    OBVIOUS
  <2>2. ASSUME NEW i \in 1..5
        PROVE  /\ more[2 * i - 1] \in CallSet /\ more[2 * i] \in CallSet
               /\ less[2 * i - 1] \in CallSet /\ less[2 * i] \in CallSet
    <3>1. {Device(i), File(i), Class} \subseteq Resource
      BY DEF Device, File, Class, Resource, KindSet
    <3> QED
      BY <1>3, <3>1, Fields DEF Unchecked, Latest, Give, RuleSet
  <2>3. \A k \in 1..10 : more[k] \in CallSet /\ less[k] \in CallSet
    BY <2>1, <2>2
  <2> QED
    BY <1>2, <2>3
<1>5. /\ <<Unchecked(Class, Nothing)>> \in Seq(CallSet) /\ Len(<<Unchecked(Class, Nothing)>>) = 1
      /\ <<GiveIfHeld(Class)>> \in Seq(CallSet) /\ Len(<<GiveIfHeld(Class)>>) = 1
  BY DEF Unchecked, GiveIfHeld, Call, CallSet, RuleSet, Resource, KindSet, Class, Nothing
<1>6. /\ calls \in Seq(CallSet) /\ Len(calls) = 11 /\ calls[1] = Unchecked(Class, Nothing)
      /\ \A k \in 1..10 : calls[1 + k] = more[k]
  <2> DEFINE one == <<Unchecked(Class, Nothing)>>
  <2>1. calls = one \o more /\ one \in Seq(CallSet) /\ more \in Seq(CallSet) /\ less \in Seq(CallSet)
    BY <1>1, <1>4, <1>5
  <2>3. Len(one) = 1 /\ one[1] = Unchecked(Class, Nothing)
    OBVIOUS
  <2> HIDE DEF one
  <2>2. /\ calls \in Seq(CallSet) /\ Len(calls) = Len(one) + Len(more)
        /\ \A k \in 1..Len(one) : calls[k] = one[k]
        /\ \A k \in 1..Len(more) : calls[Len(one) + k] = more[k]
    BY <2>1, Cat
  <2> QED
    BY <2>2, <2>3, <1>4
<1>7. /\ gone \in Seq(CallSet) /\ Len(gone) = 11 /\ gone[11] = GiveIfHeld(Class)
      /\ \A k \in 1..10 : gone[k] = less[k]
  <2> DEFINE one == <<GiveIfHeld(Class)>>
  <2>1. gone = less \o one /\ one \in Seq(CallSet) /\ more \in Seq(CallSet) /\ less \in Seq(CallSet)
    BY <1>1, <1>4, <1>5
  <2>3. Len(one) = 1 /\ one[1] = GiveIfHeld(Class)
    OBVIOUS
  <2> HIDE DEF one
  <2>2. /\ gone \in Seq(CallSet) /\ Len(gone) = Len(less) + Len(one)
        /\ \A k \in 1..Len(less) : gone[k] = less[k]
        /\ \A k \in 1..Len(one) : gone[Len(less) + k] = one[k]
    BY <2>1, Cat
  <2> QED
    BY <2>2, <2>3, <1>4
<1>8. /\ calls[1].op = "get" /\ calls[1].res = Class /\ calls[1].on = Nothing /\ calls[1].rule = "unchecked"
      /\ gone[11].op = "put" /\ gone[11].res = Class /\ gone[11].on = Nothing /\ gone[11].rule = "held"
  BY <1>6, <1>7, Fields DEF Unchecked, GiveIfHeld
<1>9. ASSUME NEW i \in 1..5
      PROVE  /\ calls[2 * i].op = "get" /\ calls[2 * i].res = Device(i)
             /\ calls[2 * i].on = Class /\ calls[2 * i].rule = "unchecked"
             /\ calls[2 * i + 1].op = "get" /\ calls[2 * i + 1].res = File(i)
             /\ calls[2 * i + 1].on = Device(i) /\ calls[2 * i + 1].rule = "latest"
             /\ gone[2 * i - 1].op = "put" /\ gone[2 * i - 1].res = File(i)
             /\ gone[2 * i - 1].on = Device(i) /\ gone[2 * i - 1].rule = "always"
             /\ gone[2 * i].op = "put" /\ gone[2 * i].res = Device(i)
             /\ gone[2 * i].on = Class /\ gone[2 * i].rule = "always"
  <2>1. 2 * i - 1 \in 1..10 /\ 2 * i \in 1..10 /\ 1 + (2 * i - 1) = 2 * i /\ 1 + 2 * i = 2 * i + 1
    OBVIOUS
  <2>2. /\ calls[2 * i] = more[2 * i - 1] /\ calls[2 * i + 1] = more[2 * i]
        /\ gone[2 * i - 1] = less[2 * i - 1] /\ gone[2 * i] = less[2 * i]
    BY <1>6, <1>7, <2>1
  <2> QED
    BY <1>3, <2>2, Fields DEF Unchecked, Latest, Give
<1>10. /\ \A k \in 1..11 : k = 1 \/ \E i \in 1..5 : k = 2 * i \/ k = 2 * i + 1
       /\ \A k \in 1..11 : k = 11 \/ \E i \in 1..5 : k = 2 * i - 1 \/ k = 2 * i
  OBVIOUS
<1>11. \A k \in 1..11 : /\ calls[k].op = "get" /\ calls[k].rule # "required"
                        /\ gone[k].op = "put" /\ ~Guarded(gone[k])
  BY <1>8, <1>9, <1>10 DEF Guarded
<1>12. Ordered(calls)
  BY <1>6, <1>11 DEF Ordered, Returns
<1>13. Supplied(calls, {})
  <2>1. ASSUME NEW i \in 1..5
        PROVE  /\ \A r \in Demands(calls[2 * i]) : r = Class
               /\ \A r \in Demands(calls[2 * i + 1]) : r = Device(i)
    BY <1>9 DEF Demands
  <2>2. Demands(calls[1]) = {}
    BY <1>8 DEF Demands
  <2> QED
    BY <1>6, <1>8, <1>9, <1>10, <2>1, <2>2 DEF Supplied
<1>14. Ordered(gone)
  <2>1. ASSUME NEW i \in 1..5
        PROVE  /\ \A r \in Demands(gone[2 * i - 1]) : r = Device(i) \/ r = File(i)
               /\ \A r \in Demands(gone[2 * i]) : r = Class \/ r = Device(i)
    BY <1>9 DEF Demands
  <2>2. Demands(gone[11]) = {}
    BY <1>8 DEF Demands
  <2>3. \A k \in 1..11 : /\ gone[k].res = Class => k = 11
                         /\ \A i \in 1..5 : gone[k].res = Device(i) => k = 2 * i
                         /\ \A i \in 1..5 : gone[k].res = File(i) => k = 2 * i - 1
    BY <1>8, <1>9, <1>10 DEF Class, Device, File
  <2> QED
    BY <1>7, <1>10, <1>11, <2>1, <2>2, <2>3 DEF Ordered, Returns
<1>a. \A k \in 1..11 : calls[k].res # Driver /\ ~IsDoor(calls[k].res)
  <2>1. Class # Driver /\ ~IsDoor(Class)
    BY DEF Class, Driver, IsDoor, Kind
  <2>2. \A i \in 1..5 : Device(i) # Driver /\ ~IsDoor(Device(i)) /\ File(i) # Driver /\ ~IsDoor(File(i))
    BY DEF Device, File, Driver, IsDoor, Kind
  <2> QED
    BY <1>8, <1>9, <1>10, <2>1, <2>2
<1>15. Plain(calls, gone)
  BY <1>6, <1>7, <1>11, <1>12, <1>13, <1>a DEF Plain, Getting, ExitCall, Sound
<1>16. Matched(calls, gone)
  <2>1. Asks(calls, Class) /\ \A i \in 1..5 : Asks(calls, Device(i)) /\ Asks(calls, File(i))
    BY <1>6, <1>8, <1>9 DEF Asks
  <2>2. ASSUME NEW k \in 1..11, NEW r \in Demands(gone[k])
        PROVE  r = Class \/ \E i \in 1..5 : r = Device(i) \/ r = File(i)
    BY <1>8, <1>9, <1>10 DEF Demands
  <2> QED
    BY <2>1, <2>2, <1>7, <1>14 DEF Matched
<1>17. Returned(calls, gone)
  <2>1. GivenBy(gone, Class) /\ \A i \in 1..5 : GivenBy(gone, Device(i)) /\ GivenBy(gone, File(i))
    BY <1>7, <1>8, <1>9 DEF GivenBy, Returns
  <2> QED
    BY <2>1, <1>6, <1>8, <1>9, <1>10 DEF Returned
<1>18. Doorless(calls)
  BY <1>6, <1>a DEF Doorless
<1> QED
  BY <1>15, <1>16, <1>17, <1>18 DEF calls, gone

LEMMA Sample06_2Scripts ==
  Plain(Sample06_2Init.calls, Sample06_2Exit) /\ Matched(Sample06_2Init.calls, Sample06_2Exit)
    /\ Returned(Sample06_2Init.calls, Sample06_2Exit) /\ Modest(Sample06_2Init.calls, Sample06_2Exit)
<1> DEFINE calls == Sample06_2Init.calls
           gone == Sample06_2Exit
<1>1. /\ For(3, 2, LAMBDA i : <<Chained(Pdev(i), Nothing), Chained(File(i), Pdev(i))>>)
           = <<Chained(Pdev(1), Nothing), Chained(File(1), Pdev(1)),
               Chained(Pdev(2), Nothing), Chained(File(2), Pdev(2)),
               Chained(Pdev(3), Nothing), Chained(File(3), Pdev(3))>>
      /\ For(3, 2, LAMBDA i : <<Give(File(i), Pdev(i)), Give(Pdev(i), Pdev(i))>>)
           = <<Give(File(1), Pdev(1)), Give(Pdev(1), Pdev(1)),
               Give(File(2), Pdev(2)), Give(Pdev(2), Pdev(2)),
               Give(File(3), Pdev(3)), Give(Pdev(3), Pdev(3))>>
  BY DEF For
<1>a. /\ calls = CdevCalls \o <<Chained(Pdev(1), Nothing), Chained(File(1), Pdev(1)),
                                 Chained(Pdev(2), Nothing), Chained(File(2), Pdev(2)),
                                 Chained(Pdev(3), Nothing), Chained(File(3), Pdev(3))>>
      /\ gone = <<Give(File(1), Pdev(1)), Give(Pdev(1), Pdev(1)),
                  Give(File(2), Pdev(2)), Give(Pdev(2), Pdev(2)),
                  Give(File(3), Pdev(3)), Give(Pdev(3), Pdev(3))>> \o CdevGone
  BY <1>1 DEF Sample06_2Init, InitOf, Sample06_2Exit
<1> HIDE DEF calls, gone
<1>2. /\ Len(calls) = 8 /\ calls[1] = Chained(Region, Nothing) /\ calls[2] = Chained(Cdev, Nothing)
      /\ calls[3] = Chained(Pdev(1), Nothing) /\ calls[4] = Chained(File(1), Pdev(1))
      /\ calls[5] = Chained(Pdev(2), Nothing) /\ calls[6] = Chained(File(2), Pdev(2))
      /\ calls[7] = Chained(Pdev(3), Nothing) /\ calls[8] = Chained(File(3), Pdev(3))
  BY <1>a DEF CdevCalls
<1>3. /\ Len(gone) = 8 /\ gone[1] = Give(File(1), Pdev(1)) /\ gone[2] = Give(Pdev(1), Pdev(1))
      /\ gone[3] = Give(File(2), Pdev(2)) /\ gone[4] = Give(Pdev(2), Pdev(2))
      /\ gone[5] = Give(File(3), Pdev(3)) /\ gone[6] = Give(Pdev(3), Pdev(3))
      /\ gone[7] = Give(Cdev, Nothing) /\ gone[8] = Give(Region, Nothing)
  BY <1>a DEF CdevGone
<1>4. calls \in Seq(CallSet) /\ gone \in Seq(CallSet)
  BY <1>a DEF CdevCalls, CdevGone, Chained, Give, Call, CallSet, RuleSet,
              Resource, KindSet, Nothing, Pdev, File, Region, Cdev
<1>5. \A j \in 1..8 : /\ calls[j].op = "get" /\ calls[j].rule = "chained"
                      /\ gone[j].op = "put" /\ gone[j].rule = "always"
  BY <1>2, <1>3 DEF Chained, Give, Call
<1>6. Ordered(calls) /\ Ordered(gone)
  BY <1>2, <1>3, <1>5 DEF Ordered, Demands, Returns, Give, Call, Pdev, File, Region, Cdev
<1>7. Supplied(calls, {})
  BY <1>2, <1>5 DEF Supplied, Demands, Chained, Call
<1>b. \A j \in 1..8 : calls[j].res # Driver
  BY <1>2 DEF Chained, Call, Region, Cdev, Pdev, File, Driver
<1>8. Plain(calls, gone)
  BY <1>2, <1>3, <1>4, <1>5, <1>6, <1>7, <1>b DEF Plain, Getting, ExitCall, Guarded, Sound
<1>9. \A j \in 1..8 : Asks(calls, calls[j].res) /\ GivenBy(gone, gone[j].res)
  BY <1>2, <1>3, <1>5 DEF Asks, GivenBy, Returns
<1>10. Matched(calls, gone)
  <2>1. Asks(calls, Region) /\ Asks(calls, Cdev) /\ \A i \in 1..3 : Asks(calls, Pdev(i)) /\ Asks(calls, File(i))
    BY <1>2, <1>9 DEF Chained, Call
  <2>2. \A j \in 1..8 : Demands(gone[j]) \subseteq
                          {Region, Cdev} \union {Pdev(i) : i \in 1..3} \union {File(i) : i \in 1..3}
    BY <1>3 DEF Demands, Give, Call
  <2> QED
    BY <2>1, <2>2, <1>3, <1>6 DEF Matched
<1>11. Returned(calls, gone)
  <2>1. GivenBy(gone, Region) /\ GivenBy(gone, Cdev) /\ \A i \in 1..3 : GivenBy(gone, Pdev(i)) /\ GivenBy(gone, File(i))
    BY <1>3, <1>9 DEF Give, Call
  <2>2. \A j \in 1..8 : calls[j].res \in {Region, Cdev} \union {Pdev(i) : i \in 1..3} \union {File(i) : i \in 1..3}
    BY <1>2 DEF Chained, Call
  <2> QED
    BY <2>1, <2>2, <1>2 DEF Returned
<1>12. Modest(calls, gone)
  BY <1>2, <1>5 DEF Modest, Tame, Spared, Guarded
<1> QED
  BY <1>8, <1>10, <1>11, <1>12 DEF calls, gone

LEMMA Drv06Scripts ==
  LET gone == Drv06Remove \o <<ReleaseDevm>>
  IN  Bindable(Drv06Probe, gone) /\ Matched(Drv06Probe, gone) /\ Returned(Drv06Probe, gone)
        /\ Founded(Drv06Probe, {}) /\ Backed(Drv06Probe) /\ Covered(Drv06Probe, {})
        /\ \A j \in 1..Len(Drv06Probe) : Drv06Probe[j].rule = "required"
<1> USE DEF Drv06Probe, Drv06Remove, ReleaseDevm, Required, Give, Call, Devm, Misc, Nothing
<1>1. Bindable(Drv06Probe, Drv06Remove \o <<ReleaseDevm>>)
  BY DEF Bindable, ProbeCall, RemoveCall, Guarded, Sound, Ordered, Supplied, Demands, Returns, Kind, Driver,
         CallSet, RuleSet, Resource, KindSet
<1>2. Matched(Drv06Probe, Drv06Remove \o <<ReleaseDevm>>)
  BY DEF Matched, Ordered, Demands, Returns, Kind, Asks
<1>3. Returned(Drv06Probe, Drv06Remove \o <<ReleaseDevm>>)
  BY DEF Returned, GivenBy, Returns, Kind
<1>4. Founded(Drv06Probe, {})
  BY DEF Founded, IsDoor, Kind
<1>5. Backed(Drv06Probe)
  BY DEF Backed, Kind
<1>6. Covered(Drv06Probe, {}) /\ \A j \in 1..Len(Drv06Probe) : Drv06Probe[j].rule = "required"
  BY DEF Covered, Demands
<1> QED
  BY <1>1, <1>2, <1>3, <1>4, <1>5, <1>6

LEMMA Drv06_1Scripts ==
  ASSUME NEW n \in Nat
  PROVE  LET calls == Drv06_1Probe(n)
             gone == Drv06_1Remove(n) \o <<ReleaseDevm>>
         IN  Bindable(calls, gone) /\ Matched(calls, gone) /\ Returned(calls, gone) /\ Founded(calls, {})
<1> DEFINE calls == Drv06_1Probe(n)
           gone == Drv06_1Remove(n) \o <<ReleaseDevm>>
           list == <<Required(Devm(0), Nothing)>>
           more == For(n, 2, LAMBDA i : <<Required(Devm(i), Nothing), Required(Misc(i), Nothing)>>)
           less == For(n, 1, LAMBDA i : <<Give(Misc(i), Devm(0))>>)
           last == <<ReleaseDevm>>
<1>1. calls = list \o more /\ gone = less \o last
  BY DEF Drv06_1Probe, Drv06_1Remove
<1>2. /\ more = [j \in 1..(n * 2) |-> <<Required(Devm(((j - 1) \div 2) + 1), Nothing),
                                        Required(Misc(((j - 1) \div 2) + 1), Nothing)>>[((j - 1) % 2) + 1]]
      /\ less = [j \in 1..n |-> Give(Misc(j), Devm(0))]
  BY DEF For
<1>3. /\ list \in Seq(CallSet) /\ Len(list) = 1 /\ list[1].op = "get" /\ list[1].res = Devm(0)
      /\ list[1].on = Nothing /\ list[1].rule = "required"
  BY DEF Required, Call, CallSet, RuleSet, Resource, KindSet, Devm, Nothing
<1>4. /\ last \in Seq(CallSet) /\ Len(last) = 1 /\ last[1].op = "devm" /\ last[1].res = Nothing
      /\ last[1].on = Nothing /\ last[1].rule = "always"
  BY DEF ReleaseDevm, Call, CallSet, RuleSet, Resource, KindSet, Nothing
<1> HIDE DEF calls, gone, list, more, less, last
<1>5. ASSUME NEW i \in 1..n
      PROVE  /\ more[2 * i - 1] = Required(Devm(i), Nothing) /\ more[2 * i] = Required(Misc(i), Nothing)
             /\ less[i] = Give(Misc(i), Devm(0))
  <2>1. /\ 2 * i - 1 \in 1..(n * 2) /\ 2 * i \in 1..(n * 2)
        /\ ((2 * i - 1 - 1) \div 2) + 1 = i /\ ((2 * i - 1) \div 2) + 1 = i
        /\ ((2 * i - 1 - 1) % 2) + 1 = 1 /\ ((2 * i - 1) % 2) + 1 = 2
    OBVIOUS
  <2>2. more[2 * i - 1] = Required(Devm(i), Nothing)
    BY <1>2, <2>1
  <2>3. more[2 * i] = Required(Misc(i), Nothing)
    BY <1>2, <2>1
  <2>4. less[i] = Give(Misc(i), Devm(0))
    BY <1>2
  <2> QED
    BY <2>2, <2>3, <2>4
<1>6. \A k \in 1..(n * 2) : \E i \in 1..n : k = 2 * i - 1 \/ k = 2 * i
  <2> SUFFICES ASSUME NEW k \in 1..(n * 2)
               PROVE  LET i == ((k - 1) \div 2) + 1 IN i \in 1..n /\ (k = 2 * i - 1 \/ k = 2 * i)
    OBVIOUS
  <2> QED
    OBVIOUS
<1>7. ASSUME NEW i \in 1..n
      PROVE  /\ more[2 * i - 1] \in CallSet /\ more[2 * i] \in CallSet /\ less[i] \in CallSet
             /\ more[2 * i - 1].op = "get" /\ more[2 * i - 1].res = Devm(i)
             /\ more[2 * i - 1].on = Nothing /\ more[2 * i - 1].rule = "required"
             /\ more[2 * i].op = "get" /\ more[2 * i].res = Misc(i)
             /\ more[2 * i].on = Nothing /\ more[2 * i].rule = "required"
             /\ less[i].op = "put" /\ less[i].res = Misc(i) /\ less[i].on = Devm(0) /\ less[i].rule = "always"
  <2>1. {Devm(i), Misc(i), Devm(0), Nothing} \subseteq Resource
    BY DEF Devm, Misc, Nothing, Resource, KindSet
  <2> QED
    BY <1>5, <2>1, Fields DEF Required, Give, RuleSet
<1>8. /\ more \in Seq(CallSet) /\ Len(more) = n * 2 /\ less \in Seq(CallSet) /\ Len(less) = n
  <2>1. \A k \in 1..(n * 2) : more[k] \in CallSet
    BY <1>6, <1>7
  <2>2. n * 2 \in Nat
    OBVIOUS
  <2>3. more \in [1..(n * 2) -> CallSet] /\ less \in [1..n -> CallSet]
    BY <1>2, <1>7, <2>1
  <2> QED
    BY <2>2, <2>3
<1>9. /\ calls \in Seq(CallSet) /\ Len(calls) = 1 + n * 2 /\ calls[1] = list[1]
      /\ \A k \in 1..(n * 2) : calls[1 + k] = more[k]
  <2>1. calls = list \o more /\ list \in Seq(CallSet) /\ more \in Seq(CallSet)
    BY <1>1, <1>3, <1>8
  <2>2. /\ calls \in Seq(CallSet) /\ Len(calls) = Len(list) + Len(more)
        /\ \A k \in 1..Len(list) : calls[k] = list[k]
        /\ \A k \in 1..Len(more) : calls[Len(list) + k] = more[k]
    BY <2>1, Cat
  <2> QED
    BY <2>2, <1>3, <1>8
<1>10. /\ gone \in Seq(CallSet) /\ Len(gone) = n + 1 /\ gone[n + 1] = last[1]
       /\ \A k \in 1..n : gone[k] = less[k]
  <2>1. gone = less \o last /\ less \in Seq(CallSet) /\ last \in Seq(CallSet)
    BY <1>1, <1>4, <1>8
  <2>2. /\ gone \in Seq(CallSet) /\ Len(gone) = Len(less) + Len(last)
        /\ \A k \in 1..Len(less) : gone[k] = less[k]
        /\ \A k \in 1..Len(last) : gone[Len(less) + k] = last[k]
    BY <2>1, Cat
  <2>3. Len(gone) = n + 1 /\ Len(less) = n /\ 1 \in 1..Len(last)
    BY <2>2, <1>4, <1>8
  <2>4. gone[Len(less) + 1] = last[1]
    BY <2>2, <2>3
  <2> QED
    BY <2>2, <2>3, <2>4
<1>11. \A k \in 1..Len(calls) : k = 1 \/ \E i \in 1..n : k = 2 * i \/ k = 2 * i + 1
  <2> SUFFICES ASSUME NEW k \in 1..(1 + n * 2), k # 1
               PROVE  \E i \in 1..n : k = 2 * i \/ k = 2 * i + 1
    BY <1>9
  <2>1. k - 1 \in 1..(n * 2)
    OBVIOUS
  <2>2. PICK i \in 1..n : k - 1 = 2 * i - 1 \/ k - 1 = 2 * i
    BY <1>6, <2>1
  <2> QED
    BY <2>2
<1>12. ASSUME NEW i \in 1..n
       PROVE  /\ 2 * i \in 1..Len(calls) /\ 2 * i + 1 \in 1..Len(calls)
              /\ calls[2 * i].op = "get" /\ calls[2 * i].res = Devm(i)
              /\ calls[2 * i].on = Nothing /\ calls[2 * i].rule = "required"
              /\ calls[2 * i + 1].op = "get" /\ calls[2 * i + 1].res = Misc(i)
              /\ calls[2 * i + 1].on = Nothing /\ calls[2 * i + 1].rule = "required"
  <2>1. /\ 2 * i - 1 \in 1..(n * 2) /\ 2 * i \in 1..(n * 2)
        /\ 1 + (2 * i - 1) = 2 * i /\ 1 + 2 * i = 2 * i + 1
        /\ 2 * i \in 1..(1 + n * 2) /\ 2 * i + 1 \in 1..(1 + n * 2)
    OBVIOUS
  <2>2. calls[2 * i] = more[2 * i - 1] /\ calls[2 * i + 1] = more[2 * i]
    BY <1>9, <2>1
  <2> QED
    BY <1>7, <1>9, <2>1, <2>2
<1>13. \A k \in 1..Len(calls) : /\ calls[k].op = "get" /\ calls[k].rule = "required" /\ calls[k].on = Nothing
                                /\ calls[k].res = Devm(0) \/ \E i \in 1..n : calls[k].res \in {Devm(i), Misc(i)}
  <2> TAKE k \in 1..Len(calls)
  <2>1. CASE k = 1
    BY <2>1, <1>3, <1>9
  <2>2. CASE \E i \in 1..n : k = 2 * i \/ k = 2 * i + 1
    <3>1. PICK i \in 1..n : k = 2 * i \/ k = 2 * i + 1
      BY <2>2
    <3> QED
      BY <3>1, <1>12
  <2> QED
    BY <2>1, <2>2, <1>11
<1>14. Bindable(calls, gone)
  <2>0. \A i \in Nat : Devm(i) # Driver /\ Misc(i) # Driver
    BY DEF Driver, Devm, Misc
  <2>1. \A k \in 1..Len(calls) : ProbeCall(calls[k]) /\ Demands(calls[k]) = {}
    <3> TAKE k \in 1..Len(calls)
    <3>1. calls[k].op = "get" /\ calls[k].rule = "required" /\ calls[k].on = Nothing
      BY <1>13
    <3>2. calls[k].res # Driver
      BY <1>13, <2>0
    <3> QED
      BY <3>1, <3>2 DEF ProbeCall, Demands
  <2>2. ASSUME NEW k \in 1..Len(gone) PROVE RemoveCall(gone[k])
    <3>1. CASE k \in 1..n
      <4>1. gone[k].op = "put" /\ gone[k].rule = "always" /\ gone[k].res = Misc(k) /\ k \in Nat
        BY <3>1, <1>7, <1>10
      <4> QED
        BY <4>1, <2>0 DEF RemoveCall, Guarded
    <3>2. CASE k = n + 1
      <4>1. Nothing # Driver
        BY DEF Nothing, Driver
      <4> QED
        BY <3>2, <4>1, <1>4, <1>10 DEF RemoveCall, Guarded
    <3> QED
      BY <3>1, <3>2, <1>10
  <2> QED
    BY <1>9, <1>10, <2>1, <2>2 DEF Bindable, Sound, Ordered, Supplied
<1>15. Matched(calls, gone)
  <2>1. ASSUME NEW k \in 1..n PROVE \A r \in Demands(gone[k]) : r = Devm(0) \/ r = Misc(k)
    BY <1>7, <1>10 DEF Demands
  <2>2. Demands(gone[n + 1]) = {}
    BY <1>4, <1>10 DEF Demands
  <2>3. \A k \in 1..n : \A r : Returns(gone[k], r) => r = Misc(k)
    BY <1>7, <1>10 DEF Returns
  <2>4. \A k \in 1..Len(gone) : k \in 1..n \/ k = n + 1
    BY <1>10
  <2>5. Ordered(gone)
    <3> SUFFICES ASSUME NEW k \in 1..Len(gone), NEW r \in Demands(gone[k]), NEW i \in 1..(k - 1)
                 PROVE  ~Returns(gone[i], r)
      BY DEF Ordered
    <3>1. k \in 1..n
      BY <2>2, <2>4
    <3>2. i \in 1..n /\ i # k
      BY <3>1
    <3>3. Misc(i) # Misc(k) /\ Misc(i) # Devm(0)
      BY <3>2 DEF Misc, Devm
    <3> QED
      BY <2>1, <2>3, <3>1, <3>2, <3>3
  <2>6. Asks(calls, Devm(0)) /\ \A k \in 1..n : Asks(calls, Misc(k))
    <3>1. 1 \in 1..Len(calls) /\ calls[1].op = "get" /\ calls[1].res = Devm(0)
      BY <1>3, <1>9
    <3> QED
      BY <3>1, <1>12 DEF Asks
  <2> QED
    BY <2>1, <2>2, <2>4, <2>5, <2>6 DEF Matched
<1>16. Returned(calls, gone)
  <2>1. \A i \in 1..n : GivenBy(gone, Misc(i))
    <3> TAKE i \in 1..n
    <3>1. i \in 1..Len(gone) /\ Returns(gone[i], Misc(i))
      BY <1>7, <1>10 DEF Returns
    <3> QED
      BY <3>1 DEF GivenBy
  <2>2. \A i \in 0..n : GivenBy(gone, Devm(i))
    <3> TAKE i \in 0..n
    <3>1. n + 1 \in 1..Len(gone) /\ Returns(gone[n + 1], Devm(i))
      BY <1>4, <1>10 DEF Returns, Kind, Devm
    <3> QED
      BY <3>1 DEF GivenBy
  <2> QED
    BY <1>13, <2>1, <2>2 DEF Returned
<1>17. Founded(calls, {})
  <2> SUFFICES ASSUME NEW k \in 1..Len(calls), IsDoor(calls[k].res)
               PROVE  /\ Kind(calls[k].res) = "misc"
                      /\ \E j \in 1..(k - 1) : calls[j].op = "get" /\ calls[j].res = Devm(calls[k].res[2])
    BY DEF Founded
  <2>1. PICK i \in 1..n : k = 2 * i + 1
    <3>1. \A i \in 0..n : ~IsDoor(Devm(i))
      BY DEF IsDoor, Kind, Devm
    <3>2. k # 1
      <4>1. calls[1].res = Devm(0) /\ 0 \in 0..n
        BY <1>3, <1>9
      <4> QED
        BY <3>1, <4>1
    <3>3. PICK i \in 1..n : k = 2 * i \/ k = 2 * i + 1
      BY <3>2, <1>11
    <3>4. k # 2 * i
      <4>1. calls[2 * i].res = Devm(i) /\ i \in 0..n
        BY <1>12
      <4> QED
        BY <3>1, <4>1
    <3> QED
      BY <3>3, <3>4
  <2>2. calls[k].res = Misc(i) /\ calls[2 * i].op = "get" /\ calls[2 * i].res = Devm(i)
    BY <1>12, <2>1
  <2>3. 2 * i \in 1..(k - 1)
    BY <2>1
  <2> QED
    BY <2>2, <2>3 DEF Kind, Misc
<1> QED
  BY <1>14, <1>15, <1>16, <1>17 DEF calls, gone

LEMMA Sample06_3Scripts ==
  ASSUME NEW n \in Nat
  PROVE  LET calls == Sample06_3Probe(n)
             gone == Sample06_3Remove(n) \o <<ReleaseDevm>>
         IN  /\ Bindable(calls, gone) /\ Founded(calls, {})
             /\ n > 0 => Matched(calls, gone)
             /\ n <= 1 => Returned(calls, gone)
<1> DEFINE calls == Sample06_3Probe(n)
           gone == Sample06_3Remove(n) \o <<ReleaseDevm>>
<1>1. calls = [j \in 1..(n * 3) |->
                 <<Required(Devm(((j - 1) \div 3) + 1), Nothing), Required(Misc(((j - 1) \div 3) + 1), Nothing),
                   Required(File(((j - 1) \div 3) + 1), Misc(((j - 1) \div 3) + 1))>>[((j - 1) % 3) + 1]]
  BY DEF Sample06_3Probe, For
<1>2. /\ gone \in Seq(CallSet) /\ Len(gone) = 3 /\ gone[1] = Give(Misc(n), Devm(n))
      /\ gone[2] = GiveIfHeld(File(n)) /\ gone[3] = ReleaseDevm
  BY DEF Sample06_3Remove, Give, GiveIfHeld, ReleaseDevm, Call, CallSet, RuleSet, Resource, KindSet, Misc, Devm, File,
         Nothing
<1> HIDE DEF calls, gone
<1>3. /\ gone[1].op = "put" /\ gone[1].res = Misc(n) /\ gone[1].on = Devm(n) /\ gone[1].rule = "always"
      /\ gone[2].op = "put" /\ gone[2].res = File(n) /\ gone[2].on = Nothing /\ gone[2].rule = "held"
      /\ gone[3].op = "devm" /\ gone[3].res = Nothing /\ gone[3].on = Nothing /\ gone[3].rule = "always"
  BY <1>2 DEF Give, GiveIfHeld, ReleaseDevm, Call
<1>4. ASSUME NEW i \in 1..n
      PROVE  /\ 3 * i - 2 \in 1..(n * 3) /\ 3 * i - 1 \in 1..(n * 3) /\ 3 * i \in 1..(n * 3)
             /\ calls[3 * i - 2] = Required(Devm(i), Nothing)
             /\ calls[3 * i - 1] = Required(Misc(i), Nothing)
             /\ calls[3 * i] = Required(File(i), Misc(i))
  <2>1. /\ 3 * i - 2 \in 1..(n * 3) /\ 3 * i - 1 \in 1..(n * 3) /\ 3 * i \in 1..(n * 3)
    OBVIOUS
  <2>2. /\ ((3 * i - 2 - 1) \div 3) + 1 = i /\ ((3 * i - 2 - 1) % 3) + 1 = 1
        /\ ((3 * i - 1 - 1) \div 3) + 1 = i /\ ((3 * i - 1 - 1) % 3) + 1 = 2
        /\ ((3 * i - 1) \div 3) + 1 = i /\ ((3 * i - 1) % 3) + 1 = 3
    OBVIOUS
  <2>3. calls[3 * i - 2] = Required(Devm(i), Nothing)
    BY <1>1, <2>1, <2>2
  <2>4. calls[3 * i - 1] = Required(Misc(i), Nothing)
    BY <1>1, <2>1, <2>2
  <2>5. calls[3 * i] = Required(File(i), Misc(i))
    BY <1>1, <2>1, <2>2
  <2> QED
    BY <2>1, <2>3, <2>4, <2>5
<1>5. \A k \in 1..(n * 3) : \E i \in 1..n : k = 3 * i - 2 \/ k = 3 * i - 1 \/ k = 3 * i
  <2> SUFFICES ASSUME NEW k \in 1..(n * 3)
               PROVE  LET i == ((k - 1) \div 3) + 1
                      IN  i \in 1..n /\ (k = 3 * i - 2 \/ k = 3 * i - 1 \/ k = 3 * i)
    OBVIOUS
  <2> QED
    OBVIOUS
<1>6. ASSUME NEW i \in 1..n
      PROVE  /\ calls[3 * i - 2] \in CallSet /\ calls[3 * i - 1] \in CallSet /\ calls[3 * i] \in CallSet
             /\ calls[3 * i - 2].op = "get" /\ calls[3 * i - 2].res = Devm(i)
             /\ calls[3 * i - 2].on = Nothing /\ calls[3 * i - 2].rule = "required"
             /\ calls[3 * i - 1].op = "get" /\ calls[3 * i - 1].res = Misc(i)
             /\ calls[3 * i - 1].on = Nothing /\ calls[3 * i - 1].rule = "required"
             /\ calls[3 * i].op = "get" /\ calls[3 * i].res = File(i)
             /\ calls[3 * i].on = Misc(i) /\ calls[3 * i].rule = "required"
  <2>1. {Devm(i), Misc(i), File(i), Nothing} \subseteq Resource
    BY DEF Devm, Misc, File, Nothing, Resource, KindSet
  <2> QED
    BY <1>4, <2>1, Fields DEF Required, RuleSet
<1>7. calls \in Seq(CallSet) /\ Len(calls) = n * 3
  <2>1. \A k \in 1..(n * 3) : calls[k] \in CallSet
    BY <1>5, <1>6
  <2>2. n * 3 \in Nat
    OBVIOUS
  <2>3. calls \in [1..(n * 3) -> CallSet]
    BY <1>1, <2>1
  <2> QED
    BY <2>2, <2>3
<1>8. ASSUME NEW k \in 1..Len(calls)
      PROVE  \E i \in 1..n : \/ k = 3 * i - 2 /\ calls[k].res = Devm(i) /\ calls[k].on = Nothing
                             \/ k = 3 * i - 1 /\ calls[k].res = Misc(i) /\ calls[k].on = Nothing
                             \/ k = 3 * i /\ calls[k].res = File(i) /\ calls[k].on = Misc(i)
  <2>1. PICK i \in 1..n : k = 3 * i - 2 \/ k = 3 * i - 1 \/ k = 3 * i
    BY <1>5, <1>7
  <2> QED
    BY <1>6, <2>1
<1>9. \A k \in 1..Len(calls) : calls[k].op = "get" /\ calls[k].rule = "required"
  <2> TAKE k \in 1..Len(calls)
  <2>1. PICK i \in 1..n : k = 3 * i - 2 \/ k = 3 * i - 1 \/ k = 3 * i
    BY <1>5, <1>7
  <2> QED
    BY <1>6, <2>1
<1>10. Bindable(calls, gone)
  <2>1. ASSUME NEW k \in 1..Len(calls) PROVE ProbeCall(calls[k])
    BY <1>8, <1>9 DEF ProbeCall, Guarded, Driver, Devm, Misc, File
  <2>2. \A k \in 1..Len(gone) : RemoveCall(gone[k])
    BY <1>2, <1>3 DEF RemoveCall, Guarded, Driver, Misc, File, Nothing
  <2>3. Ordered(calls)
    BY <1>7, <1>9 DEF Ordered, Returns
  <2>4. Supplied(calls, {})
    <3> SUFFICES ASSUME NEW k \in 1..Len(calls), NEW r \in Demands(calls[k])
                 PROVE  \E j \in 1..(k - 1) : calls[j].op = "get" /\ calls[j].res = r
      BY DEF Supplied
    <3>1. r = calls[k].on /\ r # Nothing
      BY <1>9 DEF Demands
    <3>2. PICK i \in 1..n : k = 3 * i /\ r = Misc(i)
      BY <1>8, <3>1
    <3>3. 3 * i - 1 \in 1..(k - 1)
      BY <3>2
    <3> QED
      BY <1>6, <3>2, <3>3
  <2> QED
    BY <1>2, <1>7, <2>1, <2>2, <2>3, <2>4 DEF Bindable, Sound
<1>11. Founded(calls, {})
  <2> SUFFICES ASSUME NEW k \in 1..Len(calls), IsDoor(calls[k].res)
               PROVE  /\ Kind(calls[k].res) = "misc"
                      /\ \E j \in 1..(k - 1) : calls[j].op = "get" /\ calls[j].res = Devm(calls[k].res[2])
    BY DEF Founded
  <2>1. PICK i \in 1..n : k = 3 * i - 1
    <3>1. \A i \in 1..n : ~IsDoor(Devm(i)) /\ ~IsDoor(File(i))
      BY DEF IsDoor, Kind, Devm, File
    <3> QED
      BY <1>8, <3>1
  <2>2. calls[k].res = Misc(i) /\ calls[3 * i - 2].op = "get" /\ calls[3 * i - 2].res = Devm(i)
    BY <1>6, <2>1
  <2>3. 3 * i - 2 \in 1..(k - 1)
    BY <2>1
  <2> QED
    BY <2>2, <2>3 DEF Kind, Misc
<1>12. ASSUME n > 0 PROVE Matched(calls, gone)
  <2>1. Asks(calls, Misc(n)) /\ Asks(calls, Devm(n))
    <3>1. n \in 1..n
      BY <1>12
    <3> QED
      BY <1>4, <1>6, <1>7, <3>1 DEF Asks
  <2>2. Ordered(gone)
    <3>1. Demands(gone[2]) = {} /\ Demands(gone[3]) = {}
      BY <1>3 DEF Demands
    <3>2. \A k \in 1..Len(gone) : Demands(gone[k]) # {} => k = 1
      BY <1>2, <3>1
    <3> QED
      BY <3>2 DEF Ordered
  <2>3. \A k \in 1..Len(gone) : \A r \in Demands(gone[k]) : r = Misc(n) \/ r = Devm(n)
    BY <1>2, <1>3 DEF Demands
  <2> QED
    BY <2>1, <2>2, <2>3 DEF Matched
<1>13. ASSUME n <= 1 PROVE Returned(calls, gone)
  <2> SUFFICES ASSUME NEW k \in 1..Len(calls) PROVE GivenBy(gone, calls[k].res)
    BY DEF Returned
  <2>1. PICK i \in 1..n : calls[k].res \in {Devm(i), Misc(i), File(i)}
    BY <1>8
  <2>2. i = n
    BY <1>13
  <2>3. 1 \in 1..Len(gone) /\ 2 \in 1..Len(gone) /\ 3 \in 1..Len(gone)
    BY <1>2
  <2>4. Returns(gone[1], Misc(n)) /\ Returns(gone[2], File(n)) /\ Returns(gone[3], Devm(n))
    BY <1>3 DEF Returns, Kind, Devm
  <2> QED
    BY <2>1, <2>2, <2>3, <2>4 DEF GivenBy
<1> QED
  BY <1>10, <1>11, <1>12, <1>13 DEF calls, gone

LEMMA DtsScripts ==
  LET gone == DtsRemove \o <<ReleaseDevm>>
  IN  Bindable(DtsProbe, gone) /\ Matched(DtsProbe, gone) /\ Returned(DtsProbe, gone)
        /\ Backed(DtsProbe)
<1> USE DEF DtsProbe, DtsRemove, ReleaseDevm, Unchecked, Give, Call, Misc, Nothing
<1>1. Bindable(DtsProbe, DtsRemove \o <<ReleaseDevm>>)
  BY DEF Bindable, ProbeCall, RemoveCall, Guarded, Sound, Ordered, Supplied, Demands, Returns, Kind, Driver,
         CallSet, RuleSet, Resource, KindSet
<1>2. Matched(DtsProbe, DtsRemove \o <<ReleaseDevm>>)
  BY DEF Matched, Ordered, Demands, Returns, Kind, Asks
<1>3. Returned(DtsProbe, DtsRemove \o <<ReleaseDevm>>)
  BY DEF Returned, GivenBy, Returns, Kind
<1>4. Backed(DtsProbe)
  BY DEF Backed
<1> QED
  BY <1>1, <1>2, <1>3, <1>4

LEMMA DriverScripts ==
  /\ DriverCalls \in Seq(CallSet) /\ DriverGone \in Seq(CallSet)
  /\ \A m \in Platforms : \A j \in 1..Len(DriverCalls) : InitCall(m, DriverCalls[j])
  /\ \A j \in 1..Len(DriverGone) : ExitCall(DriverGone[j])
  /\ Sound(DriverCalls, {}) /\ Matched(DriverCalls, DriverGone) /\ Returned(DriverCalls, DriverGone)
  /\ Inert(DriverCalls) /\ Doorless(DriverCalls)
  /\ Covered(DriverCalls, {}) /\ Covered(DriverGone, {Driver})
<1> USE DEF DriverCalls, DriverGone, Chained, Give, Call, Driver, Nothing
<1>1. DriverCalls \in Seq(CallSet) /\ DriverGone \in Seq(CallSet)
  BY DEF CallSet, RuleSet, Resource, KindSet
<1>2. /\ \A m \in Platforms : \A j \in 1..Len(DriverCalls) : InitCall(m, DriverCalls[j])
      /\ \A j \in 1..Len(DriverGone) : ExitCall(DriverGone[j])
  BY DEF InitCall, ExitCall, Guarded
<1>3. Sound(DriverCalls, {}) /\ Matched(DriverCalls, DriverGone) /\ Returned(DriverCalls, DriverGone)
  BY DEF Sound, Ordered, Supplied, Matched, Asks, Returned, GivenBy, Demands, Returns, Kind
<1>4. Inert(DriverCalls) /\ Doorless(DriverCalls)
  BY DEF Inert, Doorless, IsDoor, Kind, Callbacks
<1>5. Covered(DriverCalls, {}) /\ Covered(DriverGone, {Driver})
  BY DEF Covered, Demands
<1> QED
  BY <1>1, <1>2, <1>3, <1>4, <1>5

\* What the steps of ModuleLife need to know of the init and exit functions of
\* module m.
Described(m, calls, gone, reports) ==
  /\ calls \in Seq(CallSet) /\ gone \in Seq(CallSet)
  /\ \A j \in 1..Len(calls) : InitCall(m, calls[j])
  /\ \A j \in 1..Len(gone) : ExitCall(gone[j])
  /\ Sound(calls, {})
  /\ m # "drv05_1" => Matched(calls, gone)
  /\ m \notin {"drv05_1", "mod05"} => Returned(calls, gone)
  /\ m = "mod05" => Settled(calls, gone) /\ Covered(gone, {}) /\ reports
  /\ m \in Careful => Modest(calls, gone)
  /\ m \in Careful /\ ~reports => \A j \in 1..Len(calls) : calls[j].rule \in {"untested", "unchecked"}
  /\ reports /\ m \notin LeaveCallbacks => Inert(calls)
  /\ reports /\ m \notin {"drv03", "drv07", "sample06_2"} => Doorless(calls)
  /\ m \in Platforms => Doorless(calls) /\ Covered(calls, {}) /\ Covered(gone, {Driver})
  /\ m \in {"drv06", "drv06_1", "sample06_3"} => ~reports
  /\ m = "drv03" => Asks(calls, Buffers) /\ Asks(calls, Buffer(1))

LEMMA Sorts ==
  /\ \A m, calls, gone : Plain(calls, gone) =>
       /\ calls \in Seq(CallSet) /\ gone \in Seq(CallSet)
       /\ \A j \in 1..Len(calls) : InitCall(m, calls[j])
       /\ \A j \in 1..Len(gone) : ExitCall(gone[j])
       /\ Sound(calls, {})
BY DEF Plain, Getting, InitCall

LEMMA ModuleScripts ==
  /\ Described("mod01", Mod01Init.calls, Mod01Exit, Mod01Init.reports)
  /\ Described("mod04", Mod04Init.calls, Mod04Exit, Mod04Init.reports)
  /\ Described("mod05", Mod05Init.calls, Mod05Exit, Mod05Init.reports)
  /\ Described("mod06", Mod06Init.calls, Mod06Exit, Mod06Init.reports)
  /\ Described("mod07", Mod07Init.calls, Mod07Exit, Mod07Init.reports)
  /\ Described("mod08", Mod08Init.calls, Mod08Exit, Mod08Init.reports)
<1> USE DEF Careful, LeaveCallbacks, Platforms
<1>1. Described("mod01", Mod01Init.calls, Mod01Exit, Mod01Init.reports)
  <2>1. ~Mod01Init.reports
    BY DEF Mod01Init, InitOf
  <2>2. \A j \in 1..Len(Mod01Init.calls) : FALSE
    BY Mod01Scripts
  <2> QED
    BY <2>1, <2>2, Mod01Scripts, Sorts DEF Described
<1>2. Described("mod04", Mod04Init.calls, Mod04Exit, Mod04Init.reports)
  <2>1. ~Mod04Init.reports
    BY DEF Mod04Init, InitOf
  <2> QED
    BY <2>1, Mod04Scripts, Sorts DEF Described
<1>3. Described("mod05", Mod05Init.calls, Mod05Exit, Mod05Init.reports)
  <2>1. Mod05Init.reports
    BY DEF Mod05Init, InitOf
  <2> QED
    BY <2>1, Mod05Scripts DEF Described
<1>4. Described("mod06", Mod06Init.calls, Mod06Exit, Mod06Init.reports)
  <2>1. ~Mod06Init.reports
    BY DEF Mod06Init, InitOf
  <2> QED
    BY <2>1, Mod06Scripts, Sorts DEF Described
<1>5. Described("mod07", Mod07Init.calls, Mod07Exit, Mod07Init.reports)
  <2>1. ~Mod07Init.reports
    BY DEF Mod07Init, InitOf
  <2> QED
    BY <2>1, Mod07Scripts, Sorts DEF Described
<1>6. Described("mod08", Mod08Init.calls, Mod08Exit, Mod08Init.reports)
  <2>1. Mod08Init.reports
    BY DEF Mod08Init, InitOf
  <2> QED
    BY <2>1, Mod08Scripts, Sorts DEF Described
<1> QED
  BY <1>1, <1>2, <1>3, <1>4, <1>5, <1>6

LEMMA DeviceScripts ==
  /\ Described("drv02", Drv02Init.calls, Drv02Exit, Drv02Init.reports)
  /\ Described("drv03", Drv03Init.calls, Drv03Exit, Drv03Init.reports)
  /\ Described("drv05", Drv05Init.calls, Drv05Exit, Drv05Init.reports)
  /\ Described("drv05_1", Drv05_1Init.calls, Drv05_1Exit, Drv05_1Init.reports)
  /\ Described("drv07", Drv07Init.calls, Drv07Exit, Drv07Init.reports)
  /\ Described("drv08", Drv08Init.calls, Drv08Exit, Drv08Init.reports)
  /\ Described("drv09", Drv09Init.calls, Drv09Exit, Drv09Init.reports)
  /\ Described("drv10", Drv10Init.calls, Drv10Exit, Drv10Init.reports)
  /\ Described("sample05", Sample05Init.calls, Sample05Exit, Sample05Init.reports)
  /\ Described("sample05_1", Sample05_1Init.calls, Sample05_1Exit, Sample05_1Init.reports)
  /\ Described("sample06_2", Sample06_2Init.calls, Sample06_2Exit, Sample06_2Init.reports)
<1> USE DEF Careful, LeaveCallbacks, Platforms
<1>1. Described("drv02", Drv02Init.calls, Drv02Exit, Drv02Init.reports)
  <2>1. ~Drv02Init.reports
    BY DEF Drv02Init, InitOf
  <2> QED
    BY <2>1, Drv02Scripts, Sorts DEF Described
<1>2. Described("drv03", Drv03Init.calls, Drv03Exit, Drv03Init.reports)
  <2>1. Drv03Init.reports
    BY DEF Drv03Init, InitOf
  <2> QED
    BY <2>1, Drv03Scripts, Sorts DEF Described
<1>3. Described("drv05", Drv05Init.calls, Drv05Exit, Drv05Init.reports)
  <2>1. ~Drv05Init.reports
    BY DEF Drv05Init, InitOf
  <2> QED
    BY <2>1, Drv05Scripts, Sorts DEF Described
<1>4. Described("drv05_1", Drv05_1Init.calls, Drv05_1Exit, Drv05_1Init.reports)
  <2>1. ~Drv05_1Init.reports
    BY DEF Drv05_1Init, InitOf
  <2> QED
    BY <2>1, Drv05_1Scripts, Sorts DEF Described
<1>5. Described("drv07", Drv07Init.calls, Drv07Exit, Drv07Init.reports)
  <2>1. Drv07Init.reports
    BY DEF Drv07Init, InitOf
  <2> QED
    BY <2>1, Drv07Scripts, Sorts DEF Described
<1>6. Described("drv08", Drv08Init.calls, Drv08Exit, Drv08Init.reports)
  <2>1. ~Drv08Init.reports
    BY DEF Drv08Init, InitOf
  <2> QED
    BY <2>1, Drv08Scripts, Sorts DEF Described
<1>7. Described("drv09", Drv09Init.calls, Drv09Exit, Drv09Init.reports)
  <2>1. ~Drv09Init.reports /\ Drv09Init.calls = Drv02Init.calls /\ Drv09Exit = Drv02Exit
    BY DEF Drv09Init, Drv02Init, Drv09Exit, Drv02Exit, InitOf
  <2> QED
    BY <2>1, Drv02Scripts, Sorts DEF Described
<1>8. Described("drv10", Drv10Init.calls, Drv10Exit, Drv10Init.reports)
  <2>1. Drv10Init.reports
    BY DEF Drv10Init, InitOf
  <2> QED
    BY <2>1, Drv10Scripts, Sorts DEF Described
<1>9. Described("sample05", Sample05Init.calls, Sample05Exit, Sample05Init.reports)
  <2>1. Sample05Init.reports
    BY DEF Sample05Init, InitOf
  <2> QED
    BY <2>1, Sample05Scripts, Sorts DEF Described
<1>10. Described("sample05_1", Sample05_1Init.calls, Sample05_1Exit, Sample05_1Init.reports)
  <2>1. Sample05_1Init.reports
    BY DEF Sample05_1Init, InitOf
  <2> QED
    BY <2>1, Sample05_1Scripts, Sorts DEF Described
<1>11. Described("sample06_2", Sample06_2Init.calls, Sample06_2Exit, Sample06_2Init.reports)
  <2>1. Sample06_2Init.reports
    BY DEF Sample06_2Init, InitOf
  <2> QED
    BY <2>1, Sample06_2Scripts, Sorts DEF Described
<1> QED
  BY <1>1, <1>2, <1>3, <1>4, <1>5, <1>6, <1>7, <1>8, <1>9, <1>10, <1>11

LEMMA PlatformScripts ==
  /\ Described("drv06", Drv06Init.calls, Drv06Exit, Drv06Init.reports)
  /\ Described("drv06_1", Drv06_1Init.calls, Drv06_1Exit, Drv06_1Init.reports)
  /\ Described("sample06_3", Sample06_3Init.calls, Sample06_3Exit, Sample06_3Init.reports)
  /\ Described("dts", DtsInit.calls, DtsExit, DtsInit.reports)
<1> USE DEF Platforms, Careful
<1>1. Described("drv06", Drv06Init.calls, Drv06Exit, Drv06Init.reports)
  <2>1. Drv06Init.calls = DriverCalls /\ Drv06Exit = DriverGone /\ ~Drv06Init.reports
    BY DEF Drv06Init, Drv06Exit, InitOf
  <2> QED
    BY <2>1, DriverScripts DEF Described
<1>2. Described("drv06_1", Drv06_1Init.calls, Drv06_1Exit, Drv06_1Init.reports)
  <2>1. Drv06_1Init.calls = DriverCalls /\ Drv06_1Exit = DriverGone /\ ~Drv06_1Init.reports
    BY DEF Drv06_1Init, Drv06_1Exit, InitOf
  <2> QED
    BY <2>1, DriverScripts DEF Described
<1>3. Described("sample06_3", Sample06_3Init.calls, Sample06_3Exit, Sample06_3Init.reports)
  <2>1. Sample06_3Init.calls = DriverCalls /\ Sample06_3Exit = DriverGone /\ ~Sample06_3Init.reports
    BY DEF Sample06_3Init, Sample06_3Exit, InitOf
  <2> QED
    BY <2>1, DriverScripts DEF Described
<1>4. Described("dts", DtsInit.calls, DtsExit, DtsInit.reports)
  <2>1. DtsInit.calls = DriverCalls /\ DtsExit = DriverGone /\ DtsInit.reports
    BY DEF DtsInit, DtsExit, InitOf
  <2> QED
    BY <2>1, DriverScripts DEF Described
<1> QED
  BY <1>1, <1>2, <1>3, <1>4

LEMMA InitFunctions ==
  ASSUME NEW m \in Modules
  PROVE  Described(m, InitFun[m].calls, ExitFun[m], InitFun[m].reports)
<1>1. m \in {"mod01", "mod04", "mod05", "mod06", "mod07", "mod08",
             "drv02", "drv03", "drv05", "drv05_1", "drv07", "drv08", "drv09", "drv10",
             "sample05", "sample05_1", "sample06_2", "drv06", "drv06_1", "sample06_3", "dts"}
  BY DEF Modules, InitFun
<1>2. CASE m \in {"mod01", "mod04", "mod05", "mod06", "mod07", "mod08"}
  BY <1>2, ModuleScripts DEF InitFun, ExitFun
<1>3. CASE m \in {"drv02", "drv03", "drv05", "drv05_1", "drv07", "drv08", "drv09", "drv10",
                  "sample05", "sample05_1", "sample06_2"}
  BY <1>3, DeviceScripts DEF InitFun, ExitFun
<1>4. CASE m \in {"drv06", "drv06_1", "sample06_3", "dts"}
  BY <1>4, PlatformScripts DEF InitFun, ExitFun
<1> QED
  BY <1>1, <1>2, <1>3, <1>4

LEMMA PlatformFunctions ==
  ASSUME NEW m \in Platforms, NEW n \in Nat
  PROVE  LET calls == ProbeFun(n)[m]
             gone == RemoveFun(n)[m] \o <<ReleaseDevm>>
         IN  /\ calls \in Seq(CallSet) /\ gone \in Seq(CallSet)
             /\ \A j \in 1..Len(calls) : ProbeCall(calls[j])
             /\ \A j \in 1..Len(gone) : RemoveCall(gone[j])
             /\ Sound(calls, {})
             /\ m # "sample06_3" \/ n > 0 => Matched(calls, gone)
             /\ m # "sample06_3" \/ n <= 1 => Returned(calls, gone)
             /\ m # "dts" => Founded(calls, {})
             /\ m \in {"drv06", "dts"} => Backed(calls)
             /\ m = "drv06" => Covered(calls, {}) /\ \A j \in 1..Len(calls) : calls[j].rule = "required"
<1>1. CASE m = "drv06"
  <2>1. ProbeFun(n)[m] = Drv06Probe /\ RemoveFun(n)[m] = Drv06Remove
    BY <1>1 DEF ProbeFun, RemoveFun
  <2> QED
    BY <1>1, <2>1, Drv06Scripts DEF Bindable
<1>2. CASE m = "drv06_1"
  <2>1. ProbeFun(n)[m] = Drv06_1Probe(n) /\ RemoveFun(n)[m] = Drv06_1Remove(n)
    BY <1>2 DEF ProbeFun, RemoveFun
  <2> QED
    BY <1>2, <2>1, Drv06_1Scripts DEF Bindable
<1>3. CASE m = "sample06_3"
  <2>1. ProbeFun(n)[m] = Sample06_3Probe(n) /\ RemoveFun(n)[m] = Sample06_3Remove(n)
    BY <1>3 DEF ProbeFun, RemoveFun
  <2> QED
    BY <1>3, <2>1, Sample06_3Scripts DEF Bindable
<1>4. CASE m = "dts"
  <2>1. ProbeFun(n)[m] = DtsProbe /\ RemoveFun(n)[m] = DtsRemove
    BY <1>4 DEF ProbeFun, RemoveFun
  <2> QED
    BY <1>4, <2>1, DtsScripts DEF Bindable
<1> QED
  BY <1>1, <1>2, <1>3, <1>4 DEF Platforms

-----------------------------------------------------------------------------
(* Type correctness *)

Calling == {"init", "probe", "unbind", "exit"}

\* The calls of a phase are those of its function; after an error probe has
\* only the release of what was obtained with devm_ before it.
Fits(p, m, e, c) ==
  /\ p = "init" => InitCall(m, c)
  /\ p = "probe" => IF e = 0 THEN ProbeCall(c) ELSE c = ReleaseDevm
  /\ p = "unbind" => RemoveCall(c)
  /\ p = "exit" => ExitCall(c)

Base ==
  /\ TypeOK
  /\ todo \in Seq(CallSet) /\ held \subseteq Resource
  /\ status # 0 => failed /\ phase \in {"init", "probe", "oops"}
  /\ bound => phase = "live"
  /\ Driver \in held => mod \in Platforms
  /\ phase \in {"probe", "unbind"} => Driver \in held
  /\ phase \notin Calling => todo = <<>>
  /\ \A j \in 1..Len(todo) : Fits(phase, mod, status, todo[j])

LEMMA TailFacts ==
  ASSUME NEW S, NEW s \in Seq(S), s # <<>>
  PROVE  /\ Tail(s) \in Seq(S) /\ Len(Tail(s)) = Len(s) - 1 /\ Len(s) > 0
         /\ Head(s) = s[1] /\ s[1] \in S /\ 1 \in 1..Len(s)
         /\ \A j \in 1..Len(Tail(s)) : Tail(s)[j] = s[j + 1] /\ j + 1 \in 1..Len(s)
OBVIOUS

\* The call a step makes, and what is left to do.
LEMMA CallFacts ==
  ASSUME Base, todo # <<>>
  PROVE  /\ Head(todo) = todo[1] /\ todo[1] \in CallSet /\ 1 \in 1..Len(todo)
         /\ Fits(phase, mod, status, todo[1]) /\ phase \in Calling
         /\ Tail(todo) \in Seq(CallSet) /\ Len(Tail(todo)) = Len(todo) - 1
         /\ \A j \in 1..Len(Tail(todo)) : Tail(todo)[j] = todo[j + 1] /\ j + 1 \in 1..Len(todo)
<1>1. todo \in Seq(CallSet) /\ phase \in Calling /\ \A j \in 1..Len(todo) : Fits(phase, mod, status, todo[j])
  BY DEF Base
<1> QED
  BY <1>1, TailFacts

LEMMA NoCalls == Len(<<>>) = 0 /\ <<>> \in Seq(CallSet) /\ \A j \in 1..Len(<<>>) : FALSE
OBVIOUS

LEMMA ReleaseFacts ==
  /\ ReleaseDevm \in CallSet /\ ReleaseDevm.op = "devm" /\ ReleaseDevm.rule = "always"
  /\ ReleaseDevm.on = Nothing /\ ReleaseDevm.res = Nothing /\ Demands(ReleaseDevm) = {}
  /\ <<ReleaseDevm>> \in Seq(CallSet) /\ Len(<<ReleaseDevm>>) = 1 /\ <<ReleaseDevm>>[1] = ReleaseDevm
<1>1. Nothing \in Resource
  BY DEF Nothing, Resource, KindSet
<1>2. /\ ReleaseDevm \in CallSet /\ ReleaseDevm.op = "devm" /\ ReleaseDevm.rule = "always"
      /\ ReleaseDevm.on = Nothing /\ ReleaseDevm.res = Nothing
  BY <1>1, Fields DEF ReleaseDevm, RuleSet
<1> QED
  BY <1>2 DEF Demands

LEMMA BaseHolds == Init => Base
<1> SUFFICES ASSUME Init PROVE Base
  OBVIOUS
<1>1. mod \in Modules /\ InitFun[mod].calls \in Seq(CallSet)
  BY InitFunctions DEF Init, Described
<1>2. TypeOK
  <2>1. unbinds \in 0..MaxUnbinds
    BY ModuleLifeAssumption DEF Init
  <2> QED
    BY <2>1 DEF Init, TypeOK, Phases
<1>3. \A j \in 1..Len(todo) : Fits(phase, mod, status, todo[j])
  BY <1>1, InitFunctions DEF Init, Fits, Described
<1> QED
  BY <1>1, <1>2, <1>3 DEF Init, Base, Calling

LEMMA BaseKept == Base /\ [Next]_vars => Base'
<1> SUFFICES ASSUME Base, [Next]_vars PROVE Base'
  OBVIOUS
<1> USE DEF Calling
<1>1. CASE Skip
  <2>1. todo # <<>> /\ todo' = Tail(todo)
    BY <1>1 DEF Skip
  <2>2. TypeOK'
    BY <1>1 DEF Skip, Base, TypeOK, IsDoor, Kind
  <2>3. \A j \in 1..Len(todo') : Fits(phase', mod, status', todo'[j])
    BY <1>1, <2>1, CallFacts DEF Skip, Base, Fits
  <2> QED
    BY <1>1, <2>1, <2>2, <2>3, CallFacts DEF Skip, Base
<1>2. CASE Succeed
  <2>1. todo # <<>> /\ todo' = Tail(todo) /\ held' = held \union {todo[1].res} /\ todo[1].op = "get"
    BY <1>2, CallFacts DEF Succeed, Due
  <2>2. phase \in {"init", "probe"} /\ (phase = "probe" => status = 0) /\ todo[1].res \in Resource
        /\ (status' = status \/ (status' = 0 /\ phase = "init"))
    BY <1>2, <2>1, CallFacts, ReleaseFacts DEF Succeed, Fits, RemoveCall, ExitCall, ProbeCall, CallSet
  <2>3. TypeOK'
    BY <1>2, <2>1, <2>2 DEF Succeed, Base, TypeOK, IsDoor, Kind
  <2>4. \A j \in 1..Len(todo') : Fits(phase', mod, status', todo'[j])
    BY <1>2, <2>1, <2>2, CallFacts DEF Succeed, Base, Fits
  <2>5. Driver \in held' => mod \in Platforms
    BY <2>1, <2>2, CallFacts DEF Base, Fits, InitCall, ProbeCall
  <2> QED
    BY <1>2, <2>1, <2>2, <2>3, <2>4, <2>5, CallFacts DEF Succeed, Base
<1>3. CASE Fail
  <2>1. todo # <<>> /\ todo[1].op = "get" /\ failed'
    BY <1>3, CallFacts DEF Fail, Due
  <2>2. /\ phase \in {"init", "probe"} /\ (phase = "probe" => status = 0 /\ ProbeCall(todo[1]))
        /\ phase = "init" => InitCall(mod, todo[1])
    BY <2>1, CallFacts, ReleaseFacts DEF Fits, RemoveCall, ExitCall
  <2>3. \/ phase = "init" /\ todo' = Tail(todo)
        \/ phase = "probe" /\ todo[1].rule = "unchecked" /\ todo' = Tail(todo) /\ status' = status
        \/ phase = "probe" /\ todo' = <<ReleaseDevm>> /\ status' = Error
    BY <1>3, <2>1, <2>2, CallFacts DEF Fail, InitCall, ProbeCall
  <2>4. TypeOK'
    BY <1>3, <2>2 DEF Fail, Base, TypeOK, IsDoor, Kind
  <2>5. \A j \in 1..Len(todo') : Fits(phase', mod, status', todo'[j])
    <3>1. CASE phase = "init" /\ todo' = Tail(todo)
      BY <1>3, <2>1, <3>1, CallFacts DEF Fail, Base, Fits
    <3>2. CASE phase = "probe" /\ todo' = Tail(todo) /\ status' = status
      BY <1>3, <2>1, <3>2, CallFacts DEF Fail, Base, Fits
    <3>3. CASE phase = "probe" /\ todo' = <<ReleaseDevm>> /\ status' = Error
      <4>1. \A j \in 1..Len(todo') : todo'[j] = ReleaseDevm
        BY <3>3, ReleaseFacts
      <4>2. phase' = "probe" /\ status' = 1
        BY <1>3, <3>3 DEF Fail, Error
      <4> QED
        BY <4>1, <4>2 DEF Fits
    <3> QED
      BY <2>3, <3>1, <3>2, <3>3
  <2>6. todo' \in Seq(CallSet)
    BY <2>1, <2>3, CallFacts, ReleaseFacts
  <2> QED
    BY <1>3, <2>1, <2>2, <2>4, <2>5, <2>6 DEF Fail, Base
<1>4. CASE GiveBack
  <2>1. todo # <<>> /\ todo' = Tail(todo) /\ held' \subseteq held
    BY <1>4 DEF GiveBack, Due
  <2>2. phase \in {"probe", "unbind"} => Driver \in held'
    <3>1. SUFFICES ASSUME phase \in {"probe", "unbind"} PROVE Driver \in held'
      OBVIOUS
    <3>2. todo[1].op # "get" /\ Driver \in held /\ todo[1].res # Driver /\ Kind(Driver) # "devm"
      BY <1>4, <2>1, <3>1, CallFacts, ReleaseFacts
         DEF GiveBack, Fits, ProbeCall, RemoveCall, Base, Driver, Nothing, Kind
    <3> QED
      BY <1>4, <2>1, <3>2, CallFacts DEF GiveBack
  <2>3. \A j \in 1..Len(todo') : Fits(phase', mod, status', todo'[j])
    BY <1>4, <2>1, CallFacts DEF GiveBack, Base, Fits
  <2>4. TypeOK'
    BY <1>4, <2>1, CallFacts DEF GiveBack, Base, TypeOK, IsDoor, Kind
  <2> QED
    BY <1>4, <2>1, <2>2, <2>3, <2>4, CallFacts DEF GiveBack, Base
<1>5. CASE Oops
  BY <1>5, CallFacts, NoCalls DEF Oops, Due, Base, TypeOK, Phases, IsDoor, Kind
<1>6. CASE InitDone
  <2>1. mod \in Modules /\ children \in Nat
    BY ModuleLifeAssumption DEF Base, TypeOK, IsDoor, Kind
  <2>2. todo' \in Seq(CallSet)
    BY <1>6, <2>1, NoCalls, PlatformFunctions DEF InitDone, Base
  <2>3. TypeOK'
    BY <1>6 DEF InitDone, Base, TypeOK, Phases, IsDoor, Kind
  <2>4. \A j \in 1..Len(todo') : Fits(phase', mod, status', todo'[j])
    BY <1>6, <2>1, NoCalls, PlatformFunctions DEF InitDone, Base, Fits
  <2> QED
    BY <1>6, <2>2, <2>3, <2>4 DEF InitDone, Base
<1>7. CASE ProbeDone
  BY <1>7, NoCalls DEF ProbeDone, Base, TypeOK, Phases, IsDoor, Kind
<1>8. CASE Unbind
  <2>1. mod \in Modules /\ children \in Nat /\ mod \in Platforms
    BY <1>8, ModuleLifeAssumption DEF Unbind, Base, TypeOK, IsDoor, Kind
  <2>2. todo' \in Seq(CallSet) /\ \A j \in 1..Len(todo') : RemoveCall(todo'[j])
    BY <1>8, <2>1, PlatformFunctions DEF Unbind, Removal
  <2>3. TypeOK'
    <3>1. unbinds' \in 0..MaxUnbinds
      BY <1>8, ModuleLifeAssumption DEF Unbind, Base, TypeOK
    <3> QED
      BY <1>8, <3>1 DEF Unbind, Base, TypeOK, Phases, IsDoor, Kind
  <2>4. \A j \in 1..Len(todo') : Fits(phase', mod, status', todo'[j])
    BY <1>8, <2>2 DEF Unbind, Fits
  <2> QED
    BY <1>8, <2>2, <2>3, <2>4 DEF Unbind, Base, TypeOK, IsDoor, Kind
<1>9. CASE UnbindDone
  BY <1>9, NoCalls DEF UnbindDone, Base, TypeOK, Phases, IsDoor, Kind
<1>10. CASE Bind
  <2>1. mod \in Modules /\ children \in Nat /\ mod \in Platforms /\ status = 0
    BY <1>10, ModuleLifeAssumption DEF Bind, Base, TypeOK, IsDoor, Kind
  <2>2. todo' \in Seq(CallSet) /\ \A j \in 1..Len(todo') : ProbeCall(todo'[j])
    BY <1>10, <2>1, PlatformFunctions DEF Bind
  <2>3. TypeOK'
    BY <1>10 DEF Bind, Base, TypeOK, Phases, IsDoor, Kind
  <2>4. \A j \in 1..Len(todo') : Fits(phase', mod, status', todo'[j])
    BY <1>10, <2>1, <2>2 DEF Bind, Fits
  <2> QED
    BY <1>10, <2>2, <2>3, <2>4 DEF Bind, Base
<1>11. CASE Unload
  <2>1. mod \in Modules /\ children \in Nat /\ (bound => mod \in Platforms) /\ status = 0
    BY <1>11, ModuleLifeAssumption DEF Unload, Base, TypeOK, IsDoor, Kind
  <2>2. ExitFun[mod] \in Seq(CallSet) /\ \A j \in 1..Len(ExitFun[mod]) : ExitCall(ExitFun[mod][j])
    BY <2>1, InitFunctions DEF Described
  <2> DEFINE first == IF bound THEN Removal ELSE <<>>
             second == ExitFun[mod]
  <2>3. first \in Seq(CallSet) /\ \A j \in 1..Len(first) : ExitCall(first[j])
    BY <2>1, NoCalls, PlatformFunctions DEF Removal, RemoveCall, ExitCall
  <2>4. todo' = first \o second
    BY <1>11 DEF Unload
  <2> HIDE DEF first, second
  <2>5. /\ todo' \in Seq(CallSet) /\ Len(todo') = Len(first) + Len(second)
        /\ \A j \in 1..Len(first) : todo'[j] = first[j]
        /\ \A j \in 1..Len(second) : todo'[Len(first) + j] = second[j]
    BY <2>2, <2>3, <2>4, Cat DEF second
  <2>6. \A j \in 1..Len(todo') : ExitCall(todo'[j])
    <3> TAKE j \in 1..Len(todo')
    <3>1. j \in 1..Len(first) \/ (j - Len(first) \in 1..Len(second) /\ j = Len(first) + (j - Len(first)))
      BY <2>2, <2>3, <2>5 DEF second
    <3> QED
      BY <2>2, <2>3, <2>5, <3>1 DEF second
  <2>7. TypeOK'
    BY <1>11 DEF Unload, Base, TypeOK, Phases, IsDoor, Kind
  <2>8. \A j \in 1..Len(todo') : Fits(phase', mod, status', todo'[j])
    BY <1>11, <2>6 DEF Unload, Fits
  <2> QED
    BY <1>11, <2>1, <2>5, <2>7, <2>8 DEF Unload, Base
<1>12. CASE ExitDone
  BY <1>12, NoCalls DEF ExitDone, Base, TypeOK, Phases, IsDoor, Kind
<1>13. CASE \E door \in held : Open(door)
  <2>1. TypeOK'
    BY <1>13 DEF Open, Base, TypeOK, IsDoor, Kind
  <2> QED
    BY <1>13, <2>1 DEF Open, Base, Fits
<1>14. CASE \E door \in files : Close(door)
  <2>1. TypeOK'
    BY <1>14 DEF Close, Base, TypeOK, IsDoor, Kind
  <2> QED
    BY <1>14, <2>1 DEF Close, Base, Fits
<1>15. CASE UNCHANGED vars
  BY <1>15 DEF vars, Base, TypeOK, Fits, IsDoor, Kind
<1> QED
  BY <1>1, <1>2, <1>3, <1>4, <1>5, <1>6, <1>7, <1>8, <1>9, <1>10, <1>11, <1>12, <1>13, <1>14, <1>15
     DEF Next, CallStep

\* What TypeOK says, with the shape of the calls a function has left to make.
THEOREM TypeCorrect == Spec => []TypeOK
<1>1. Base => TypeOK
  BY DEF Base
<1> QED
  BY <1>1, BaseHolds, BaseKept, PTL DEF Spec

-----------------------------------------------------------------------------
(* What is left of a function after its first call *)

\* Every index of a sequence but the first is one of its tail.
LEMMA Indices ==
  ASSUME NEW s \in Seq(CallSet), s # <<>>, NEW k \in 1..Len(s)
  PROVE  k = 1 \/ (k - 1 \in 1..Len(Tail(s)) /\ Tail(s)[k - 1] = s[k])
<1>1. /\ Len(Tail(s)) = Len(s) - 1 /\ Len(s) \in Nat
      /\ \A j \in 1..Len(Tail(s)) : Tail(s)[j] = s[j + 1]
  BY TailFacts
<1> QED
  BY <1>1

LEMMA AsksTail ==
  ASSUME NEW s \in Seq(CallSet), s # <<>>, NEW r, Asks(s, r)
  PROVE  (s[1].op = "get" /\ s[1].res = r) \/ Asks(Tail(s), r)
<1>1. PICK k \in 1..Len(s) : s[k].op = "get" /\ s[k].res = r
  BY DEF Asks
<1> QED
  BY <1>1, Indices DEF Asks

LEMMA GivenTail ==
  ASSUME NEW s \in Seq(CallSet), s # <<>>, NEW r, GivenBy(s, r)
  PROVE  Returns(s[1], r) \/ GivenBy(Tail(s), r)
<1>1. PICK k \in 1..Len(s) : Returns(s[k], r)
  BY DEF GivenBy
<1> QED
  BY <1>1, Indices DEF GivenBy

LEMMA GivenCat ==
  ASSUME NEW a \in Seq(CallSet), NEW b \in Seq(CallSet), NEW r
  PROVE  GivenBy(a, r) \/ GivenBy(b, r) => GivenBy(a \o b, r)
<1> DEFINE s == a \o b
<1>1. /\ Len(s) = Len(a) + Len(b)
      /\ \A j \in 1..Len(a) : s[j] = a[j]
      /\ \A j \in 1..Len(b) : s[Len(a) + j] = b[j]
  BY Cat
<1>2. Len(a) \in Nat /\ Len(b) \in Nat
  OBVIOUS
<1> HIDE DEF s
<1>3. \A j \in 1..Len(a) : j \in 1..Len(s)
  BY <1>1, <1>2
<1>4. \A j \in 1..Len(b) : Len(a) + j \in 1..Len(s)
  BY <1>1, <1>2
<1>5. GivenBy(a, r) \/ GivenBy(b, r) => GivenBy(s, r)
  BY <1>1, <1>3, <1>4 DEF GivenBy
<1> QED
  BY <1>5 DEF s

\* The first call finds what it relies on.
LEMMA SoundHead ==
  ASSUME NEW s \in Seq(CallSet), s # <<>>, NEW H, Sound(s, H)
  PROVE  /\ s[1].on = Nothing \/ s[1].on \in H
         /\ s[1].op = "put" => s[1].res \in H \/ s[1].rule = "held"
<1>1. 1 \in 1..Len(s)
  BY TailFacts
<1>2. Demands(s[1]) \subseteq H
  BY <1>1 DEF Sound, Supplied
<1> QED
  BY <1>2 DEF Demands

\* The others do too, when what the first gets is added, or nobody relies on it,
\* and only what it gives back is taken away.
LEMMA SoundTail ==
  ASSUME NEW s \in Seq(CallSet), s # <<>>, NEW H, NEW K, Sound(s, H),
         \A r \in H : r \in K \/ Returns(s[1], r),
         s[1].op = "get" => s[1].res \in K \/ \A i \in 1..Len(s) : s[1].res \notin Demands(s[i])
  PROVE  Sound(Tail(s), K)
<1> DEFINE t == Tail(s)
<1>1. /\ Len(t) = Len(s) - 1 /\ Len(s) \in Nat
      /\ \A j \in 1..Len(t) : t[j] = s[j + 1] /\ j + 1 \in 1..Len(s)
  BY TailFacts
<1> HIDE DEF t
<1>2. Ordered(t)
  <2> SUFFICES ASSUME NEW j \in 1..Len(t), NEW r \in Demands(t[j]), NEW i \in 1..(j - 1)
               PROVE  ~Returns(t[i], r)
    BY DEF Ordered
  <2>1. i \in 1..Len(t) /\ i + 1 \in 1..((j + 1) - 1)
    BY <1>1
  <2> QED
    BY <1>1, <2>1 DEF Sound, Ordered
<1>3. Supplied(t, K)
  <2> SUFFICES ASSUME NEW j \in 1..Len(t), NEW r \in Demands(t[j])
               PROVE  r \in K \/ \E i \in 1..(j - 1) : t[i].op = "get" /\ t[i].res = r
    BY DEF Supplied
  <2>1. j + 1 \in 1..Len(s) /\ r \in Demands(s[j + 1])
    BY <1>1
  <2>2. CASE r \in H
    <3>1. 1 \in 1..((j + 1) - 1)
      OBVIOUS
    <3>2. ~Returns(s[1], r)
      BY <2>1, <3>1 DEF Sound, Ordered
    <3> QED
      BY <2>2, <3>2
  <2>3. CASE \E i \in 1..((j + 1) - 1) : s[i].op = "get" /\ s[i].res = r
    <3>1. PICK i \in 1..((j + 1) - 1) : s[i].op = "get" /\ s[i].res = r
      BY <2>3
    <3>2. CASE i = 1
      BY <2>1, <3>1, <3>2
    <3>3. CASE i > 1
      <4>1. i - 1 \in 1..(j - 1) /\ i - 1 \in 1..Len(t)
        BY <3>3, <1>1
      <4>2. t[i - 1] = s[i]
        BY <1>1, <4>1
      <4> QED
        BY <3>1, <4>1, <4>2
    <3> QED
      BY <3>2, <3>3
  <2> QED
    BY <2>1, <2>2, <2>3 DEF Sound, Supplied
<1> QED
  BY <1>2, <1>3 DEF Sound, t

LEMMA SoundMore ==
  ASSUME NEW s, NEW H, NEW K, Sound(s, H), H \subseteq K
  PROVE  Sound(s, K)
BY DEF Sound, Supplied

LEMMA SoundCovered ==
  ASSUME NEW s, NEW H, Ordered(s), Covered(s, H)
  PROVE  Sound(s, H)
BY DEF Sound, Supplied, Covered

LEMMA SoundCat ==
  ASSUME NEW a \in Seq(CallSet), NEW b \in Seq(CallSet), NEW H, NEW K,
         Sound(a, H), Ordered(b), Covered(b, H), Covered(b, K),
         \A j \in 1..Len(a) : \A r \in K : ~Returns(a[j], r)
  PROVE  Sound(a \o b, H)
<1> DEFINE s == a \o b
<1>1. /\ Len(s) = Len(a) + Len(b)
      /\ \A j \in 1..Len(a) : s[j] = a[j]
      /\ \A j \in 1..Len(b) : s[Len(a) + j] = b[j]
  BY Cat
<1>2. Len(a) \in Nat /\ Len(b) \in Nat
  OBVIOUS
<1> HIDE DEF s
<1>3. \A j \in 1..Len(s) : j \in 1..Len(a) \/ (j - Len(a) \in 1..Len(b) /\ s[j] = b[j - Len(a)])
  <2> SUFFICES ASSUME NEW j \in 1..Len(s), j \notin 1..Len(a)
               PROVE  j - Len(a) \in 1..Len(b) /\ s[j] = b[j - Len(a)]
    OBVIOUS
  <2>1. j - Len(a) \in 1..Len(b) /\ j = Len(a) + (j - Len(a))
    BY <1>1, <1>2
  <2> QED
    BY <1>1, <2>1
<1>4. Ordered(s)
  <2> SUFFICES ASSUME NEW j \in 1..Len(s), NEW r \in Demands(s[j]), NEW i \in 1..(j - 1)
               PROVE  ~Returns(s[i], r)
    BY DEF Ordered
  <2>1. CASE j \in 1..Len(a)
    <3>1. i \in 1..Len(a) /\ s[i] = a[i] /\ s[j] = a[j]
      BY <1>1, <1>2, <2>1
    <3> QED
      BY <2>1, <3>1 DEF Sound, Ordered
  <2>2. CASE j - Len(a) \in 1..Len(b) /\ s[j] = b[j - Len(a)]
    <3>1. i \in 1..Len(s)
      BY <1>1, <1>2
    <3>2. CASE i \in 1..Len(a)
      <4>1. r \in K /\ s[i] = a[i]
        BY <1>1, <2>2, <3>2 DEF Covered
      <4> QED
        BY <3>2, <4>1
    <3>3. CASE i - Len(a) \in 1..Len(b) /\ s[i] = b[i - Len(a)]
      <4>1. i - Len(a) \in 1..((j - Len(a)) - 1)
        BY <3>3, <1>2
      <4> QED
        BY <2>2, <3>3, <4>1 DEF Ordered
    <3> QED
      BY <3>1, <3>2, <3>3, <1>3
  <2> QED
    BY <2>1, <2>2, <1>3
<1>5. Supplied(s, H)
  <2> SUFFICES ASSUME NEW j \in 1..Len(s), NEW r \in Demands(s[j])
               PROVE  r \in H \/ \E i \in 1..(j - 1) : s[i].op = "get" /\ s[i].res = r
    BY DEF Supplied
  <2>1. CASE j \in 1..Len(a)
    <3>1. s[j] = a[j] /\ \A i \in 1..(j - 1) : s[i] = a[i]
      BY <1>1, <1>2, <2>1
    <3> QED
      BY <2>1, <3>1 DEF Sound, Supplied
  <2>2. CASE j - Len(a) \in 1..Len(b) /\ s[j] = b[j - Len(a)]
    BY <2>2 DEF Covered
  <2> QED
    BY <2>1, <2>2, <1>3
<1> QED
  BY <1>4, <1>5 DEF Sound, s

LEMMA FoundedTail ==
  ASSUME NEW s \in Seq(CallSet), s # <<>>, NEW H, Founded(s, H)
  PROVE  /\ Founded(Tail(s), H \union {s[1].res})
         /\ s[1].op = "get" /\ IsDoor(s[1].res) => Kind(s[1].res) = "misc" /\ Devm(s[1].res[2]) \in H
<1> DEFINE t == Tail(s)
<1>1. /\ Len(t) = Len(s) - 1 /\ Len(s) \in Nat /\ 1 \in 1..Len(s)
      /\ \A j \in 1..Len(t) : t[j] = s[j + 1] /\ j + 1 \in 1..Len(s)
  BY TailFacts
<1> HIDE DEF t
<1>2. Founded(t, H \union {s[1].res})
  <2> SUFFICES ASSUME NEW j \in 1..Len(t), t[j].op = "get", IsDoor(t[j].res)
               PROVE  /\ Kind(t[j].res) = "misc"
                      /\ \/ Devm(t[j].res[2]) \in H \union {s[1].res}
                         \/ \E i \in 1..(j - 1) : t[i].op = "get" /\ t[i].res = Devm(t[j].res[2])
    BY DEF Founded
  <2>1. t[j] = s[j + 1] /\ j + 1 \in 1..Len(s)
    BY <1>1
  <2>2. Kind(t[j].res) = "misc"
    BY <2>1 DEF Founded
  <2>3. CASE Devm(t[j].res[2]) \in H
    BY <2>2, <2>3
  <2>4. CASE \E i \in 1..((j + 1) - 1) : s[i].op = "get" /\ s[i].res = Devm(t[j].res[2])
    <3>1. PICK i \in 1..((j + 1) - 1) : s[i].op = "get" /\ s[i].res = Devm(t[j].res[2])
      BY <2>4
    <3>2. CASE i = 1
      BY <2>2, <3>1, <3>2
    <3>3. CASE i > 1
      <4>1. i - 1 \in 1..(j - 1) /\ i - 1 \in 1..Len(t)
        BY <3>3, <1>1
      <4>2. t[i - 1] = s[i]
        BY <1>1, <4>1
      <4> QED
        BY <2>2, <3>1, <4>1, <4>2
    <3> QED
      BY <3>2, <3>3
  <2> QED
    BY <2>1, <2>3, <2>4 DEF Founded
<1>3. s[1].op = "get" /\ IsDoor(s[1].res) => Kind(s[1].res) = "misc" /\ Devm(s[1].res[2]) \in H
  BY <1>1 DEF Founded
<1> QED
  BY <1>2, <1>3 DEF t

LEMMA BackedTail ==
  ASSUME NEW s \in Seq(CallSet), s # <<>>, Backed(s)
  PROVE  Backed(Tail(s))
<1> DEFINE t == Tail(s)
<1>1. \A j \in 1..Len(t) : t[j] = s[j + 1] /\ j + 1 \in 1..Len(s)
  BY TailFacts
<1> HIDE DEF t
<1>2. ASSUME NEW j \in 1..Len(t), t[j].rule = "required", NEW i \in 1..(j - 1)
      PROVE  Kind(t[i].res) = "devm"
  <2>1. i \in 1..Len(t) /\ i + 1 \in 1..((j + 1) - 1)
    BY <1>1
  <2> QED
    BY <1>1, <1>2, <2>1 DEF Backed
<1> QED
  BY <1>2 DEF Backed, t

LEMMA InertTail ==
  ASSUME NEW s \in Seq(CallSet), s # <<>>, Inert(s)
  PROVE  /\ Inert(Tail(s))
         /\ Kind(s[1].res) \in Callbacks =>
              /\ s[1].rule \in {"chained", "latest"}
              /\ \A j \in 1..Len(Tail(s)) : Tail(s)[j].rule \in {"untested", "unchecked"}
<1> DEFINE t == Tail(s)
<1>1. Len(s) \in Nat /\ 1 \in 1..Len(s) /\ \A j \in 1..Len(t) : t[j] = s[j + 1] /\ j + 1 \in 1..Len(s)
  BY TailFacts
<1>2. Len(t) = Len(s) - 1
  BY TailFacts
<1> HIDE DEF t
<1>3. ASSUME NEW j \in 1..Len(t), Kind(t[j].res) \in Callbacks
      PROVE  /\ t[j].rule \in {"chained", "latest"}
             /\ \A i \in (j + 1)..Len(t) : t[i].rule \in {"untested", "unchecked"}
  <2>1. \A i \in (j + 1)..Len(t) : i \in 1..Len(t) /\ i + 1 \in ((j + 1) + 1)..Len(s)
    BY <1>1, <1>2
  <2> QED
    BY <1>1, <1>3, <2>1 DEF Inert
<1>4. \A j \in 1..Len(t) : j + 1 \in (1 + 1)..Len(s)
  BY <1>1, <1>2
<1>5. Inert(t)
  BY <1>3 DEF Inert
<1>6. Kind(s[1].res) \in Callbacks =>
        /\ s[1].rule \in {"chained", "latest"}
        /\ \A j \in 1..Len(t) : t[j].rule \in {"untested", "unchecked"}
  BY <1>1, <1>4 DEF Inert
<1> QED
  BY <1>5, <1>6 DEF t

LEMMA SettledTail ==
  ASSUME NEW s \in Seq(CallSet), s # <<>>, NEW gone, Settled(s, gone)
  PROVE  /\ Settled(Tail(s), gone)
         /\ s[1].op = "get" => GivenBy(gone, s[1].res) \/ GivenBy(Tail(s), s[1].res)
<1> DEFINE t == Tail(s)
<1>1. Len(s) \in Nat /\ 1 \in 1..Len(s) /\ \A j \in 1..Len(t) : t[j] = s[j + 1] /\ j + 1 \in 1..Len(s)
  BY TailFacts
<1>2. Len(t) = Len(s) - 1
  BY TailFacts
<1> HIDE DEF t
<1>3. ASSUME NEW j \in 1..Len(s), s[j].op = "get", ~GivenBy(gone, s[j].res)
      PROVE  \E i \in j..Len(t) : i \in 1..Len(t) /\ Returns(t[i], s[j].res)
  <2>1. PICK i \in (j + 1)..Len(s) : Returns(s[i], s[j].res)
    BY <1>3 DEF Settled
  <2>2. i - 1 \in j..Len(t) /\ i - 1 \in 1..Len(t) /\ (i - 1) + 1 = i
    BY <1>1, <1>2
  <2> QED
    BY <1>1, <2>1, <2>2
<1>4. Settled(t, gone)
  BY <1>1, <1>3 DEF Settled
<1>5. s[1].op = "get" => GivenBy(gone, s[1].res) \/ GivenBy(t, s[1].res)
  BY <1>1, <1>3 DEF GivenBy
<1> QED
  BY <1>4, <1>5 DEF t

\* Where each case of Next is named once: the phases a step starts from.
LEMMA StepCases ==
  ASSUME Base, [Next]_vars
  PROVE  \/ Skip \/ Succeed \/ Fail \/ GiveBack \/ Oops
         \/ InitDone \/ ProbeDone \/ Unbind \/ UnbindDone \/ Bind \/ Unload \/ ExitDone
         \/ (\E door \in held : Open(door)) \/ (\E door \in files : Close(door))
         \/ UNCHANGED vars
BY DEF Next, CallStep

\* What a step may never change.
LEMMA Lasts ==
  ASSUME Base, [Next]_vars
  PROVE  mod' = mod /\ children' = children /\ (failed => failed')
<1>1. Skip \/ Succeed \/ GiveBack \/ Oops => mod' = mod /\ children' = children /\ failed' = failed
  BY DEF Skip, Succeed, GiveBack, Oops
<1>2. Fail => mod' = mod /\ children' = children /\ failed'
  BY DEF Fail
<1>3. InitDone \/ ProbeDone \/ Unbind \/ UnbindDone => mod' = mod /\ children' = children /\ failed' = failed
  BY DEF InitDone, ProbeDone, Unbind, UnbindDone
<1>4. Bind \/ Unload \/ ExitDone => mod' = mod /\ children' = children /\ failed' = failed
  BY DEF Bind, Unload, ExitDone
<1>5. /\ \A door : Open(door) => mod' = mod /\ children' = children /\ failed' = failed
      /\ \A door : Close(door) => mod' = mod /\ children' = children /\ failed' = failed
      /\ UNCHANGED vars => mod' = mod /\ children' = children /\ failed' = failed
  BY DEF Open, Close, vars
<1> QED
  BY <1>1, <1>2, <1>3, <1>4, <1>5, StepCases

\* What became of the held resources when the first call gave something back.
LEMMA GiveBackFacts ==
  ASSUME Base, GiveBack
  PROVE  /\ todo # <<>> /\ todo' = Tail(todo) /\ todo[1].op \in {"put", "devm"}
         /\ held' \subseteq held
         /\ \A r \in held : r \in held' \/ Returns(todo[1], r)
         /\ \A r \in held' : ~Returns(todo[1], r)
<1>1. todo # <<>> /\ Head(todo) = todo[1]
  BY CallFacts DEF GiveBack, Due
<1> QED
  BY <1>1 DEF GiveBack, Returns

\* Before any call fails, what init and probe rely on is there.
Loading == phase \in {"init", "probe"} /\ ~failed => Sound(todo, held)

LEMMA LoadingHolds == Init => Loading
BY InitFunctions DEF Init, Loading, Described

LEMMA LoadingKept == Base /\ Loading /\ [Next]_vars => Loading'
<1> SUFFICES ASSUME Base, Loading, [Next]_vars PROVE Loading'
  OBVIOUS
<1>1. CASE Skip
  BY <1>1, CallFacts DEF Skip, Due, Base, Loading
<1>2. CASE Succeed
  <2>1. SUFFICES ASSUME phase' \in {"init", "probe"}, ~failed' PROVE Sound(todo', held')
    BY DEF Loading
  <2>2. /\ todo # <<>> /\ todo' = Tail(todo) /\ held' = held \union {todo[1].res} /\ todo[1].op = "get"
        /\ Sound(todo, held) /\ todo \in Seq(CallSet)
    BY <1>2, <2>1, CallFacts DEF Succeed, Due, Loading, Base
  <2>3. Sound(Tail(todo), held \union {todo[1].res})
    BY <2>2, SoundTail
  <2> QED
    BY <2>2, <2>3
<1>3. CASE Fail
  BY <1>3 DEF Fail, Loading
<1>4. CASE GiveBack
  <2>1. SUFFICES ASSUME phase' \in {"init", "probe"}, ~failed' PROVE Sound(todo', held')
    BY DEF Loading
  <2>2. Sound(todo, held) /\ todo \in Seq(CallSet)
    BY <1>4, <2>1 DEF GiveBack, Loading, Base
  <2>3. Sound(Tail(todo), held')
    BY <1>4, <2>2, GiveBackFacts, SoundTail
  <2> QED
    BY <1>4, <2>3, GiveBackFacts
<1>5. CASE Oops
  BY <1>5 DEF Oops, Loading
<1>6. CASE InitDone
  <2>1. SUFFICES ASSUME phase' = "probe" PROVE Sound(todo', held')
    BY <1>6 DEF InitDone, Loading
  <2>2. mod \in Platforms /\ children \in Nat /\ todo' = ProbeFun(children)[mod] /\ held' = held
    BY <1>6, <2>1, ModuleLifeAssumption DEF InitDone, Base, TypeOK
  <2>3. Sound(ProbeFun(children)[mod], held)
    BY <2>2, PlatformFunctions, SoundMore
  <2> QED
    BY <2>2, <2>3
<1>7. CASE ProbeDone
  BY <1>7 DEF ProbeDone, Loading
<1>8. CASE Unbind
  BY <1>8 DEF Unbind, Loading
<1>9. CASE UnbindDone
  BY <1>9 DEF UnbindDone, Loading
<1>10. CASE Bind
  <2>1. mod \in Platforms /\ children \in Nat /\ todo' = ProbeFun(children)[mod] /\ held' = held
    BY <1>10, ModuleLifeAssumption DEF Bind, Base, TypeOK
  <2>2. Sound(ProbeFun(children)[mod], held)
    BY <2>1, PlatformFunctions, SoundMore
  <2> QED
    BY <2>1, <2>2 DEF Loading
<1>11. CASE Unload
  BY <1>11 DEF Unload, Loading
<1>12. CASE ExitDone
  BY <1>12 DEF ExitDone, Loading
<1>13. CASE \E door \in held : Open(door)
  BY <1>13 DEF Open, Loading
<1>14. CASE \E door \in files : Close(door)
  BY <1>14 DEF Close, Loading
<1>15. CASE UNCHANGED vars
  BY <1>15 DEF vars, Loading
<1> QED
  BY <1>1, <1>2, <1>3, <1>4, <1>5, <1>6, <1>7, <1>8, <1>9, <1>10, <1>11, <1>12, <1>13, <1>14, <1>15, StepCases

-----------------------------------------------------------------------------
(* Unloading *)

Kept(m, r) == GivenBy(ExitFun[m], r)
Removing(m, n) == RemoveFun(n)[m] \o <<ReleaseDevm>>

UnloadExcuse ==
  \/ mod = "drv05_1"
  \/ mod = "sample06_3" /\ (failed \/ children > 1)
  \/ mod = "drv06_1" /\ failed

\* Each resource has a call to come that gives it back.
TrackedInit ==
  /\ mod # "mod05" => /\ \A r \in held : Kept(mod, r)
                      /\ \A j \in 1..Len(todo) : Kept(mod, todo[j].res)
  /\ mod = "mod05" => \A j \in 1..Len(todo) : todo[j].rule # "latest"
  /\ mod = "mod05" /\ status = 0 => /\ \A r \in held : Kept(mod, r) \/ GivenBy(todo, r)
                                    /\ Settled(todo, ExitFun[mod])
TrackedProbe ==
  /\ \A r \in held : Kept(mod, r) \/ GivenBy(Removing(mod, children), r)
  /\ \A j \in 1..Len(todo) : GivenBy(Removing(mod, children), todo[j].res)
  /\ mod \in {"drv06", "dts"} =>
       /\ Backed(todo)
       /\ \A j \in 1..Len(todo) : todo[j].rule = "required" =>
            \A r \in held : Kept(mod, r) \/ Kind(r) = "devm"
TrackedGoing == \A r \in held : Kept(mod, r) \/ GivenBy(todo, r)
TrackedLive == \A r \in held : Kept(mod, r) \/ (bound /\ GivenBy(Removing(mod, children), r))
TrackedPhase ==
  /\ phase = "init" => TrackedInit
  /\ phase = "probe" /\ status = 0 => TrackedProbe
  /\ phase = "probe" /\ status # 0 => TrackedGoing
  /\ phase = "unbind" => TrackedGoing
  /\ phase = "live" => TrackedLive
  /\ phase = "exit" => \A r \in held : GivenBy(todo, r)
  /\ phase = "gone" => held = {}
Tracked == ~UnloadExcuse => TrackedPhase

LEMMA TrackedHolds == Init => Tracked
<1> SUFFICES ASSUME Init, ~UnloadExcuse PROVE TrackedInit
  BY DEF Init, Tracked, TrackedPhase
<1>1. mod \in Modules /\ mod # "drv05_1" /\ todo = InitFun[mod].calls /\ held = {}
  BY DEF Init, UnloadExcuse
<1>2. mod # "mod05" => Returned(todo, ExitFun[mod])
  BY <1>1, InitFunctions DEF Described
<1>3. mod = "mod05" => Settled(todo, ExitFun[mod]) /\ \A j \in 1..Len(todo) : todo[j].rule # "latest"
  <2>1. mod = "mod05" => mod \in Careful
    BY DEF Careful
  <2> QED
    BY <1>1, <2>1, InitFunctions DEF Modest, Tame, Described
<1> QED
  BY <1>1, <1>2, <1>3 DEF TrackedInit, Returned, Kept

\* A probe begins with nothing but what exit gives back, as remove would.
LEMMA TrackedBegins ==
  ASSUME Base, mod \in Platforms, ~UnloadExcuse, \A r \in held : Kept(mod, r)
  PROVE  LET calls == ProbeFun(children)[mod]
         IN  /\ \A j \in 1..Len(calls) : GivenBy(Removing(mod, children), calls[j].res)
             /\ mod \in {"drv06", "dts"} => Backed(calls)
<1>1. children \in Nat /\ (mod # "sample06_3" \/ children <= 1)
  BY ModuleLifeAssumption DEF Base, TypeOK, UnloadExcuse
<1> QED
  BY <1>1, PlatformFunctions DEF Returned, Removing

LEMMA TrackedKept == Base /\ Tracked /\ [Next]_vars => Tracked'
<1> SUFFICES ASSUME Base, Tracked, [Next]_vars, ~UnloadExcuse' PROVE TrackedPhase'
  BY DEF Tracked
<1>0. ~UnloadExcuse /\ mod' = mod /\ children' = children
  BY Lasts DEF UnloadExcuse
<1>b. TrackedPhase
  BY <1>0 DEF Tracked
<1>a. todo \in Seq(CallSet) /\ mod \in Modules /\ children \in Nat
  BY ModuleLifeAssumption DEF Base, TypeOK
<1>1. CASE Skip
  <2>1. /\ todo # <<>> /\ todo' = Tail(todo) /\ held' = held /\ phase' = phase /\ status' = status /\ status # 0
        /\ Guarded(todo[1])
    BY <1>1, CallFacts DEF Skip, Due
  <2>2. phase = "init"
    BY <2>1, CallFacts, ReleaseFacts DEF Fits, RemoveCall, ExitCall, Guarded, Calling
  <2>3. TrackedInit'
    BY <1>0, <1>b, <2>1, <2>2, CallFacts DEF TrackedPhase, TrackedInit
  <2> QED
    BY <2>1, <2>2, <2>3 DEF TrackedPhase
<1>2. CASE Succeed
  <2>1. /\ todo # <<>> /\ todo' = Tail(todo) /\ held' = held \union {todo[1].res} /\ phase' = phase
        /\ todo[1].op = "get" /\ (status' = status \/ (status' = 0 /\ todo[1].rule = "latest"))
    BY <1>2, CallFacts DEF Succeed, Due
  <2>2. CASE phase = "init"
    <3>1. mod # "mod05" => TrackedInit'
      BY <1>0, <1>b, <2>1, <2>2, CallFacts DEF TrackedPhase, TrackedInit
    <3>2. ASSUME mod = "mod05" PROVE TrackedInit'
      <4>1. status' = status
        BY <1>0, <1>b, <2>1, <2>2, <3>2, CallFacts DEF TrackedPhase, TrackedInit
      <4>2. \A j \in 1..Len(todo') : todo'[j].rule # "latest"
        BY <1>0, <1>b, <2>1, <2>2, <3>2, CallFacts DEF TrackedPhase, TrackedInit
      <4>3. ASSUME status = 0
            PROVE  /\ \A r \in held' : Kept(mod, r) \/ GivenBy(todo', r)
                   /\ Settled(todo', ExitFun[mod])
        <5>1. /\ \A r \in held : Kept(mod, r) \/ GivenBy(todo, r)
              /\ Settled(todo, ExitFun[mod])
          BY <1>0, <1>b, <2>2, <3>2, <4>3 DEF TrackedPhase, TrackedInit
        <5>2. \A r : ~Returns(todo[1], r)
          BY <2>1 DEF Returns
        <5>3. \A r \in held : Kept(mod, r) \/ GivenBy(Tail(todo), r)
          BY <1>a, <2>1, <5>1, <5>2, GivenTail
        <5>4. Settled(Tail(todo), ExitFun[mod]) /\ (Kept(mod, todo[1].res) \/ GivenBy(Tail(todo), todo[1].res))
          BY <1>a, <2>1, <5>1, SettledTail DEF Kept
        <5> QED
          BY <2>1, <5>3, <5>4
      <4> QED
        BY <1>0, <1>b, <3>2, <4>1, <4>2, <4>3 DEF TrackedInit
    <3> QED
      BY <2>1, <2>2, <3>1, <3>2 DEF TrackedPhase
  <2>3. CASE phase = "probe"
    <3>1. status = 0 /\ status' = 0 /\ ProbeCall(todo[1])
      BY <2>1, <2>3, CallFacts, ReleaseFacts DEF Fits, ProbeCall
    <3>2. TrackedProbe
      BY <1>0, <1>b, <2>3, <3>1 DEF TrackedPhase
    <3>3. /\ \A r \in held' : Kept(mod, r) \/ GivenBy(Removing(mod, children), r)
          /\ \A j \in 1..Len(todo') : GivenBy(Removing(mod, children), todo'[j].res)
      BY <2>1, <3>2, CallFacts DEF TrackedProbe
    <3>4. ASSUME mod \in {"drv06", "dts"}
          PROVE  /\ Backed(todo')
                 /\ \A j \in 1..Len(todo') : todo'[j].rule = "required" =>
                      \A r \in held' : Kept(mod, r) \/ Kind(r) = "devm"
      <4>1. Backed(todo) /\ Backed(todo')
        BY <1>a, <2>1, <3>2, <3>4, BackedTail DEF TrackedProbe
      <4>2. ASSUME NEW j \in 1..Len(todo'), todo'[j].rule = "required", NEW r \in held'
            PROVE  Kept(mod, r) \/ Kind(r) = "devm"
        <5>1. j + 1 \in 1..Len(todo) /\ todo'[j] = todo[j + 1] /\ 1 \in 1..((j + 1) - 1)
          BY <1>a, <2>1, CallFacts
        <5>2. Kind(todo[1].res) = "devm"
          BY <4>1, <4>2, <5>1 DEF Backed
        <5> QED
          BY <2>1, <3>2, <3>4, <4>2, <5>1, <5>2 DEF TrackedProbe
      <4> QED
        BY <4>1, <4>2
    <3>5. TrackedProbe'
      BY <1>0, <1>b, <3>3, <3>4 DEF TrackedProbe
    <3> QED
      BY <2>1, <2>3, <3>1, <3>5 DEF TrackedPhase
  <2>4. phase \in {"init", "probe"}
    BY <2>1, CallFacts DEF Fits, RemoveCall, ExitCall, Calling
  <2> QED
    BY <2>2, <2>3, <2>4
<1>3. CASE Fail
  <2>1. /\ todo # <<>> /\ held' = held /\ phase' = phase /\ todo[1].op = "get" /\ failed'
        /\ status' = IF todo[1].rule \in {"untested", "unchecked"} THEN status ELSE Error
        /\ todo' = IF todo[1].rule = "required" THEN <<ReleaseDevm>> ELSE Tail(todo)
    BY <1>3, CallFacts DEF Fail, Due
  <2>2. CASE phase = "init"
    <3>1. todo' = Tail(todo) /\ (status' = 0 => status = 0)
      BY <2>1, <2>2, CallFacts DEF Fits, InitCall, Error
    <3>2. mod # "mod05" => TrackedInit'
      BY <1>0, <1>b, <2>1, <2>2, <3>1, CallFacts DEF TrackedPhase, TrackedInit
    <3>3. ASSUME mod = "mod05" PROVE TrackedInit'
      <4>1. \A j \in 1..Len(todo') : todo'[j].rule # "latest"
        BY <1>0, <1>b, <2>1, <2>2, <3>1, <3>3, CallFacts DEF TrackedPhase, TrackedInit
      <4>2. ASSUME status = 0
            PROVE  /\ \A r \in held' : Kept(mod, r) \/ GivenBy(todo', r)
                   /\ Settled(todo', ExitFun[mod])
        <5>1. /\ \A r \in held : Kept(mod, r) \/ GivenBy(todo, r)
              /\ Settled(todo, ExitFun[mod])
          BY <1>0, <1>b, <2>2, <3>3, <4>2 DEF TrackedPhase, TrackedInit
        <5>2. \A r : ~Returns(todo[1], r)
          BY <2>1 DEF Returns
        <5>3. \A r \in held : Kept(mod, r) \/ GivenBy(Tail(todo), r)
          BY <1>a, <2>1, <5>1, <5>2, GivenTail
        <5>4. Settled(Tail(todo), ExitFun[mod])
          BY <1>a, <2>1, <5>1, SettledTail
        <5> QED
          BY <2>1, <3>1, <5>3, <5>4
      <4> QED
        BY <1>0, <1>b, <3>1, <3>3, <4>1, <4>2 DEF TrackedInit
    <3> QED
      BY <2>1, <2>2, <3>2, <3>3 DEF TrackedPhase
  <2>3. CASE phase = "probe"
    <3>1. status = 0 /\ ProbeCall(todo[1])
      BY <2>1, <2>3, CallFacts, ReleaseFacts DEF Fits
    <3>2. TrackedProbe
      BY <1>0, <1>b, <2>3, <3>1 DEF TrackedPhase
    <3>3. CASE todo[1].rule = "unchecked"
      <4>1. status' = 0 /\ todo' = Tail(todo)
        BY <2>1, <3>1, <3>3
      <4>2. /\ \A r \in held' : Kept(mod, r) \/ GivenBy(Removing(mod, children), r)
            /\ \A j \in 1..Len(todo') : GivenBy(Removing(mod, children), todo'[j].res)
        BY <2>1, <3>2, <4>1, CallFacts DEF TrackedProbe
      <4>3. ASSUME mod \in {"drv06", "dts"}
            PROVE  /\ Backed(todo')
                   /\ \A j \in 1..Len(todo') : todo'[j].rule = "required" =>
                        \A r \in held' : Kept(mod, r) \/ Kind(r) = "devm"
        <5>1. Backed(todo')
          BY <1>a, <2>1, <3>2, <4>1, <4>3, BackedTail DEF TrackedProbe
        <5> QED
          BY <2>1, <3>2, <4>1, <4>3, <5>1, CallFacts DEF TrackedProbe
      <4>4. TrackedProbe'
        BY <1>0, <1>b, <4>2, <4>3 DEF TrackedProbe
      <4> QED
        BY <2>1, <2>3, <4>1, <4>4 DEF TrackedPhase
    <3>4. CASE todo[1].rule = "required"
      <4>1. status' # 0 /\ todo' = <<ReleaseDevm>>
        BY <2>1, <3>4 DEF Error
      <4>2. mod \in {"drv06", "dts"}
        <5>1. failed' /\ mod \in Platforms
          BY <2>1, <2>3 DEF Base
        <5> QED
          BY <1>0, <1>b, <5>1 DEF UnloadExcuse, Platforms
      <4>3. \A r \in held' : Kept(mod, r) \/ Kind(r) = "devm"
        BY <2>1, <3>2, <3>4, <4>2, CallFacts DEF TrackedProbe
      <4>4. \A r : Kind(r) = "devm" => GivenBy(todo', r)
        <5>1. 1 \in 1..Len(todo') /\ todo'[1] = ReleaseDevm
          BY <4>1, ReleaseFacts
        <5> QED
          BY <5>1, ReleaseFacts DEF GivenBy, Returns
      <4>5. TrackedGoing'
        BY <1>0, <1>b, <4>3, <4>4 DEF TrackedGoing
      <4> QED
        BY <2>1, <2>3, <4>1, <4>5 DEF TrackedPhase
    <3> QED
      BY <3>1, <3>3, <3>4 DEF ProbeCall
  <2>4. phase \in {"init", "probe"}
    BY <2>1, CallFacts DEF Fits, RemoveCall, ExitCall, Calling
  <2> QED
    BY <2>2, <2>3, <2>4
<1>4. CASE GiveBack
  <2>1. /\ todo # <<>> /\ todo' = Tail(todo) /\ todo[1].op \in {"put", "devm"} /\ held' \subseteq held
        /\ \A r \in held' : ~Returns(todo[1], r)
        /\ phase' = phase /\ status' = status /\ bound' = bound
    BY <1>4, GiveBackFacts DEF GiveBack
  <2>2. \A r \in held' : GivenBy(todo, r) => GivenBy(todo', r)
    BY <1>a, <2>1, GivenTail
  <2>3. phase = "init" => TrackedInit'
    <3>1. mod = "mod05" /\ phase = "init" /\ status = 0 => Settled(todo', ExitFun[mod])
      BY <1>0, <1>b, <1>a, <2>1, SettledTail DEF TrackedPhase, TrackedInit
    <3> QED
      BY <1>0, <1>b, <2>1, <2>2, <3>1, CallFacts DEF TrackedPhase, TrackedInit
  <2>4. ~(phase = "probe" /\ status = 0)
    BY <2>1, CallFacts DEF Fits, ProbeCall
  <2>5. (phase = "probe" \/ phase = "unbind") => TrackedGoing'
    BY <1>0, <1>b, <2>1, <2>2, <2>4 DEF TrackedPhase, TrackedGoing
  <2>6. phase = "exit" => \A r \in held' : GivenBy(todo', r)
    BY <1>0, <1>b, <2>1, <2>2 DEF TrackedPhase
  <2>7. phase \in Calling
    BY <2>1, CallFacts
  <2> QED
    BY <2>1, <2>3, <2>4, <2>5, <2>6, <2>7 DEF TrackedPhase, Calling
<1>5. CASE Oops
  BY <1>5 DEF Oops, TrackedPhase
<1>6. CASE InitDone
  <2>1. phase = "init" /\ todo = <<>> /\ held' = held /\ status' = 0 /\ bound' = bound /\ phase' \in {"failed", "live", "probe"}
        /\ (phase' # "failed" => ~(InitFun[mod].reports /\ status # 0))
    BY <1>6 DEF InitDone
  <2>2. ASSUME phase' # "failed" PROVE \A r \in held : Kept(mod, r)
    <3>1. mod = "mod05" => InitFun[mod].reports
      BY <1>a, InitFunctions DEF Described
    <3>2. \A r : ~GivenBy(todo, r)
      BY <2>1, NoCalls DEF GivenBy
    <3> QED
      BY <1>0, <1>b, <2>1, <2>2, <3>1, <3>2 DEF TrackedPhase, TrackedInit
  <2>3. CASE phase' = "live"
    BY <1>0, <1>b, <2>1, <2>2, <2>3 DEF TrackedPhase, TrackedLive
  <2>4. CASE phase' = "probe"
    <3>1. mod \in Platforms /\ todo' = ProbeFun(children)[mod]
      BY <1>6, <2>4 DEF InitDone, Base
    <3>2. TrackedProbe'
      BY <1>0, <1>b, <2>1, <2>2, <2>4, <3>1, TrackedBegins DEF TrackedProbe
    <3> QED
      BY <2>1, <2>4, <3>2 DEF TrackedPhase
  <2>5. CASE phase' = "failed"
    BY <2>5 DEF TrackedPhase
  <2> QED
    BY <2>1, <2>3, <2>4, <2>5
<1>7. CASE ProbeDone
  <2>1. phase = "probe" /\ todo = <<>> /\ held' = held /\ phase' = "live" /\ bound' = (status = 0)
    BY <1>7 DEF ProbeDone
  <2>2. \A r : ~GivenBy(todo, r)
    BY <2>1, NoCalls DEF GivenBy
  <2>3. TrackedLive'
    <3>1. CASE status = 0
      BY <1>0, <1>b, <2>1, <3>1 DEF TrackedPhase, TrackedProbe, TrackedLive
    <3>2. CASE status # 0
      BY <1>0, <1>b, <2>1, <2>2, <3>2 DEF TrackedPhase, TrackedGoing, TrackedLive
    <3> QED
      BY <3>1, <3>2
  <2> QED
    BY <2>1, <2>3 DEF TrackedPhase
<1>8. CASE Unbind
  BY <1>0, <1>b, <1>8 DEF Unbind, TrackedPhase, TrackedLive, TrackedGoing, Removing, Removal
<1>9. CASE UnbindDone
  <2>1. phase = "unbind" /\ todo = <<>> /\ held' = held /\ phase' = "live"
    BY <1>9 DEF UnbindDone
  <2>2. \A r : ~GivenBy(todo, r)
    BY <2>1, NoCalls DEF GivenBy
  <2> QED
    BY <1>0, <1>b, <2>1, <2>2 DEF TrackedPhase, TrackedGoing, TrackedLive
<1>10. CASE Bind
  <2>1. /\ phase = "live" /\ ~bound /\ phase' = "probe" /\ todo' = ProbeFun(children)[mod]
        /\ held' = held /\ status' = status
    BY <1>10 DEF Bind
  <2>2. mod \in Platforms /\ status = 0
    BY <1>10 DEF Bind, Base
  <2>3. \A r \in held : Kept(mod, r)
    BY <1>0, <1>b, <2>1 DEF TrackedPhase, TrackedLive
  <2>4. TrackedProbe'
    BY <1>0, <1>b, <2>1, <2>2, <2>3, TrackedBegins DEF TrackedProbe
  <2> QED
    BY <2>1, <2>2, <2>4 DEF TrackedPhase
<1>11. CASE Unload
  <2> DEFINE first == IF bound THEN Removal ELSE <<>>
             second == ExitFun[mod]
  <2>1. phase = "live" /\ phase' = "exit" /\ todo' = first \o second /\ held' = held
    BY <1>11 DEF Unload
  <2>2. second \in Seq(CallSet)
    BY <1>a, InitFunctions DEF Described
  <2>3. first \in Seq(CallSet)
    BY <1>a, PlatformFunctions, NoCalls DEF Base, TypeOK, Removal
  <2>4. \A r \in held : GivenBy(first, r) \/ GivenBy(second, r)
    BY <1>0, <1>b, <2>1 DEF TrackedPhase, TrackedLive, Kept, Removing, Removal
  <2> HIDE DEF first, second
  <2>5. \A r \in held : GivenBy(todo', r)
    BY <2>1, <2>2, <2>3, <2>4, GivenCat
  <2> QED
    BY <2>1, <2>5 DEF TrackedPhase
<1>12. CASE ExitDone
  <2>1. phase = "exit" /\ todo = <<>> /\ held' = held /\ phase' = "gone"
    BY <1>12 DEF ExitDone
  <2>2. \A r : ~GivenBy(todo, r)
    BY <2>1, NoCalls DEF GivenBy
  <2> QED
    BY <1>0, <1>b, <2>1, <2>2 DEF TrackedPhase
<1>13. CASE \E door \in held : Open(door)
  BY <1>0, <1>b, <1>13 DEF Open, TrackedPhase, TrackedInit, TrackedProbe, TrackedGoing, TrackedLive
<1>14. CASE \E door \in files : Close(door)
  BY <1>0, <1>b, <1>14 DEF Close, TrackedPhase, TrackedInit, TrackedProbe, TrackedGoing, TrackedLive
<1>15. CASE UNCHANGED vars
  BY <1>0, <1>b, <1>15 DEF vars, TrackedPhase, TrackedInit, TrackedProbe, TrackedGoing, TrackedLive
<1> QED
  BY <1>1, <1>2, <1>3, <1>4, <1>5, <1>6, <1>7, <1>8, <1>9, <1>10, <1>11, <1>12, <1>13, <1>14, <1>15, StepCases

\* What UnloadComplete says: every resource is given back, but for the modules
\* and the failures it names.
THEOREM UnloadsCompletely == Spec => []UnloadComplete
<1>1. Init => Base /\ Tracked
  BY BaseHolds, TrackedHolds
<1>2. Base /\ Tracked /\ [Next]_vars => (Base /\ Tracked)'
  BY BaseKept, TrackedKept
<1>3. Base /\ Tracked => UnloadComplete
  BY DEF Tracked, TrackedPhase, UnloadExcuse, UnloadComplete
<1> QED
  BY <1>1, <1>2, <1>3, PTL DEF Spec

-----------------------------------------------------------------------------
(* Stray calls *)

LEMMA ModestTail ==
  ASSUME NEW s \in Seq(CallSet), s # <<>>, NEW gone, Modest(s, gone)
  PROVE  Modest(Tail(s), gone)
<1> DEFINE t == Tail(s)
<1>1. \A j \in 1..Len(t) : t[j] = s[j + 1] /\ j + 1 \in 1..Len(s)
  BY TailFacts
<1> HIDE DEF t
<1>2. Modest(t, gone)
  BY <1>1 DEF Modest, Spared
<1> QED
  BY <1>2 DEF t

\* All that s relies on is in H or asked for by t.
Promised(s, H, t) == \A j \in 1..Len(s) : \A r \in Demands(s[j]) : r \in H \/ Asks(t, r)

StrayExcuse ==
  \/ failed /\ mod \notin Careful
  \/ mod = "sample06_3" /\ children = 0
  \/ mod = "drv05_1"

\* What is to come finds all it relies on.
StrayInit ==
  /\ mod \in Careful =>
       /\ Modest(todo, ExitFun[mod])
       /\ ~InitFun[mod].reports =>
            status = 0 /\ \A j \in 1..Len(todo) : todo[j].rule \in {"untested", "unchecked"}
  /\ status = 0 => Sound(todo, held) /\ Promised(ExitFun[mod], held, todo)
StrayPhase ==
  /\ phase # "oops" /\ unowned = {}
  /\ phase = "init" => StrayInit
  /\ phase = "probe" => Sound(todo, held) /\ Promised(Removing(mod, children), held, todo)
  /\ phase = "live" => /\ Covered(ExitFun[mod], held)
                       /\ bound => Covered(Removing(mod, children), held)
  /\ phase \in {"unbind", "exit"} => Sound(todo, held)
Stray == ~StrayExcuse => StrayPhase

LEMMA StrayHolds == Init => Stray
<1> SUFFICES ASSUME Init, ~StrayExcuse PROVE StrayPhase
  BY DEF Stray
<1>1. /\ mod \in Modules /\ mod # "drv05_1" /\ todo = InitFun[mod].calls /\ held = {} /\ status = 0
      /\ phase = "init" /\ unowned = {}
  BY DEF Init, StrayExcuse
<1>2. /\ Sound(todo, held) /\ Matched(todo, ExitFun[mod])
      /\ mod \in Careful => /\ Modest(todo, ExitFun[mod])
                            /\ ~InitFun[mod].reports => \A j \in 1..Len(todo) : todo[j].rule \in {"untested", "unchecked"}
  BY <1>1, InitFunctions DEF Described
<1> QED
  BY <1>1, <1>2 DEF StrayPhase, StrayInit, Promised, Matched

\* Without calls that ask, what is promised is there.
LEMMA PromisesKept ==
  ASSUME NEW s, NEW H, Promised(s, H, <<>>)
  PROVE  Covered(s, H)
BY NoCalls DEF Promised, Covered, Asks

LEMMA StrayKept == Base /\ Loading /\ Stray /\ [Next]_vars => Stray'
<1> SUFFICES ASSUME Base, Loading, Stray, [Next]_vars, ~StrayExcuse' PROVE StrayPhase'
  BY DEF Stray
<1>0. ~StrayExcuse /\ mod' = mod /\ children' = children /\ (failed' => mod \in Careful) /\ mod # "drv05_1"
      /\ ~(mod = "sample06_3" /\ children = 0)
  BY Lasts DEF StrayExcuse
<1>a. todo \in Seq(CallSet) /\ mod \in Modules /\ children \in Nat
  BY ModuleLifeAssumption DEF Base, TypeOK
<1>b. StrayPhase
  BY <1>0 DEF Stray
<1>c. mod \in Platforms => mod \notin Careful
  BY DEF Platforms, Careful
<1>d. status # 0 => mod \in Careful /\ phase = "init"
  BY <1>0, <1>b, <1>c, Lasts DEF Base, StrayPhase
<1>1. CASE Skip
  <2>1. /\ todo # <<>> /\ todo' = Tail(todo) /\ held' = held /\ phase' = phase /\ status' = status
        /\ unowned' = unowned /\ Guarded(todo[1]) /\ status # 0
    BY <1>1, CallFacts DEF Skip, Due
  <2>2. StrayInit'
    BY <1>0, <1>a, <1>b, <1>d, <2>1, CallFacts, ModestTail DEF StrayPhase, StrayInit
  <2> QED
    BY <1>b, <1>d, <2>1, <2>2 DEF StrayPhase
<1>2. CASE Succeed
  <2>1. /\ todo # <<>> /\ todo' = Tail(todo) /\ held' = held \union {todo[1].res} /\ phase' = phase
        /\ todo[1].op = "get" /\ (status' = status \/ (status' = 0 /\ todo[1].rule = "latest"))
        /\ unowned' = unowned
    BY <1>2, CallFacts DEF Succeed, Due
  <2>2. Sound(todo, held) => Sound(todo', held')
    <3>1. Sound(todo, held) => Sound(Tail(todo), held \union {todo[1].res})
      BY <1>a, <2>1, SoundTail DEF Returns
    <3> QED
      BY <2>1, <3>1
  <2>3. \A s : Promised(s, held, todo) => Promised(s, held', todo')
    BY <1>a, <2>1, AsksTail DEF Promised
  <2>4. phase = "init" => StrayInit'
    <3>1. ASSUME phase = "init", mod \in Careful
          PROVE  /\ status' = status /\ Modest(todo', ExitFun[mod])
                 /\ ~InitFun[mod].reports =>
                      status = 0 /\ \A j \in 1..Len(todo') : todo'[j].rule \in {"untested", "unchecked"}
      <4>1. /\ Modest(todo, ExitFun[mod])
            /\ ~InitFun[mod].reports =>
                 status = 0 /\ \A j \in 1..Len(todo) : todo[j].rule \in {"untested", "unchecked"}
        BY <1>b, <3>1 DEF StrayPhase, StrayInit
      <4>2. todo[1].rule # "latest"
        BY <2>1, <4>1, CallFacts DEF Modest, Tame
      <4>3. Modest(Tail(todo), ExitFun[mod])
        BY <1>a, <2>1, <4>1, ModestTail
      <4> QED
        BY <2>1, <4>1, <4>2, <4>3, CallFacts
    <3>2. phase = "init" /\ mod \notin Careful => status = 0
      BY <1>d
    <3>3. phase = "init" /\ status = 0 => Sound(todo, held) /\ Promised(ExitFun[mod], held, todo)
      BY <1>b DEF StrayPhase, StrayInit
    <3> QED
      BY <1>0, <2>2, <2>3, <3>1, <3>2, <3>3 DEF StrayInit
  <2>5. phase = "probe" => Sound(todo', held') /\ Promised(Removing(mod, children), held', todo')
    BY <1>b, <2>2, <2>3 DEF StrayPhase
  <2>6. phase \in {"init", "probe"}
    BY <2>1, CallFacts DEF Fits, RemoveCall, ExitCall, Calling
  <2> QED
    BY <1>0, <1>b, <2>1, <2>4, <2>5, <2>6 DEF StrayPhase
<1>3. CASE Fail
  <2>1. /\ todo # <<>> /\ held' = held /\ phase' = phase /\ todo[1].op = "get" /\ failed'
        /\ status' = IF todo[1].rule \in {"untested", "unchecked"} THEN status ELSE Error
        /\ todo' = IF todo[1].rule = "required" THEN <<ReleaseDevm>> ELSE Tail(todo)
        /\ unowned' = unowned
    BY <1>3, CallFacts DEF Fail, Due
  <2>2. mod \in Careful
    BY <1>0, <2>1
  <2>3. phase = "init"
    BY <1>c, <2>1, <2>2, CallFacts DEF Fits, RemoveCall, ExitCall, Calling, Base
  <2>4. todo' = Tail(todo) /\ (status' = 0 => status = 0 /\ todo[1].rule \in {"untested", "unchecked"})
    BY <2>1, <2>3, CallFacts DEF Fits, InitCall, Error
  <2>5. /\ Modest(todo, ExitFun[mod])
        /\ ~InitFun[mod].reports =>
             status = 0 /\ \A j \in 1..Len(todo) : todo[j].rule \in {"untested", "unchecked"}
        /\ status = 0 => Sound(todo, held) /\ Promised(ExitFun[mod], held, todo)
    BY <1>b, <2>2, <2>3 DEF StrayPhase, StrayInit
  <2>6. Modest(todo', ExitFun[mod])
    BY <1>a, <2>1, <2>4, <2>5, ModestTail
  <2>7. ~InitFun[mod].reports =>
             status' = 0 /\ \A j \in 1..Len(todo') : todo'[j].rule \in {"untested", "unchecked"}
    BY <2>1, <2>4, <2>5, CallFacts
  <2>8. ASSUME status' = 0 PROVE Sound(todo', held') /\ Promised(ExitFun[mod], held', todo')
    <3>1. /\ \A i \in 1..Len(todo) : todo[1].res \notin Demands(todo[i])
          /\ \A i \in 1..Len(ExitFun[mod]) : todo[1].res \notin Demands(ExitFun[mod][i])
      BY <2>1, <2>4, <2>5, <2>8, CallFacts DEF Modest, Spared
    <3>2. Sound(todo, held) /\ Promised(ExitFun[mod], held, todo)
      BY <2>4, <2>5, <2>8
    <3>3. Sound(Tail(todo), held)
      BY <1>a, <2>1, <3>1, <3>2, SoundTail
    <3>4. Promised(ExitFun[mod], held, Tail(todo))
      BY <1>a, <2>1, <3>1, <3>2, AsksTail DEF Promised
    <3> QED
      BY <2>1, <2>4, <3>3, <3>4
  <2>9. StrayInit'
    BY <1>0, <2>6, <2>7, <2>8 DEF StrayInit
  <2> QED
    BY <1>b, <2>1, <2>3, <2>9 DEF StrayPhase
<1>4. CASE GiveBack
  <2>1. /\ todo # <<>> /\ todo' = Tail(todo) /\ todo[1].op \in {"put", "devm"} /\ held' \subseteq held
        /\ \A r \in held : r \in held' \/ Returns(todo[1], r)
        /\ phase' = phase /\ status' = status /\ bound' = bound /\ Due
    BY <1>4, GiveBackFacts DEF GiveBack
  <2>2. phase \in {"init", "unbind", "exit"}
    BY <1>d, <2>1, CallFacts DEF Fits, ProbeCall, Calling
  <2>3. Sound(todo, held) => Sound(todo', held')
    <3>1. Sound(todo, held) => Sound(Tail(todo), held')
      BY <1>a, <2>1, SoundTail
    <3> QED
      BY <2>1, <3>1
  <2>4. phase \in {"unbind", "exit"} \/ status = 0 => Sound(todo, held)
    BY <1>b, <2>2 DEF StrayPhase, StrayInit
  <2>5. todo[1].op = "put" => todo[1].res \in held \/ todo[1].rule = "held"
    <3>1. CASE Sound(todo, held)
      BY <1>a, <2>1, <3>1, SoundHead
    <3>2. CASE status # 0
      <4>1. Tame(todo[1]) /\ ~Guarded(todo[1])
        BY <1>b, <1>d, <2>1, <3>2, CallFacts DEF StrayPhase, StrayInit, Modest, Due
      <4> QED
        BY <4>1 DEF Tame
    <3> QED
      BY <2>2, <2>4, <3>1, <3>2
  <2>6. unowned' = {}
    BY <1>4, <1>b, <2>1, <2>5, CallFacts DEF GiveBack, StrayPhase
  <2>7. phase = "init" => StrayInit'
    <3>1. SUFFICES ASSUME phase = "init" PROVE StrayInit'
      OBVIOUS
    <3>2. todo[1].op = "put" /\ mod = "mod05" /\ mod \in Careful
      BY <2>1, <3>1, CallFacts DEF Fits, InitCall, Careful
    <3>3. Covered(ExitFun[mod], {})
      BY <1>a, <3>2, InitFunctions DEF Described
    <3>4. Promised(ExitFun[mod], held', todo')
      BY <3>3 DEF Promised, Covered
    <3>5. /\ Modest(todo, ExitFun[mod])
          /\ ~InitFun[mod].reports =>
               status = 0 /\ \A j \in 1..Len(todo) : todo[j].rule \in {"untested", "unchecked"}
      BY <1>b, <3>1, <3>2 DEF StrayPhase, StrayInit
    <3>6. Modest(Tail(todo), ExitFun[mod])
      BY <1>a, <2>1, <3>5, ModestTail
    <3> QED
      BY <1>0, <2>1, <2>3, <2>4, <3>4, <3>5, <3>6, CallFacts DEF StrayInit
  <2> QED
    BY <1>b, <2>1, <2>2, <2>3, <2>4, <2>6, <2>7 DEF StrayPhase
<1>5. CASE Oops
  <2>1. todo # <<>> /\ Due /\ todo[1].on # Nothing /\ todo[1].on \notin held
    BY <1>5, CallFacts DEF Oops, Due, Good
  <2>2. ~Sound(todo, held)
    BY <1>a, <2>1, SoundHead
  <2>3. phase = "init" /\ status # 0
    BY <1>b, <2>1, <2>2, CallFacts DEF StrayPhase, StrayInit, Calling
  <2>4. Tame(todo[1]) /\ ~Guarded(todo[1])
    BY <1>b, <1>d, <2>1, <2>3, CallFacts DEF StrayPhase, StrayInit, Modest, Due
  <2> QED
    BY <2>1, <2>4 DEF Tame
<1>6. CASE InitDone
  <2>1. /\ phase = "init" /\ todo = <<>> /\ held' = held /\ status' = 0 /\ bound' = bound /\ unowned' = unowned
        /\ phase' \in {"failed", "live", "probe"}
        /\ (phase' # "failed" => ~(InitFun[mod].reports /\ status # 0))
    BY <1>6 DEF InitDone
  <2>2. phase' # "failed" => Covered(ExitFun[mod], held)
    <3>1. phase' # "failed" => status = 0
      BY <1>b, <1>d, <2>1 DEF StrayPhase, StrayInit
    <3> QED
      BY <1>b, <2>1, <3>1, PromisesKept DEF StrayPhase, StrayInit
  <2>3. bound' = FALSE
    BY <2>1 DEF Base, TypeOK
  <2>4. phase' = "probe" => Sound(todo', held') /\ Promised(Removing(mod, children), held', todo')
    <3>1. SUFFICES ASSUME phase' = "probe"
                   PROVE  Sound(todo', held') /\ Promised(Removing(mod, children), held', todo')
      OBVIOUS
    <3>2. mod \in Platforms /\ todo' = ProbeFun(children)[mod]
      BY <1>6, <3>1 DEF InitDone, Base
    <3>a. mod # "sample06_3" \/ children > 0
      BY <1>0, <1>a
    <3>3. Sound(todo', {}) /\ Matched(todo', Removing(mod, children))
      BY <1>a, <3>2, <3>a, PlatformFunctions DEF Removing
    <3>4. Sound(todo', held')
      BY <3>3, SoundMore
    <3> QED
      BY <3>3, <3>4 DEF Promised, Matched
  <2> QED
    BY <1>0, <1>b, <2>1, <2>2, <2>3, <2>4 DEF StrayPhase
<1>7. CASE ProbeDone
  <2>1. phase = "probe" /\ todo = <<>> /\ held' = held /\ phase' = "live" /\ unowned' = unowned
    BY <1>7 DEF ProbeDone
  <2>2. Covered(Removing(mod, children), held)
    BY <1>b, <2>1, PromisesKept DEF StrayPhase
  <2>3. Covered(ExitFun[mod], {Driver}) /\ Driver \in held
    BY <1>a, <2>1, InitFunctions DEF Base, Described
  <2>4. Covered(ExitFun[mod], held)
    BY <2>3 DEF Covered
  <2> QED
    BY <1>0, <1>b, <2>1, <2>2, <2>4 DEF StrayPhase
<1>8. CASE Unbind
  <2>1. phase = "live" /\ bound /\ todo' = Removing(mod, children) /\ held' = held /\ phase' = "unbind"
        /\ unowned' = unowned /\ mod \in Platforms
    BY <1>8 DEF Unbind, Removal, Removing, Base, TypeOK
  <2>2. Ordered(Removing(mod, children))
    BY <1>0, <1>a, <2>1, PlatformFunctions DEF Removing, Matched
  <2>3. Sound(todo', held')
    BY <1>b, <2>1, <2>2, SoundCovered DEF StrayPhase
  <2> QED
    BY <1>b, <2>1, <2>3 DEF StrayPhase
<1>9. CASE UnbindDone
  <2>1. phase = "unbind" /\ todo = <<>> /\ held' = held /\ phase' = "live" /\ unowned' = unowned /\ bound' = bound
    BY <1>9 DEF UnbindDone
  <2>2. Covered(ExitFun[mod], {Driver}) /\ Driver \in held /\ ~bound
    BY <1>a, <2>1, InitFunctions DEF Base, Described
  <2>3. Covered(ExitFun[mod], held)
    BY <2>2 DEF Covered
  <2> QED
    BY <1>0, <1>b, <2>1, <2>2, <2>3 DEF StrayPhase
<1>10. CASE Bind
  <2>1. phase = "live" /\ phase' = "probe" /\ todo' = ProbeFun(children)[mod] /\ held' = held /\ unowned' = unowned
        /\ mod \in Platforms
    BY <1>10 DEF Bind, Base
  <2>a. mod # "sample06_3" \/ children > 0
    BY <1>0, <1>a
  <2>2. Sound(todo', {}) /\ Matched(todo', Removing(mod, children))
    BY <1>a, <2>1, <2>a, PlatformFunctions DEF Removing
  <2>3. Sound(todo', held')
    BY <2>2, SoundMore
  <2>4. Promised(Removing(mod, children), held', todo')
    BY <2>2 DEF Promised, Matched
  <2> QED
    BY <1>0, <1>b, <2>1, <2>3, <2>4 DEF StrayPhase
<1>11. CASE Unload
  <2>1. /\ phase = "live" /\ phase' = "exit" /\ held' = held /\ unowned' = unowned
        /\ todo' = (IF bound THEN Removing(mod, children) ELSE <<>>) \o ExitFun[mod]
    BY <1>11 DEF Unload, Removal, Removing
  <2>2. ExitFun[mod] \in Seq(CallSet) /\ Ordered(ExitFun[mod]) /\ Covered(ExitFun[mod], held)
    BY <1>0, <1>a, <1>b, <2>1, InitFunctions DEF StrayPhase, Matched, Described
  <2>3. CASE bound
    <3>1. mod \in Platforms
      BY <2>3 DEF Base, TypeOK
    <3>2. /\ Removing(mod, children) \in Seq(CallSet) /\ Ordered(Removing(mod, children))
          /\ \A j \in 1..Len(Removing(mod, children)) : RemoveCall(Removing(mod, children)[j])
      BY <1>0, <1>a, <3>1, PlatformFunctions DEF Removing, Matched
    <3>3. \A j \in 1..Len(Removing(mod, children)) : \A r \in {Driver} : ~Returns(Removing(mod, children)[j], r)
      BY <3>2 DEF RemoveCall, Returns, Driver, Kind
    <3>4. Sound(Removing(mod, children), held)
      BY <1>b, <2>1, <2>3, <3>2, SoundCovered DEF StrayPhase
    <3>5. Covered(ExitFun[mod], {Driver})
      BY <1>a, <3>1, InitFunctions DEF Described
    <3>6. Sound(Removing(mod, children) \o ExitFun[mod], held)
      BY <2>2, <3>2, <3>3, <3>4, <3>5, SoundCat
    <3> QED
      BY <1>b, <2>1, <2>3, <3>6 DEF StrayPhase
  <2>4. CASE ~bound
    <3>1. todo' = ExitFun[mod]
      BY <2>1, <2>2, <2>4
    <3> QED
      BY <1>b, <2>1, <2>2, <3>1, SoundCovered DEF StrayPhase
  <2> QED
    BY <2>3, <2>4
<1>12. CASE ExitDone
  BY <1>b, <1>12 DEF ExitDone, StrayPhase
<1>13. CASE \E door \in held : Open(door)
  BY <1>b, <1>13 DEF Open, StrayPhase, StrayInit
<1>14. CASE \E door \in files : Close(door)
  BY <1>b, <1>14 DEF Close, StrayPhase, StrayInit
<1>15. CASE UNCHANGED vars
  BY <1>b, <1>15 DEF vars, StrayPhase, StrayInit
<1> QED
  BY <1>1, <1>2, <1>3, <1>4, <1>5, <1>6, <1>7, <1>8, <1>9, <1>10, <1>11, <1>12, <1>13, <1>14, <1>15, StepCases

\* What StrayCallsExplained says: no bad pointer is followed and nothing is given
\* back that is not held, but by the modules and after the failures it names.
THEOREM StraysExplained == Spec => []StrayCallsExplained
<1>1. Init => Base /\ Loading /\ Stray
  BY BaseHolds, LoadingHolds, StrayHolds
<1>2. Base /\ Loading /\ Stray /\ [Next]_vars => (Base /\ Loading /\ Stray)'
  BY BaseKept, LoadingKept, StrayKept
<1>3. Base /\ Loading /\ Stray => StrayCallsExplained
  BY DEF Stray, StrayPhase, StrayExcuse, StrayCallsExplained
<1> QED
  BY <1>1, <1>2, <1>3, PTL DEF Spec

-----------------------------------------------------------------------------
(* Init functions that fail *)

\* Once something is there that the kernel would call, init can only succeed.
Quiet ==
  mod \notin LeaveCallbacks =>
    /\ phase = "init" /\ InitFun[mod].reports =>
         /\ Inert(todo)
         /\ (\E r \in held : Kind(r) \in Callbacks) =>
              status = 0 /\ \A j \in 1..Len(todo) : todo[j].rule \in {"untested", "unchecked"}
    /\ phase = "failed" => \A r \in held : Kind(r) \notin Callbacks

LEMMA QuietHolds == Init => Quiet
<1> SUFFICES ASSUME Init, mod \notin LeaveCallbacks, InitFun[mod].reports PROVE Inert(todo) /\ held = {}
  BY DEF Init, Quiet
<1> QED
  BY InitFunctions DEF Init, Described

LEMMA QuietKept == Base /\ Quiet /\ [Next]_vars => Quiet'
<1> SUFFICES ASSUME Base, Quiet, [Next]_vars PROVE Quiet'
  OBVIOUS
<1>0. mod' = mod /\ todo \in Seq(CallSet)
  BY Lasts DEF Base
<1>a. CASE CallStep /\ mod \notin LeaveCallbacks /\ phase = "init" /\ phase' = "init" /\ InitFun[mod].reports
  <2>1. /\ Inert(todo)
        /\ (\E r \in held : Kind(r) \in Callbacks) =>
             status = 0 /\ \A j \in 1..Len(todo) : todo[j].rule \in {"untested", "unchecked"}
    BY <1>a DEF Quiet
  <2>2. todo # <<>>
    BY <1>a DEF CallStep, Skip, Succeed, Fail, GiveBack, Oops, Due
  <2>3. todo' = Tail(todo) /\ held' \subseteq held \union {todo[1].res}
    <3>1. Skip \/ Succeed \/ GiveBack => todo' = Tail(todo) /\ held' \subseteq held \union {todo[1].res}
      BY <2>2, CallFacts DEF Skip, Succeed, GiveBack
    <3>2. Fail => todo' = Tail(todo) /\ held' = held
      BY <1>a, <2>2, CallFacts DEF Fail, Fits, InitCall
    <3>3. ~Oops
      BY <1>a DEF Oops
    <3> QED
      BY <1>a, <3>1, <3>2, <3>3 DEF CallStep
  <2>4. Inert(todo')
    BY <1>0, <2>1, <2>2, <2>3, InertTail
  <2>5. ASSUME NEW r \in held', Kind(r) \in Callbacks
        PROVE  status' = 0 /\ \A j \in 1..Len(todo') : todo'[j].rule \in {"untested", "unchecked"}
    <3>1. CASE r \in held
      <4>1. status = 0 /\ todo[1].rule \in {"untested", "unchecked"}
        BY <2>1, <2>2, <2>5, <3>1, CallFacts
      <4>2. status' = 0
        BY <1>a, <2>2, <4>1, CallFacts DEF CallStep, Skip, Succeed, Fail, GiveBack, Oops
      <4> QED
        BY <2>1, <2>2, <2>3, <2>5, <3>1, <4>2, CallFacts
    <3>2. CASE r \notin held
      <4>1. Succeed /\ r = todo[1].res /\ Due
        <5>1. Skip \/ Fail \/ GiveBack \/ Oops => held' \subseteq held
          BY DEF Skip, Fail, GiveBack, Oops
        <5> QED
          BY <1>a, <2>3, <2>5, <3>2, <5>1 DEF CallStep, Succeed
      <4>2. /\ todo[1].rule \in {"chained", "latest"}
            /\ \A j \in 1..Len(todo') : todo'[j].rule \in {"untested", "unchecked"}
        BY <1>0, <2>1, <2>2, <2>3, <2>5, <4>1, InertTail
      <4>3. status' = 0
        BY <2>2, <4>1, <4>2, CallFacts DEF Succeed, Due, Guarded
      <4> QED
        BY <4>2, <4>3
    <3> QED
      BY <3>1, <3>2
  <2> QED
    BY <1>0, <1>a, <2>4, <2>5 DEF Quiet
<1>b. CASE CallStep /\ ~(mod \notin LeaveCallbacks /\ phase = "init" /\ phase' = "init" /\ InitFun[mod].reports)
  <2>1. todo # <<>>
    BY <1>b DEF CallStep, Skip, Succeed, Fail, GiveBack, Oops, Due
  <2>2. phase' = phase \/ phase' = "oops"
    BY <1>b DEF CallStep, Skip, Succeed, Fail, GiveBack, Oops
  <2>3. phase' # "failed"
    BY <2>1, <2>2, CallFacts DEF Calling
  <2> QED
    BY <1>0, <1>b, <2>2, <2>3 DEF Quiet
<1>1. CASE InitDone
  BY <1>1 DEF InitDone, Quiet
<1>2. CASE ProbeDone \/ Unbind \/ UnbindDone \/ Bind \/ Unload \/ ExitDone
  <2>1. phase' \notin {"init", "failed"}
    BY <1>2 DEF ProbeDone, Unbind, UnbindDone, Bind, Unload, ExitDone
  <2> QED
    BY <2>1 DEF Quiet
<1>3. CASE \E door \in held : Open(door)
  BY <1>3 DEF Open, Quiet
<1>4. CASE \E door \in files : Close(door)
  BY <1>4 DEF Close, Quiet
<1>5. CASE UNCHANGED vars
  BY <1>5 DEF vars, Quiet
<1> QED
  BY <1>a, <1>b, <1>1, <1>2, <1>3, <1>4, <1>5 DEF Next

\* What FailedInitIsInert says: when init returns an error nothing is left behind
\* through which the kernel would call the freed module, but in five modules.
THEOREM FailsInertly == Spec => []FailedInitIsInert
<1>1. Init => Base /\ Quiet
  BY BaseHolds, QuietHolds
<1>2. Base /\ Quiet /\ [Next]_vars => (Base /\ Quiet)'
  BY BaseKept, QuietKept
<1>3. Base /\ Quiet => FailedInitIsInert
  BY DEF Quiet, FailedInitIsInert
<1> QED
  BY <1>1, <1>2, <1>3, PTL DEF Spec

-----------------------------------------------------------------------------
(* Open files *)

NoDoors(H) == \A r \in H : ~IsDoor(r)

LEMMA DoorlessTail ==
  ASSUME NEW s \in Seq(CallSet), s # <<>>, NEW H
  PROVE  /\ Doorless(s) => Doorless(Tail(s)) /\ ~IsDoor(s[1].res)
         /\ Covered(s, H) => Covered(Tail(s), H) /\ Demands(s[1]) \subseteq H
<1>1. /\ 1 \in 1..Len(s)
      /\ \A j \in 1..Len(Tail(s)) : Tail(s)[j] = s[j + 1] /\ j + 1 \in 1..Len(s)
  BY TailFacts
<1> QED
  BY <1>1 DEF Doorless, Covered

\* No file is open once the module goes, nor in a module whose init registers no
\* device but may fail.
Shut ==
  /\ phase \in {"exit", "gone"} => files = {}
  /\ phase = "failed" => failed /\ InitFun[mod].reports
  /\ phase = "unbind" => unbinds > 0
  /\ InitFun[mod].reports /\ mod \notin {"drv03", "drv07", "sample06_2"} =>
       /\ phase = "init" => Doorless(todo) /\ NoDoors(held)
       /\ phase \in {"init", "failed"} => files = {}

\* The buffers of exercice03, when nothing fails.
Buffered ==
  mod = "drv03" /\ ~failed =>
    /\ phase = "init" => \A r \in {Buffers, Buffer(1)} : r \in held \/ Asks(todo, r)
    /\ phase = "live" => {Buffers, Buffer(1)} \subseteq held
    /\ phase = "oops" => files = {}

\* The data behind a misc device: a probe asks for them first, and they stay
\* until the driver is unbound.
Behind(H) == \A d \in H : IsDoor(d) => Kind(d) = "misc" /\ Devm(d[2]) \in H
Misced == mod \in {"drv06", "drv06_1", "sample06_3"} /\ (failed => mod = "drv06") /\ unbinds = 0
BackedPhase ==
  /\ phase \in {"init", "probe", "live"} => files \subseteq held /\ Behind(held)
  /\ phase = "init" => Doorless(todo) /\ Covered(todo, {})
  /\ phase = "probe" /\ status = 0 =>
       /\ Founded(todo, held)
       /\ mod = "drv06" => /\ Covered(todo, {}) /\ Backed(todo)
                           /\ \A j \in 1..Len(todo) : todo[j].rule = "required" /\ NoDoors(held)
  /\ phase = "init" \/ (phase = "probe" /\ status # 0) \/ (phase = "live" /\ ~bound) => NoDoors(held)
  /\ phase = "oops" => files = {}

LEMMA ShutHolds == Init => Shut
BY InitFunctions DEF Init, Shut, NoDoors, Described

LEMMA ShutKept == Base /\ Shut /\ [Next]_vars => Shut'
<1> SUFFICES ASSUME Base, Shut, [Next]_vars PROVE Shut'
  OBVIOUS
<1>0. mod' = mod /\ todo \in Seq(CallSet) /\ unbinds \in Nat
  BY Lasts, ModuleLifeAssumption DEF Base, TypeOK
<1>1. CASE CallStep
  <2>1. /\ todo # <<>> /\ files' = files /\ unbinds' = unbinds /\ (phase' = phase \/ phase' = "oops")
    BY <1>1 DEF CallStep, Skip, Succeed, Fail, GiveBack, Oops, Due
  <2>2. phase \in Calling
    BY <2>1, CallFacts
  <2>3. phase' = "init" => todo' = Tail(todo) /\ held' \subseteq held \union {todo[1].res}
    <3>1. Skip \/ Succeed \/ GiveBack => todo' = Tail(todo) /\ held' \subseteq held \union {todo[1].res}
      BY <2>1, CallFacts DEF Skip, Succeed, GiveBack
    <3>2. Fail /\ phase = "init" => todo' = Tail(todo) /\ held' = held
      BY <2>1, CallFacts DEF Fail, Fits, InitCall
    <3>3. Oops => phase' = "oops"
      BY DEF Oops
    <3> QED
      BY <1>1, <2>1, <3>1, <3>2, <3>3 DEF CallStep
  <2>4. InitFun[mod].reports /\ mod \notin {"drv03", "drv07", "sample06_2"} /\ phase' = "init" =>
          Doorless(todo') /\ NoDoors(held')
    BY <1>0, <2>1, <2>3, DoorlessTail DEF Shut, NoDoors
  <2> QED
    BY <1>0, <2>1, <2>2, <2>4 DEF Shut, Calling
<1>2. CASE InitDone
  BY <1>0, <1>2 DEF InitDone, Shut, Base
<1>3. CASE ProbeDone
  BY <1>0, <1>3 DEF ProbeDone, Shut
<1>4. CASE Unbind
  BY <1>0, <1>4 DEF Unbind, Shut
<1>5. CASE UnbindDone
  BY <1>0, <1>5 DEF UnbindDone, Shut
<1>6. CASE Bind
  BY <1>0, <1>6 DEF Bind, Shut
<1>7. CASE Unload
  BY <1>0, <1>7 DEF Unload, Shut
<1>8. CASE ExitDone
  BY <1>0, <1>8 DEF ExitDone, Shut
<1>9. CASE \E door \in held : Open(door)
  BY <1>0, <1>9 DEF Open, Shut, NoDoors
<1>10. CASE \E door \in files : Close(door)
  BY <1>0, <1>10 DEF Close, Shut
<1>11. CASE UNCHANGED vars
  BY <1>11 DEF vars, Shut
<1> QED
  BY <1>1, <1>2, <1>3, <1>4, <1>5, <1>6, <1>7, <1>8, <1>9, <1>10, <1>11 DEF Next

LEMMA BufferedHolds == Init => Buffered
BY InitFunctions DEF Init, Buffered, Described

LEMMA BufferedKept == Base /\ Loading /\ Shut /\ Buffered /\ [Next]_vars => Buffered'
<1> SUFFICES ASSUME Base, Loading, Shut, Buffered, [Next]_vars, mod = "drv03", ~failed' PROVE Buffered'
  BY Lasts DEF Buffered
<1>0. /\ mod' = mod /\ todo \in Seq(CallSet) /\ ~failed /\ status = 0
      /\ phase \notin {"probe", "unbind"} /\ mod \notin Platforms
  BY Lasts DEF Base, Platforms
<1>1. CASE CallStep
  <2>1. todo # <<>> /\ files' = files /\ (phase' = phase \/ phase' = "oops")
    BY <1>1 DEF CallStep, Skip, Succeed, Fail, GiveBack, Oops, Due
  <2>2. phase \in {"init", "exit"}
    BY <1>0, <2>1, CallFacts DEF Calling
  <2>3. ~Fail
    BY DEF Fail
  <2>4. ~Skip
    BY <1>0, <2>1 DEF Skip, Due
  <2>5. CASE Succeed /\ phase = "init"
    <3>1. todo' = Tail(todo) /\ held' = held \union {todo[1].res} /\ phase' = phase
      BY <2>1, <2>5, CallFacts DEF Succeed
    <3>2. \A r \in {Buffers, Buffer(1)} : r \in held \/ Asks(todo, r)
      BY <1>0, <2>5 DEF Buffered
    <3>3. \A r \in {Buffers, Buffer(1)} : r \in held' \/ Asks(todo', r)
      BY <1>0, <2>1, <3>1, <3>2, AsksTail
    <3> QED
      BY <2>5, <3>1, <3>3 DEF Buffered
  <2>6. CASE GiveBack /\ phase = "init"
    <3>1. mod = "mod05"
      BY <2>1, <2>6, CallFacts DEF GiveBack, Fits, InitCall
    <3> QED
      BY <3>1
  <2>7. CASE Oops /\ phase = "init"
    <3>1. Sound(todo, held) /\ todo[1].on # Nothing /\ todo[1].on \notin held
      BY <1>0, <2>1, <2>7, CallFacts DEF Oops, Good, Loading
    <3> QED
      BY <1>0, <2>1, <3>1, SoundHead
  <2>8. CASE phase = "exit"
    BY <2>1, <2>8 DEF Shut, Buffered
  <2> QED
    BY <1>1, <2>2, <2>3, <2>4, <2>5, <2>6, <2>7, <2>8 DEF CallStep
<1>2. CASE InitDone
  <2>1. todo = <<>> /\ held' = held /\ phase' \in {"failed", "live"} /\ phase = "init"
    BY <1>0, <1>2 DEF InitDone, Base
  <2>2. \A r : ~Asks(todo, r)
    BY <2>1, NoCalls DEF Asks
  <2> QED
    BY <1>0, <2>1, <2>2 DEF Buffered
<1>3. CASE ProbeDone \/ Unbind \/ UnbindDone \/ Bind
  BY <1>0, <1>3 DEF ProbeDone, Unbind, UnbindDone, Bind, Base, TypeOK
<1>4. CASE Unload
  BY <1>4 DEF Unload, Buffered
<1>5. CASE ExitDone
  BY <1>5 DEF ExitDone, Buffered
<1>6. CASE \E door \in held : Open(door)
  BY <1>0, <1>6 DEF Open, Buffered
<1>7. CASE \E door \in files : Close(door)
  BY <1>0, <1>7 DEF Close, Buffered
<1>8. CASE UNCHANGED vars
  BY <1>8 DEF vars, Buffered
<1> QED
  BY <1>1, <1>2, <1>3, <1>4, <1>5, <1>6, <1>7, <1>8 DEF Next

MiscServed == Misced => BackedPhase

LEMMA MiscHolds == Init => MiscServed
<1> SUFFICES ASSUME Init, Misced PROVE BackedPhase
  BY DEF MiscServed
<1>1. mod \in Platforms /\ mod \in Modules /\ todo = InitFun[mod].calls /\ held = {} /\ files = {} /\ phase = "init"
  BY DEF Init, Misced, Platforms
<1>2. Doorless(todo) /\ Covered(todo, {})
  BY <1>1, InitFunctions DEF Described
<1> QED
  BY <1>1, <1>2 DEF BackedPhase, NoDoors, Behind

LEMMA MiscKept == Base /\ Loading /\ Shut /\ MiscServed /\ [Next]_vars => MiscServed'
<1> SUFFICES ASSUME Base, Loading, Shut, MiscServed, [Next]_vars, Misced' PROVE BackedPhase'
  BY DEF MiscServed
<1>a. /\ mod' = mod /\ children' = children /\ todo \in Seq(CallSet) /\ mod \in Modules /\ children \in Nat
      /\ unbinds \in Nat /\ mod \in {"drv06", "drv06_1", "sample06_3"} /\ mod \in Platforms /\ mod # "mod05"
  BY Lasts, ModuleLifeAssumption DEF Base, TypeOK, Misced, Platforms
<1>b. unbinds' = unbinds
  <2>1. CallStep \/ InitDone \/ ProbeDone \/ UnbindDone \/ Bind \/ Unload \/ ExitDone => unbinds' = unbinds
    BY DEF CallStep, Skip, Succeed, Fail, GiveBack, Oops, InitDone, ProbeDone, UnbindDone, Bind, Unload, ExitDone
  <2>2. (\E door \in held : Open(door)) \/ (\E door \in files : Close(door)) \/ UNCHANGED vars => unbinds' = unbinds
    BY DEF Open, Close, vars
  <2>3. ~Unbind
    BY <1>a DEF Unbind, Misced
  <2> QED
    BY <2>1, <2>2, <2>3 DEF Next
<1>c. Misced /\ BackedPhase /\ unbinds = 0 /\ (failed' => mod = "drv06") /\ ~InitFun[mod].reports
  <2>1. Misced /\ unbinds = 0 /\ (failed' => mod = "drv06")
    BY <1>a, <1>b, Lasts DEF Misced
  <2> QED
    BY <1>a, <2>1, InitFunctions DEF MiscServed, Described
<1>d. phase # "unbind" /\ phase # "failed"
  BY <1>c DEF Shut
<1>1. CASE Skip
  <2>1. /\ todo # <<>> /\ todo' = Tail(todo) /\ held' = held /\ phase' = phase /\ status' = status
        /\ files' = files /\ Guarded(todo[1]) /\ status # 0
    BY <1>1, CallFacts DEF Skip, Due
  <2>2. phase = "init"
    BY <2>1, CallFacts, ReleaseFacts DEF Fits, RemoveCall, ExitCall, Guarded, Calling
  <2> QED
    BY <1>a, <1>c, <2>1, <2>2, DoorlessTail DEF BackedPhase
<1>2. CASE Succeed
  <2>1. /\ todo # <<>> /\ todo' = Tail(todo) /\ held' = held \union {todo[1].res} /\ phase' = phase
        /\ todo[1].op = "get" /\ (status' = status \/ status' = 0) /\ files' = files /\ bound' = bound
    BY <1>2, CallFacts DEF Succeed, Due
  <2>2. CASE phase = "init"
    <3>1. Doorless(todo') /\ Covered(todo', {}) /\ ~IsDoor(todo[1].res)
      BY <1>a, <1>c, <2>1, <2>2, DoorlessTail DEF BackedPhase
    <3> QED
      BY <1>c, <2>1, <2>2, <3>1 DEF BackedPhase, NoDoors, Behind
  <2>3. CASE phase = "probe"
    <3>1. status = 0 /\ status' = 0 /\ ProbeCall(todo[1])
      BY <2>1, <2>3, CallFacts, ReleaseFacts DEF Fits
    <3>2. Founded(todo, held) /\ files \subseteq held /\ Behind(held)
      BY <1>c, <2>3, <3>1 DEF BackedPhase
    <3>3. Founded(Tail(todo), held')
      BY <1>a, <2>1, <3>2, FoundedTail
    <3>4. IsDoor(todo[1].res) => Kind(todo[1].res) = "misc" /\ Devm(todo[1].res[2]) \in held
      BY <1>a, <2>1, <3>2, FoundedTail
    <3>5. Behind(held')
      BY <2>1, <3>2, <3>4 DEF Behind
    <3>6. ASSUME mod = "drv06"
          PROVE  /\ Covered(todo', {}) /\ Backed(todo')
                 /\ \A j \in 1..Len(todo') : todo'[j].rule = "required" /\ NoDoors(held')
      <4>1. /\ Covered(todo, {}) /\ Backed(todo)
            /\ \A j \in 1..Len(todo) : todo[j].rule = "required" /\ NoDoors(held)
        BY <1>c, <2>3, <3>1, <3>6 DEF BackedPhase
      <4>2. ASSUME NEW j \in 1..Len(todo') PROVE todo'[j].rule = "required" /\ NoDoors(held')
        <5>1. j + 1 \in 1..Len(todo) /\ todo'[j] = todo[j + 1] /\ 1 \in 1..((j + 1) - 1)
          BY <1>a, <2>1, CallFacts
        <5>2. Kind(todo[1].res) = "devm"
          BY <4>1, <4>2, <5>1 DEF Backed
        <5> QED
          BY <2>1, <4>1, <4>2, <5>1, <5>2 DEF NoDoors, IsDoor
      <4>3. Covered(todo', {}) /\ Backed(todo')
        BY <1>a, <2>1, <4>1, DoorlessTail, BackedTail
      <4> QED
        BY <4>2, <4>3
    <3> QED
      BY <1>a, <2>1, <2>3, <3>1, <3>2, <3>3, <3>5, <3>6 DEF BackedPhase
  <2>4. phase \in {"init", "probe"}
    BY <2>1, CallFacts DEF Fits, RemoveCall, ExitCall, Calling
  <2> QED
    BY <2>2, <2>3, <2>4
<1>3. CASE Fail
  <2>1. /\ todo # <<>> /\ held' = held /\ phase' = phase /\ todo[1].op = "get" /\ failed'
        /\ status' = IF todo[1].rule \in {"untested", "unchecked"} THEN status ELSE Error
        /\ todo' = IF todo[1].rule = "required" THEN <<ReleaseDevm>> ELSE Tail(todo)
        /\ files' = files
    BY <1>3, CallFacts DEF Fail, Due
  <2>2. mod = "drv06"
    BY <1>c, <2>1
  <2>3. CASE phase = "init"
    <3>1. todo' = Tail(todo)
      BY <2>1, <2>3, CallFacts DEF Fits, InitCall
    <3>2. Doorless(todo') /\ Covered(todo', {})
      BY <1>a, <1>c, <2>1, <2>3, <3>1, DoorlessTail DEF BackedPhase
    <3> QED
      BY <1>c, <2>1, <2>3, <3>2 DEF BackedPhase
  <2>4. CASE phase = "probe"
    <3>1. status = 0 /\ ProbeCall(todo[1])
      BY <2>1, <2>4, CallFacts, ReleaseFacts DEF Fits
    <3>2. /\ Founded(todo, held) /\ files \subseteq held /\ Behind(held)
          /\ Covered(todo, {}) /\ Backed(todo)
          /\ \A j \in 1..Len(todo) : todo[j].rule = "required" /\ NoDoors(held)
      BY <1>c, <2>2, <2>4, <3>1 DEF BackedPhase
    <3>3. CASE todo[1].rule = "required"
      <4>1. status' # 0 /\ NoDoors(held)
        BY <2>1, <3>2, <3>3, CallFacts DEF Error
      <4> QED
        BY <2>1, <2>4, <3>2, <4>1 DEF BackedPhase
    <3> QED
      BY <2>1, <3>2, <3>3, CallFacts
  <2>5. phase \in {"init", "probe"}
    BY <2>1, CallFacts DEF Fits, RemoveCall, ExitCall, Calling
  <2> QED
    BY <2>3, <2>4, <2>5
<1>4. CASE GiveBack
  <2>1. /\ todo # <<>> /\ todo' = Tail(todo) /\ todo[1].op \in {"put", "devm"} /\ held' \subseteq held
        /\ \A r \in held : r \in held' \/ Returns(todo[1], r)
        /\ phase' = phase /\ status' = status /\ files' = files
    BY <1>4, GiveBackFacts DEF GiveBack
  <2>2. (phase = "probe" /\ status # 0) \/ phase = "exit"
    BY <1>a, <1>d, <2>1, CallFacts DEF Fits, InitCall, ProbeCall, Calling
  <2>3. CASE phase = "probe" /\ status # 0
    <3>1. NoDoors(held) /\ files \subseteq held
      BY <1>c, <2>3 DEF BackedPhase
    <3>2. files = {}
      BY <3>1 DEF NoDoors, Base, TypeOK
    <3>3. NoDoors(held') /\ Behind(held')
      BY <2>1, <3>1 DEF NoDoors, Behind
    <3> QED
      BY <2>1, <2>3, <3>2, <3>3 DEF BackedPhase
  <2>4. CASE phase = "exit"
    BY <2>1, <2>4 DEF BackedPhase
  <2> QED
    BY <2>2, <2>3, <2>4
<1>5. CASE Oops
  <2>1. /\ todo # <<>> /\ todo[1].on # Nothing /\ todo[1].on \notin held /\ phase' = "oops" /\ files' = files
    BY <1>5, CallFacts DEF Oops, Due, Good
  <2>2. phase = "exit"
    <3>1. phase # "init"
      BY <1>a, <1>c, <2>1, DoorlessTail DEF BackedPhase, Demands
    <3>2. ~(phase = "probe" /\ status = 0 /\ mod = "drv06")
      <4> SUFFICES ASSUME phase = "probe", status = 0, mod = "drv06" PROVE FALSE
        OBVIOUS
      <4>1. Demands(todo[1]) \subseteq {}
        BY <1>a, <1>c, <2>1, DoorlessTail DEF BackedPhase
      <4> QED
        BY <2>1, <4>1 DEF Demands
    <3>3. ~(phase = "probe" /\ mod # "drv06")
      BY <1>a, <1>c, <2>1, SoundHead, Lasts DEF Loading
    <3>4. ~(phase = "probe" /\ status # 0)
      BY <2>1, CallFacts, ReleaseFacts DEF Fits
    <3> QED
      BY <1>d, <2>1, <3>1, <3>2, <3>3, <3>4, CallFacts DEF Calling
  <2> QED
    BY <2>1, <2>2 DEF Shut, BackedPhase
<1>6. CASE InitDone
  <2>1. /\ phase = "init" /\ held' = held /\ status' = 0 /\ bound' = bound /\ files' = files
        /\ phase' \in {"live", "probe"}
    BY <1>c, <1>6 DEF InitDone
  <2>2. files \subseteq held /\ Behind(held) /\ NoDoors(held)
    BY <1>c, <2>1 DEF BackedPhase
  <2>3. phase' = "probe" => todo' = ProbeFun(children)[mod]
    BY <1>6 DEF InitDone
  <2>4. phase' = "probe" => /\ Founded(todo', {})
                            /\ mod = "drv06" => /\ Covered(todo', {}) /\ Backed(todo')
                                                /\ \A j \in 1..Len(todo') : todo'[j].rule = "required"
    BY <1>a, <2>3, PlatformFunctions
  <2>5. phase' = "probe" => Founded(todo', held')
    BY <2>4 DEF Founded
  <2> QED
    BY <1>a, <2>1, <2>2, <2>4, <2>5 DEF BackedPhase
<1>7. CASE ProbeDone
  <2>1. phase = "probe" /\ held' = held /\ phase' = "live" /\ bound' = (status = 0) /\ files' = files
    BY <1>7 DEF ProbeDone
  <2> QED
    BY <1>c, <2>1 DEF BackedPhase
<1>8. CASE Bind
  <2>1. /\ phase = "live" /\ ~bound /\ phase' = "probe" /\ todo' = ProbeFun(children)[mod]
        /\ held' = held /\ status' = status /\ files' = files /\ status = 0
    BY <1>8 DEF Bind, Base
  <2>2. files \subseteq held /\ Behind(held) /\ NoDoors(held)
    BY <1>c, <2>1 DEF BackedPhase
  <2>3. /\ Founded(todo', {})
        /\ mod = "drv06" => /\ Covered(todo', {}) /\ Backed(todo')
                            /\ \A j \in 1..Len(todo') : todo'[j].rule = "required"
    BY <1>a, <2>1, PlatformFunctions
  <2>4. Founded(todo', held')
    BY <2>3 DEF Founded
  <2> QED
    BY <1>a, <2>1, <2>2, <2>3, <2>4 DEF BackedPhase
<1>9. CASE Unbind
  BY <1>a, <1>b, <1>9 DEF Unbind
<1>10. CASE UnbindDone
  BY <1>d, <1>10 DEF UnbindDone
<1>11. CASE Unload
  BY <1>11 DEF Unload, BackedPhase
<1>12. CASE ExitDone
  BY <1>12 DEF ExitDone, BackedPhase
<1>13. CASE \E door \in held : Open(door)
  <2>1. PICK door \in held : Open(door)
    BY <1>13
  <2>2. /\ files' = files \union {door} /\ door \in held
        /\ phase' = phase /\ todo' = todo /\ status' = status /\ held' = held /\ bound' = bound
        /\ phase \in {"init", "probe", "live", "unbind"}
    BY <2>1 DEF Open
  <2> QED
    BY <1>a, <1>c, <2>2 DEF BackedPhase
<1>14. CASE \E door \in files : Close(door)
  <2>1. PICK door \in files : Close(door)
    BY <1>14
  <2>2. /\ files' = files \ {door}
        /\ phase' = phase /\ todo' = todo /\ status' = status /\ held' = held /\ bound' = bound
    BY <2>1 DEF Close
  <2> QED
    BY <1>a, <1>c, <2>2 DEF BackedPhase
<1>15. CASE UNCHANGED vars
  BY <1>a, <1>c, <1>15 DEF vars, BackedPhase
<1> QED
  BY <1>1, <1>2, <1>3, <1>4, <1>5, <1>6, <1>7, <1>8, <1>9, <1>10, <1>11, <1>12, <1>13, <1>14, <1>15, StepCases

\* What OpenFilesServed says: whoever has a file open has the module behind it and
\* the memory its operations use, but in the cases it names.
THEOREM FilesServed == Spec => []OpenFilesServed
<1>1. Init => Base /\ Loading /\ Shut /\ Buffered /\ MiscServed
  BY BaseHolds, LoadingHolds, ShutHolds, BufferedHolds, MiscHolds
<1>2. Base /\ Loading /\ Shut /\ Buffered /\ MiscServed /\ [Next]_vars
        => (Base /\ Loading /\ Shut /\ Buffered /\ MiscServed)'
  BY BaseKept, LoadingKept, ShutKept, BufferedKept, MiscKept
<1>3. Base /\ Loading /\ Shut /\ Buffered /\ MiscServed => OpenFilesServed
  <2> SUFFICES ASSUME Base, Shut, Buffered, MiscServed, NEW d \in files
               PROVE  \/ phase \notin {"gone", "failed"} /\ DataOf(d) \subseteq held
                      \/ mod = "drv03" /\ (phase = "init" \/ failed)
                      \/ mod \in {"drv07", "sample06_2", "drv06_1", "sample06_3"} /\ failed
                      \/ mod \in {"drv06", "drv06_1", "sample06_3"} /\ unbinds > 0
    BY DEF OpenFilesServed
  <2>1. phase \notin {"exit", "gone"} /\ unbinds \in Nat /\ IsDoor(d)
    BY ModuleLifeAssumption DEF Shut, Base, TypeOK
  <2>2. CASE phase = "failed"
    BY <2>2 DEF Shut
  <2>3. CASE phase # "failed" /\ mod = "drv03"
    <3>1. DataOf(d) = {Buffers, Buffer(1)}
      BY <2>3 DEF DataOf
    <3>2. phase \notin {"probe", "unbind"}
      BY <2>3 DEF Base, Platforms
    <3> QED
      BY <2>1, <2>3, <3>1, <3>2 DEF Buffered, Base, TypeOK, Phases
  <2>4. CASE phase # "failed" /\ mod \in {"drv06", "drv06_1", "sample06_3"}
    <3>1. DataOf(d) = {Devm(d[2])}
      BY <2>4 DEF DataOf
    <3>2. SUFFICES ASSUME unbinds = 0, failed => mod = "drv06" PROVE Devm(d[2]) \in held
      BY <2>1, <2>4, <3>1
    <3>3. BackedPhase /\ phase # "unbind"
      BY <2>4, <3>2 DEF MiscServed, Misced, Shut
    <3> QED
      BY <2>1, <2>4, <3>3 DEF BackedPhase, Behind, Base, TypeOK, Phases
  <2>5. CASE phase # "failed" /\ mod \notin {"drv03", "drv06", "drv06_1", "sample06_3"}
    BY <2>1, <2>5 DEF DataOf
  <2> QED
    BY <2>2, <2>3, <2>4, <2>5
<1> QED
  BY <1>1, <1>2, <1>3, PTL DEF Spec
=============================================================================
