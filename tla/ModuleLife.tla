----------------------------- MODULE ModuleLife -----------------------------
(***************************************************************************)
(* The life of one kernel module of KernelModules: insmod runs its init,   *)
(* the driver core its probe and remove, rmmod its exit, while files are   *)
(* opened and closed on what is registered so far and any call may fail.   *)
(***************************************************************************)
EXTENDS KernelModules

CONSTANTS
  MaxChildren,  \* children of the device-tree node
  MaxUnbinds    \* bound: unbindings through sysfs

ASSUME ModuleLifeAssumption == MaxChildren \in Nat /\ MaxUnbinds \in Nat

VARIABLES
  mod,       \* the module, chosen at the start
  children,  \* children of its device-tree node, chosen at the start
  phase,     \* which of its functions runs, or what became of it
  todo,      \* the calls that function has yet to make
  status,    \* its status variable: 0 or Error
  held,      \* the resources the module has from the kernel
  bound,     \* is the driver bound to its device?
  files,     \* the doors (devices) somebody has open
  failed,    \* has any call failed?
  unbinds,   \* unbindings so far
  unowned    \* resources given back though they were not held

vars == <<mod, children, phase, todo, status, held, bound, files, failed, unbinds, unowned>>

-----------------------------------------------------------------------------
(* The functions of each module *)

InitFun ==
  [mod01 |-> Mod01Init, mod04 |-> Mod04Init, mod05 |-> Mod05Init, mod06 |-> Mod06Init,
   mod07 |-> Mod07Init, mod08 |-> Mod08Init, drv02 |-> Drv02Init, drv03 |-> Drv03Init,
   drv05 |-> Drv05Init, drv05_1 |-> Drv05_1Init, drv06 |-> Drv06Init,
   drv06_1 |-> Drv06_1Init, drv07 |-> Drv07Init, drv08 |-> Drv08Init, drv09 |-> Drv09Init,
   drv10 |-> Drv10Init, sample05 |-> Sample05Init, sample05_1 |-> Sample05_1Init,
   sample06_2 |-> Sample06_2Init, sample06_3 |-> Sample06_3Init, dts |-> DtsInit]

ExitFun ==
  [mod01 |-> Mod01Exit, mod04 |-> Mod04Exit, mod05 |-> Mod05Exit, mod06 |-> Mod06Exit,
   mod07 |-> Mod07Exit, mod08 |-> Mod08Exit, drv02 |-> Drv02Exit, drv03 |-> Drv03Exit,
   drv05 |-> Drv05Exit, drv05_1 |-> Drv05_1Exit, drv06 |-> Drv06Exit,
   drv06_1 |-> Drv06_1Exit, drv07 |-> Drv07Exit, drv08 |-> Drv08Exit, drv09 |-> Drv09Exit,
   drv10 |-> Drv10Exit, sample05 |-> Sample05Exit, sample05_1 |-> Sample05_1Exit,
   sample06_2 |-> Sample06_2Exit, sample06_3 |-> Sample06_3Exit, dts |-> DtsExit]

Modules == DOMAIN InitFun

\* Any error number.
Error == 1

\* The platform drivers.
ProbeFun(n) ==
  [drv06 |-> Drv06Probe, drv06_1 |-> Drv06_1Probe(n),
   sample06_3 |-> Sample06_3Probe(n), dts |-> DtsProbe]

RemoveFun(n) ==
  [drv06 |-> Drv06Remove, drv06_1 |-> Drv06_1Remove(n),
   sample06_3 |-> Sample06_3Remove(n), dts |-> DtsRemove]

\* remove, and what the driver core does after it
Removal == RemoveFun(children)[mod] \o <<ReleaseDevm>>

-----------------------------------------------------------------------------
(* What the kernel makes of a call *)

Kind(r) == r[1]

\* Through these a file can be opened.
IsDoor(r) == Kind(r) \in {"cdev", "misc"}

\* The allocations an open file works on; the other drivers have static ones.
DataOf(door) ==
  CASE mod = "drv03" -> {Buffers, Buffer(1)}
    [] mod \in {"drv06", "drv06_1", "sample06_3"} -> {Devm(door[2])}
    [] OTHER -> {}

Good(r) == r = Nothing \/ r \in held

\* device_create tests the class it is given; other pointers are followed.
Refused(c) == c.op = "get" /\ Kind(c.res) = "device"

Guarded(c) == c.rule \in {"chained", "untested"}

Due == todo # <<>> /\ (Guarded(Head(todo)) => status = 0)

Init ==
  /\ mod \in Modules
  /\ children \in 0..MaxChildren
  /\ phase = "init" /\ todo = InitFun[mod].calls /\ status = 0
  /\ held = {} /\ bound = FALSE /\ files = {}
  /\ failed = FALSE /\ unbinds = 0 /\ unowned = {}

Skip ==
  /\ todo # <<>> /\ ~Due
  /\ todo' = Tail(todo)
  /\ UNCHANGED <<mod, children, phase, status, held, bound, files, failed, unbinds, unowned>>

\* A resource that is there already is not given a second time.
Succeed ==
  /\ Due
  /\ LET c == Head(todo)
     IN  /\ c.op = "get" /\ Good(c.on) /\ c.res \notin held
         /\ held' = held \union {c.res}
         /\ status' = IF c.rule = "latest" THEN 0 ELSE status
  /\ todo' = Tail(todo)
  /\ UNCHANGED <<mod, children, phase, bound, files, failed, unbinds, unowned>>

\* A required call ends its function, which is a probe: the driver core
\* releases what it got with devm_.
Fail ==
  /\ Due
  /\ LET c == Head(todo)
     IN  /\ c.op = "get" /\ (Good(c.on) \/ Refused(c))
         /\ status' = IF c.rule \in {"untested", "unchecked"} THEN status ELSE Error
         /\ todo' = IF c.rule = "required" THEN <<ReleaseDevm>> ELSE Tail(todo)
  /\ failed' = TRUE
  /\ UNCHANGED <<mod, children, phase, held, bound, files, unbinds, unowned>>

GiveBack ==
  /\ Due
  /\ LET c == Head(todo)
     IN  \/ /\ c.op = "put" /\ Good(c.on)
            /\ held' = held \ {c.res}
            /\ unowned' = IF c.res \in held \/ c.rule = "held" THEN unowned
                          ELSE unowned \union {c.res}
         \/ /\ c.op = "devm"
            /\ held' = {r \in held : Kind(r) # "devm"}
            /\ UNCHANGED unowned
  /\ todo' = Tail(todo)
  /\ UNCHANGED <<mod, children, phase, status, bound, files, failed, unbinds>>

\* A bad pointer is followed: the thread dies in the kernel and the module stays.
Oops ==
  /\ Due
  /\ ~Good(Head(todo).on) /\ ~Refused(Head(todo))
  /\ phase' = "oops"
  /\ todo' = <<>>
  /\ UNCHANGED <<mod, children, status, held, bound, files, failed, unbinds, unowned>>

CallStep == Skip \/ Succeed \/ Fail \/ GiveBack \/ Oops

-----------------------------------------------------------------------------
(* insmod, rmmod and the driver core *)

\* platform_driver_register probes the device that is there, before it returns.
InitDone ==
  /\ phase = "init" /\ todo = <<>>
  /\ \/ /\ InitFun[mod].reports /\ status # 0
        /\ phase' = "failed" /\ UNCHANGED todo
     \/ /\ ~(InitFun[mod].reports /\ status # 0)
        /\ IF Driver \in held
             THEN phase' = "probe" /\ todo' = ProbeFun(children)[mod]
             ELSE phase' = "live" /\ UNCHANGED todo
  /\ status' = 0
  /\ UNCHANGED <<mod, children, held, bound, files, failed, unbinds, unowned>>

ProbeDone ==
  /\ phase = "probe" /\ todo = <<>>
  /\ phase' = "live" /\ bound' = (status = 0) /\ status' = 0
  /\ UNCHANGED <<mod, children, todo, held, files, failed, unbinds, unowned>>

\* echo <device> > /sys/bus/platform/drivers/mydriver/unbind, and bind
Unbind ==
  /\ phase = "live" /\ bound /\ unbinds < MaxUnbinds
  /\ phase' = "unbind" /\ todo' = Removal /\ bound' = FALSE
  /\ unbinds' = unbinds + 1
  /\ UNCHANGED <<mod, children, status, held, files, failed, unowned>>

UnbindDone ==
  /\ phase = "unbind" /\ todo = <<>>
  /\ phase' = "live"
  /\ UNCHANGED <<mod, children, todo, status, held, bound, files, failed, unbinds, unowned>>

Bind ==
  /\ phase = "live" /\ Driver \in held /\ ~bound
  /\ phase' = "probe" /\ todo' = ProbeFun(children)[mod]
  /\ UNCHANGED <<mod, children, status, held, bound, files, failed, unbinds, unowned>>

\* An open file keeps its module (THIS_MODULE owns every fops);
\* platform_driver_unregister removes the bound device first.
Unload ==
  /\ phase = "live" /\ files = {}
  /\ phase' = "exit"
  /\ todo' = (IF bound THEN Removal ELSE <<>>) \o ExitFun[mod]
  /\ bound' = FALSE
  /\ UNCHANGED <<mod, children, status, held, files, failed, unbinds, unowned>>

ExitDone ==
  /\ phase = "exit" /\ todo = <<>>
  /\ phase' = "gone"
  /\ UNCHANGED <<mod, children, todo, status, held, bound, files, failed, unbinds, unowned>>

\* A file can be opened as soon as its device is registered, init or not.
Open(door) ==
  /\ door \in held \ files /\ IsDoor(door)
  /\ phase \in {"init", "probe", "live", "unbind"}
  /\ files' = files \union {door}
  /\ UNCHANGED <<mod, children, phase, todo, status, held, bound, failed, unbinds, unowned>>

Close(door) ==
  /\ files' = files \ {door}
  /\ UNCHANGED <<mod, children, phase, todo, status, held, bound, failed, unbinds, unowned>>

Next ==
  \/ CallStep
  \/ InitDone \/ ProbeDone \/ Unbind \/ UnbindDone \/ Bind \/ Unload \/ ExitDone
  \/ \E door \in held : Open(door)
  \/ \E door \in files : Close(door)

Spec == Init /\ [][Next]_vars

-----------------------------------------------------------------------------
(* Properties *)

Phases == {"init", "probe", "live", "unbind", "exit", "gone", "failed", "oops"}

\* Type invariant; a bound driver is registered.
TypeOK ==
  /\ mod \in Modules /\ children \in 0..MaxChildren
  /\ phase \in Phases
  /\ status \in {0, Error} /\ unbinds \in 0..MaxUnbinds
  /\ bound \in BOOLEAN /\ failed \in BOOLEAN
  /\ bound => Driver \in held
  /\ \A d \in files : IsDoor(d)

\* "Linux module skeleton unloaded" (03_drivers/exercice05.1/skeleton.c:241,
\* sample06.3/skeleton.c:292): when no call failed, nothing of an unloaded
\* module is left with the kernel.
UnloadedMeansGone == phase = "gone" /\ ~failed => held = {}

\* rmmod gives back everything, even after a load in which any call failed and
\* after the driver was unbound and bound again.  The exceptions: exercice05.1
\* destroys a device by the wrong number, the remove of sample06.3 knows the
\* last child only, and in exercice06.1 a probe that fails half-way leaves the
\* first child registered.
UnloadComplete ==
  phase = "gone" => \/ held = {}
                    \/ mod = "drv05_1"
                    \/ mod = "sample06_3" /\ (failed \/ children > 1)
                    \/ mod = "drv06_1" /\ failed

\* When init returns an error the kernel frees the module, although most inits
\* undo nothing.  What stays behind is nothing through which the kernel would
\* call the freed code, except in the modules of LeaveCallbacks.
Callbacks == {"cdev", "misc", "irq", "file", "proc", "thread", "driver", "pdev"}
LeaveCallbacks == {"mod08", "drv07", "drv10", "sample05_1", "sample06_2"}
FailedInitIsInert ==
  phase = "failed" /\ mod \notin LeaveCallbacks => \A r \in held : Kind(r) \notin Callbacks

\* An open file has its module and the memory it works on, whenever it was
\* opened and whatever failed in the meantime.  The exceptions: exercice03
\* registers its devices before it allocates their buffers (and does not test
\* the allocations); exercice07 and sample06.2 register them before calls whose
\* failure ends init, exercice06.1 and sample06.3 before calls whose failure
\* ends probe; and unbinding frees the memory of a misc device under its files.
OpenFilesServed ==
  \A d \in files :
    \/ phase \notin {"gone", "failed"} /\ DataOf(d) \subseteq held
    \/ mod = "drv03" /\ (phase = "init" \/ failed)
    \/ mod \in {"drv07", "sample06_2", "drv06_1", "sample06_3"} /\ failed
    \/ mod \in {"drv06", "drv06_1", "sample06_3"} /\ unbinds > 0

\* The modules that hand on the status of every call, or undo only what they
\* have, never follow a bad pointer and never give back what they do not hold:
\* their exit runs after a complete init only.  The others do so after a
\* failure, at the earliest; but sample06.3 without children, and exercice05.1
\* with the wrong device number, always.
Careful == {"mod01", "mod04", "mod05", "mod08", "drv07", "sample06_2"}
StrayCallsExplained ==
  (phase = "oops" \/ unowned # {}) =>
    \/ failed /\ mod \notin Careful
    \/ mod = "sample06_3" /\ children = 0
    \/ mod = "drv05_1"
=============================================================================
