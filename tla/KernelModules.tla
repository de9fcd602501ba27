---------------------------- MODULE KernelModules ----------------------------
(***************************************************************************)
(* What the init, exit, probe and remove functions of the kernel modules   *)
(* (02_modules, 03_drivers) ask of the kernel, as sequences of calls.      *)
(* A call obtains or gives back one resource; its rule says when it is     *)
(* made and what becomes of its result.  ModuleLife executes them.         *)
(***************************************************************************)
EXTENDS Naturals, Sequences

CONSTANTS
  Elements,   \* parameter "elements" of 02_modules/exercice04
  Instances   \* parameter "instances" of 03_drivers/exercice03: init refuses 0 or less

ASSUME KernelModulesAssumption == Elements \in Nat /\ Instances \in Nat \ {0}

(* Resources: a kind and a number *)
Region == <<"region", 0>>
Cdev == <<"cdev", 0>>
Class == <<"class", 0>>
Driver == <<"driver", 0>>
Mem == <<"mem", 0>>
Buffers == <<"buffers", 0>>
Device(i) == <<"device", i>>
File(i) == <<"file", i>>
Misc(i) == <<"misc", i>>
Pdev(i) == <<"pdev", i>>
Gpio(i) == <<"gpio", i>>
Irq(i) == <<"irq", i>>
Thread(i) == <<"thread", i>>
Map(i) == <<"map", i>>
Element(i) == <<"element", i>>
Buffer(i) == <<"buffer", i>>
Devm(i) == <<"devm", i>>
Proc(i) == <<"proc", i>>
Nothing == <<"nothing", 0>>

(* Calls.  "on" is a pointer the call follows: it has to be a good one. *)
Call(op, res, on, rule) == [op |-> op, res |-> res, on |-> on, rule |-> rule]
Chained(r, on) == Call("get", r, on, "chained")      \* if (status == 0) status = get ()
Untested(r, on) == Call("get", r, on, "untested")    \* if (status == 0) get ()
Unchecked(r, on) == Call("get", r, on, "unchecked")  \* get ()
Noted(r, on) == Call("get", r, on, "noted")          \* if (get () == 0) status = error
Latest(r, on) == Call("get", r, on, "latest")        \* status = get ()
Required(r, on) == Call("get", r, on, "required")    \* if (get () fails) return error
Give(r, on) == Call("put", r, on, "always")
GiveIfHeld(r) == Call("put", r, Nothing, "held")     \* if (r != 0) put (r)
GiveFrom(on, r) == Call("put", r, on, "held")        \* if (on[r] != 0) put (on[r])
Tidy(r) == Call("put", r, Nothing, "chained")        \* if (status == 0) put (r)
ReleaseDevm == Call("devm", Nothing, Nothing, "always")

\* for (i = 1; i <= n; i++) body (i), where body (i) makes k calls
For(n, k, body(_)) == [j \in 1..(n * k) |-> body(((j - 1) \div k) + 1)[((j - 1) % k) + 1]]

\* An init function: its calls, and whether it returns their status (or 0).
InitOf(calls, reports) == [calls |-> calls, reports |-> reports]

-----------------------------------------------------------------------------
(* 02_modules *)

Mod01Init == InitOf(<<>>, FALSE)
Mod01Exit == <<>>

\* An element that cannot be allocated is left out of the list.
Mod04Init == InitOf(For(Elements, 1, LAMBDA i : <<Unchecked(Element(i), Nothing)>>), FALSE)
Mod04Exit == For(Elements, 1, LAMBDA i : <<GiveIfHeld(Element(i))>>)

\* The mappings serve to read three registers and are given back at once.
Mod05Init ==
  InitOf(<<Unchecked(Mem, Nothing)>>
           \o For(3, 1, LAMBDA i : <<Noted(Map(i), Nothing)>>)
           \o For(3, 1, LAMBDA i : <<Tidy(Map(i))>>), TRUE)
Mod05Exit == <<GiveIfHeld(Mem)>>

Mod06Init == InitOf(<<Unchecked(Thread(1), Nothing)>>, FALSE)
Mod06Exit == <<Give(Thread(1), Thread(1))>>

Mod07Init == InitOf(For(2, 1, LAMBDA i : <<Unchecked(Thread(i), Nothing)>>), FALSE)
Mod07Exit == <<Give(Thread(2), Thread(2)), Give(Thread(1), Thread(1))>>

Mod08Calls == For(3, 2, LAMBDA i : <<Chained(Gpio(i), Nothing), Chained(Irq(i), Nothing)>>)
\* (mutant) the status is dropped
Mod08InitSilent == InitOf(Mod08Calls, FALSE)
Mod08Init == InitOf(Mod08Calls, TRUE)
Mod08Exit == For(3, 2, LAMBDA i : <<Give(Gpio(i), Nothing), Give(Irq(i), Nothing)>>)

-----------------------------------------------------------------------------
(* 03_drivers: character devices *)

CdevCalls == <<Chained(Region, Nothing), Chained(Cdev, Nothing)>>
CdevGone == <<Give(Cdev, Nothing), Give(Region, Nothing)>>

Drv02Init == InitOf(CdevCalls, FALSE)
\* (mutant) the numbers are not given back
Drv02ExitForgetful == <<Give(Cdev, Nothing)>>
Drv02Exit == CdevGone

\* (mutant) the allocations are tested, and nothing is undone
Drv03InitTested ==
  InitOf(CdevCalls \o <<Chained(Buffers, Nothing)>>
           \o For(Instances, 1, LAMBDA i : <<Chained(Buffer(i), Buffers)>>), TRUE)
Drv03Init ==
  InitOf(CdevCalls \o <<Untested(Buffers, Nothing)>>
           \o For(Instances, 1, LAMBDA i : <<Untested(Buffer(i), Buffers)>>), TRUE)
Drv03Exit ==
  CdevGone \o For(Instances, 1, LAMBDA i : <<GiveFrom(Buffers, Buffer(i))>>) \o <<GiveIfHeld(Buffers)>>

\* Devices have their number for a name: device_create (class, NULL, devt, ...)
ClassCalls(devt) ==
  <<Unchecked(Class, Nothing), Unchecked(Device(devt), Class),
    Chained(File(1), Device(devt)), Chained(File(2), Device(devt))>>

\* device_destroy (class, 0), whatever number the device was created with
ClassGone(devt) ==
  <<Give(File(1), Device(devt)), Give(File(2), Device(devt)),
    Give(Device(0), Class), GiveIfHeld(Class)>>

Drv05Init == InitOf(ClassCalls(0), FALSE)
Drv05Exit == ClassGone(0)

\* The device has the number of the character device, which is not 0.
Drv05_1Init == InitOf(CdevCalls \o ClassCalls(1), FALSE)
Drv05_1Exit == ClassGone(1) \o CdevGone

Drv08Init == InitOf(CdevCalls \o <<Chained(Pdev(0), Nothing)>>, FALSE)
Drv08Exit == <<Give(Pdev(0), Pdev(0))>> \o CdevGone

Drv09Init == InitOf(CdevCalls, FALSE)
Drv09Exit == CdevGone

\* misc_deregister takes the interrupts with it, which belong to its device.
Drv07Init ==
  InitOf(<<Chained(Misc(0), Nothing)>> \o For(3, 1, LAMBDA i : <<Chained(Irq(i), Misc(0))>>), TRUE)
Drv07Exit == <<Give(Misc(0), Nothing)>> \o For(3, 1, LAMBDA i : <<GiveIfHeld(Irq(i))>>)

\* Without the directory the two entries end up in /proc itself.
Drv10Init ==
  InitOf(<<Noted(Proc(0), Nothing), Unchecked(Proc(1), Nothing),
           Unchecked(Proc(2), Nothing)>>, TRUE)
Drv10Exit == <<Give(Proc(2), Nothing), Give(Proc(1), Nothing), Give(Proc(0), Nothing)>>

Sample05Init ==
  InitOf(<<Unchecked(Class, Nothing), Unchecked(Device(0), Class),
           Latest(File(1), Device(0))>>, TRUE)
Sample05Exit == <<Give(File(1), Device(0)), Give(Device(0), Class), GiveIfHeld(Class)>>

\* Only the status of the last file is returned.
Sample05_1Init ==
  InitOf(<<Unchecked(Class, Nothing)>>
           \o For(5, 2, LAMBDA i : <<Unchecked(Device(i), Class), Latest(File(i), Device(i))>>), TRUE)
Sample05_1Exit ==
  For(5, 2, LAMBDA i : <<Give(File(i), Device(i)), Give(Device(i), Class)>>) \o <<GiveIfHeld(Class)>>

Sample06_2Init ==
  InitOf(CdevCalls
           \o For(3, 2, LAMBDA i : <<Chained(Pdev(i), Nothing), Chained(File(i), Pdev(i))>>), TRUE)
Sample06_2Exit ==
  For(3, 2, LAMBDA i : <<Give(File(i), Pdev(i)), Give(Pdev(i), Pdev(i))>>) \o CdevGone

-----------------------------------------------------------------------------
(* 03_drivers: platform drivers.  The driver core releases what was obtained *)
(* with devm_ when probe fails and after remove.                             *)

\* platform_driver_register
DriverCalls == <<Chained(Driver, Nothing)>>
DriverGone == <<Give(Driver, Nothing)>>

Drv06Init == InitOf(DriverCalls, FALSE)
Drv06Exit == DriverGone
\* (mutant) the device is registered before its data exist
Drv06ProbeEarly == <<Required(Misc(1), Nothing), Required(Devm(1), Nothing)>>
Drv06Probe == <<Required(Devm(1), Nothing), Required(Misc(1), Nothing)>>
Drv06Remove == <<Give(Misc(1), Devm(1))>>

\* Devm(0) is the list of the children.
Drv06_1Init == InitOf(DriverCalls, FALSE)
Drv06_1Exit == DriverGone
Drv06_1Probe(children) ==
  <<Required(Devm(0), Nothing)>>
    \o For(children, 2, LAMBDA i : <<Required(Devm(i), Nothing), Required(Misc(i), Nothing)>>)
Drv06_1Remove(children) == For(children, 1, LAMBDA i : <<Give(Misc(i), Devm(0))>>)

\* The driver data are those of the last child, and only its device goes, with
\* its attribute.
Sample06_3Init == InitOf(DriverCalls, FALSE)
Sample06_3Exit == DriverGone
Sample06_3Probe(children) ==
  For(children, 3, LAMBDA i : <<Required(Devm(i), Nothing), Required(Misc(i), Nothing),
                             Required(File(i), Misc(i))>>)
Sample06_3Remove(children) == <<Give(Misc(children), Devm(children)), GiveIfHeld(File(children))>>

DtsInit == InitOf(DriverCalls, TRUE)
DtsExit == DriverGone
DtsProbe == <<Unchecked(Misc(1), Nothing)>>
DtsRemove == <<Give(Misc(1), Nothing)>>
=============================================================================
