----------------------------- MODULE SmartStart -----------------------------
(***************************************************************************)
(* How 04_system/smart starts and ends: init_app with open_led,            *)
(* open_buttons and init_timers, call by call, and close_led.  The pins    *)
(* belong to the kernel and outlive the process, which a signal may end at *)
(* any point and which is started again; close_buttons has no caller.      *)
(* SmartLed is the loop in between.                                        *)
(***************************************************************************)
EXTENDS Naturals, Sequences

CONSTANTS
  Claimed,      \* pins that another driver may have claimed
  Leftover,     \* pins that may be exported before the first start
  MaxRuns,      \* bound: starts of the program
  MaxFailures   \* bound: calls that fail, over all runs

Buttons == {"k1", "k2", "k3"}
Pins == Buttons \union {"led"}
Timers == {"p1", "p2", "press"}

\* What the constants have to be; whoever gives them values assumes it.
SmartStartAssumption ==
  /\ Claimed \subseteq Pins /\ Leftover \subseteq Pins
  /\ MaxRuns \in Nat \ {0} /\ MaxFailures \in Nat

VARIABLES
  pin,        \* what the kernel does with each pin: "free", "exported", "claimed"
  direction,  \* the direction of each pin
  detected,   \* the edges it reports
  fd,         \* the descriptors that are open
  watched,    \* those of them in the epoll instance
  next,       \* the number of the call that init_app makes next
  at,         \* "init", "loop", "close"; "exited" or "killed"
  lost,       \* the calls of this run that failed
  runs, failures

startVars == <<pin, direction, detected, fd, watched, next, at, lost, runs, failures>>
pins == <<pin, direction, detected>>

-----------------------------------------------------------------------------
(* The calls of each function *)

OpenLed ==
  << <<"unexport", "led">>, <<"export", "led">>, <<"direction", "led">>, <<"open", "led">> >>

OnButtons(op) == << <<op, "k1">>, <<op, "k2">>, <<op, "k3">> >>

\* (mutant) the pins are exported first
OpenButtonsSwapped ==
  OnButtons("export") \o OnButtons("unexport") \o OnButtons("direction")
    \o OnButtons("edge") \o OnButtons("open")

OpenButtons ==
  OnButtons("unexport") \o OnButtons("export") \o OnButtons("direction")
    \o OnButtons("edge") \o OnButtons("open")

InitTimers == << <<"create", "p1">>, <<"create", "p2">>, <<"create", "press">> >>

Register ==
  << <<"add", "p1">>, <<"add", "p2">>, <<"add", "press">>,
     <<"add", "k1">>, <<"add", "k2">>, <<"add", "k3">> >>

InitApp == OpenLed \o OpenButtons \o InitTimers \o << <<"epoll", "epoll">> >> \o Register

\* The call behind init_timers.
Epoll == Len(OpenLed \o OpenButtons \o InitTimers) + 1

\* What open_led and open_buttons write to direction and edge.
Direction(p) == IF p = "led" THEN "out" ELSE "in"
Edge(p) == IF p = "k2" THEN "rising" ELSE "both"

-----------------------------------------------------------------------------

Init ==
  /\ pin \in [Pins -> {"free", "exported", "claimed"}]
  /\ \A p \in Pins : /\ pin[p] = "claimed" => p \in Claimed
                     /\ pin[p] = "exported" => p \in Leftover
  /\ direction = [p \in Pins |-> "in"] /\ detected = [p \in Pins |-> "none"]
  /\ fd = {} /\ watched = {} /\ lost = {}
  /\ next = 1 /\ at = "init" /\ runs = 1 /\ failures = 0

Op == InitApp[next][1]
Arg == InitApp[next][2]
Initialising == at = "init" /\ next <= Len(InitApp)

\* sysfs takes a pin that nobody has, and has files for the pins it exports.
Possible ==
  CASE Op \in {"unexport", "direction", "edge", "open"} -> pin[Arg] = "exported"
    [] Op = "export" -> pin[Arg] = "free"
    [] Op = "add" -> Arg \in fd
    [] OTHER -> TRUE

Succeed ==
  /\ Initialising /\ Possible
  /\ pin' = CASE Op = "unexport" -> [pin EXCEPT ![Arg] = "free"]
              [] Op = "export" -> [pin EXCEPT ![Arg] = "exported"]
              [] OTHER -> pin
  /\ direction' = IF Op = "direction" THEN [direction EXCEPT ![Arg] = Direction(Arg)] ELSE direction
  /\ detected' = CASE Op = "unexport" -> [detected EXCEPT ![Arg] = "none"]
                   [] Op = "edge" -> [detected EXCEPT ![Arg] = Edge(Arg)]
                   [] OTHER -> detected
  /\ fd' = IF Op \in {"open", "create"} THEN fd \union {Arg} ELSE fd
  /\ watched' = IF Op = "add" THEN watched \union {Arg} ELSE watched
  /\ next' = next + 1
  /\ UNCHANGED <<at, lost, runs, failures>>

\* Of the calls on the pins none is tested.  A timer that cannot be created ends
\* init_timers, without epoll or with a descriptor it refuses init_app fails.
Fail ==
  /\ Initialising
  /\ \/ ~Possible /\ UNCHANGED <<lost, failures>>
     \/ /\ Possible /\ failures < MaxFailures
        /\ lost' = lost \union {InitApp[next]} /\ failures' = failures + 1
  /\ at' = IF Op \in {"epoll", "add"} THEN "close" ELSE "init"
  /\ next' = IF Op = "create" THEN Epoll ELSE next + 1
  /\ UNCHANGED <<pins, fd, watched, runs>>

\* start_timers, and on to handle_events
EnterLoop ==
  /\ at = "init" /\ next > Len(InitApp)
  /\ at' = "loop"
  /\ UNCHANGED <<pins, fd, watched, next, lost, runs, failures>>

\* epoll_wait fails.
LeaveLoop ==
  /\ at = "loop" /\ failures < MaxFailures
  /\ at' = "close" /\ failures' = failures + 1
  /\ UNCHANGED <<pins, fd, watched, next, lost, runs>>

\* The process is over: the kernel closes its descriptors, and keeps the pins.
Ended(how) == at' = how /\ fd' = {} /\ watched' = {} /\ next' = 1

\* close_led, and main returns
CloseLed ==
  /\ at = "close"
  /\ Ended("exited")
  /\ \/ /\ "led" \in fd /\ pin["led"] = "exported"
        /\ pin' = [pin EXCEPT !["led"] = "free"]
        /\ detected' = [detected EXCEPT !["led"] = "none"]
        /\ UNCHANGED <<lost, failures>>
     \/ "led" \notin fd /\ UNCHANGED <<pin, detected, lost, failures>>
     \/ /\ "led" \in fd /\ failures < MaxFailures
        /\ lost' = lost \union {<<"release", "led">>} /\ failures' = failures + 1
        /\ UNCHANGED <<pin, detected>>
  /\ UNCHANGED <<direction, runs>>

Kill ==
  /\ at \in {"init", "loop", "close"}
  /\ Ended("killed")
  /\ UNCHANGED <<pins, lost, runs, failures>>

Restart ==
  /\ at \in {"exited", "killed"} /\ runs < MaxRuns
  /\ at' = "init" /\ lost' = {}
  /\ runs' = runs + 1
  /\ UNCHANGED <<pins, fd, watched, next, failures>>

Next == Succeed \/ Fail \/ EnterLoop \/ LeaveLoop \/ CloseLed \/ Kill \/ Restart

Spec == Init /\ [][Next]_startVars

-----------------------------------------------------------------------------
(* Properties *)

\* Type invariant; only a pin that sysfs has reports edges.
TypeOK ==
  /\ at \in {"init", "loop", "close", "exited", "killed"}
  /\ \A p \in Pins : /\ pin[p] \in {"free", "exported", "claimed"}
                     /\ direction[p] \in {"in", "out"}
                     /\ detected[p] \in {"none", "rising", "both"}
                     /\ detected[p] # "none" => pin[p] = "exported"
  /\ watched \subseteq fd /\ fd \subseteq Pins \union Timers
  /\ next \in 1..(Len(InitApp) + 1)
  /\ runs \in 1..MaxRuns /\ failures \in 0..MaxFailures

All == Timers \union Buttons

\* Whatever an earlier run left, killed at any of its calls: a run that comes to its
\* loop watches all timers and buttons, and each pin is set up as it should be, or
\* its own call for it failed.  The LED alone may be missing.
StartsWhole ==
  at = "loop" =>
    /\ watched = All
    /\ \A p \in Pins :
         /\ direction[p] # Direction(p) => pin[p] # "exported" \/ <<"direction", p>> \in lost
         /\ p \in Buttons /\ detected[p] # Edge(p) => <<"edge", p>> \in lost
    /\ "led" \notin fd =>
         pin["led"] = "claimed" \/ \E op \in {"export", "open"} : <<op, "led">> \in lost

\* Nor does it keep init_app from its end: a run gives up only when another driver
\* has a button, or one of its own calls failed.
GivesUpForCause ==
  at = "close" /\ watched # All => lost # {} \/ \E p \in Buttons : pin[p] = "claimed"

\* A run that ends by itself gives the LED's pin back, unless a call for it failed
\* (the pins of the buttons stay as they are).
ExitReleasesLed ==
  at = "exited" /\ pin["led"] = "exported" =>
    \E op \in {"open", "release"} : <<op, "led">> \in lost

\* From start to end, whatever was left behind and whatever fails on the way.
CleanLife == StartsWhole /\ GivesUpForCause /\ ExitReleasesLed
=============================================================================
