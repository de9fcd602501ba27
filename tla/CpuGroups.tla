------------------------------ MODULE CpuGroups ------------------------------
(***************************************************************************)
(* 05_system/exercice03: main forks a child that joins the cpuset "high",  *)
(* forks one that joins "low", and both compute.  The first child leaves   *)
(* its block when it has computed, and runs into the second fork too.      *)
(***************************************************************************)
EXTENDS Naturals

VARIABLES
  ready,  \* the groups that were given their cpus and mems
  stage,  \* where each process is
  group   \* the group of each process

gvars == <<ready, stage, group>>

\* main, its two children, and the child of the first one
Processes == {"main", "c1", "c2", "c12"}

\* Whom a fork creates.
ForkedBy == [fork1 |-> [main |-> "c1"], fork2 |-> [main |-> "c2", c1 |-> "c12"]]

Init ==
  /\ ready = {}
  /\ stage = [x \in Processes |-> IF x = "main" THEN "setup" ELSE "absent"]
  /\ group = [x \in Processes |-> "root"]

-----------------------------------------------------------------------------

\* Mounting, mkdir and write_to_file may fail; nobody looks.
Setup ==
  /\ stage["main"] = "setup"
  /\ ready' \in SUBSET {"high", "low"}
  /\ stage' = [stage EXCEPT !["main"] = "fork1"]
  /\ UNCHANGED group

\* The child inherits the group.  A fork that fails leaves the caller on its way.
Fork(x, from, to, joins) ==
  /\ stage[x] = from
  /\ \/ LET y == ForkedBy[from][x]
        IN  /\ stage' = [stage EXCEPT ![x] = to, ![y] = joins]
            /\ group' = [group EXCEPT ![y] = group[x]]
     \/ stage' = [stage EXCEPT ![x] = to] /\ UNCHANGED group
  /\ UNCHANGED ready

Fork1 == Fork("main", "fork1", "fork2", "joinHigh")
Fork2(x) == Fork(x, "fork2", "ended", "joinLow")

\* write_to_file(tasks): the kernel refuses it to a group without cpus or mems.  The
\* error shows when fclose flushes, and is not looked at.
Join(x, from, g, to) ==
  /\ stage[x] = from
  /\ group' = [group EXCEPT ![x] = IF g \in ready THEN g ELSE @]
  /\ stage' = [stage EXCEPT ![x] = to]
  /\ UNCHANGED ready

Join1(x) == Join(x, "joinHigh", "high", "pi1")
\* (mutant) the wrong tasks file
Join2High(x) == Join(x, "joinLow", "high", "pi2")
Join2(x) == Join(x, "joinLow", "low", "pi2")

\* The end of a calculation; the first child goes on behind its block.
Pi1(x) ==
  /\ stage[x] = "pi1"
  /\ stage' = [stage EXCEPT ![x] = "fork2"]
  /\ UNCHANGED <<ready, group>>
Pi2(x) ==
  /\ stage[x] = "pi2"
  /\ stage' = [stage EXCEPT ![x] = "ended"]
  /\ UNCHANGED <<ready, group>>

Step(x) == Fork2(x) \/ Join1(x) \/ Join2(x) \/ Pi1(x) \/ Pi2(x)

Next == Setup \/ Fork1 \/ \E x \in Processes : Step(x)

Spec == Init /\ [][Next]_gvars

-----------------------------------------------------------------------------
(* Properties *)

Computing(g) == {x \in Processes : stage[x] \in {"pi1", "pi2"} /\ group[x] = g}

\* Type invariant.
TypeOK ==
  /\ ready \subseteq {"high", "low"}
  /\ group \in [Processes -> {"root", "high", "low"}]
  /\ stage \in [Processes -> {"absent", "setup", "fork1", "joinHigh", "pi1", "fork2",
                              "joinLow", "pi2", "ended"}]

Alone(g) == \A x, y \in Computing(g) : x = y

\* When both groups were set up, "high" has its processor for one calculation, whatever
\* is forked by whom; "low" may have to share its own between two, but not before
\* the calculation in "high" is over ("create two process", main.c:89, makes three).
GroupsApart ==
  ready = {"high", "low"} =>
    /\ Alone("high") /\ Computing("root") = {}
    /\ ~Alone("low") => Computing("high") = {}
=============================================================================
