------------------------------ MODULE MemGroup ------------------------------
(***************************************************************************)
(* 05_system/exercice02: a process puts itself into a memory cgroup with a *)
(* limit, allocates and fills block after block, and frees them.           *)
(***************************************************************************)
EXTENDS Integers

CONSTANTS
  NbrBlocks,  \* NBR_BLOCKS
  Limit       \* memory.limit_in_bytes, in blocks

\* What the constants have to be; whoever gives them values assumes it.
MemGroupAssumption == NbrBlocks \in Nat \ {0} /\ Limit \in Nat

VARIABLES
  doing,    \* the step the process is at, or how it ended
  inGroup,  \* did it get into the group?
  limited,  \* does the group have its limit?
  i,        \* the loop index
  pmem,     \* what each pointer refers to
  charged,  \* blocks charged to the group
  denied    \* has malloc failed?

mvars == <<doing, inGroup, limited, i, pmem, charged, denied>>

Blocks == 0..(NbrBlocks - 1)

Init ==
  /\ doing = "group"
  /\ inGroup = FALSE /\ limited = FALSE
  /\ i = 0 /\ charged = 0 /\ denied = FALSE
  /\ pmem = [b \in Blocks |-> "unset"]

-----------------------------------------------------------------------------

\* Opening and writing tasks and limit_in_bytes may fail; nobody looks.
Enter ==
  /\ doing = "group"
  /\ inGroup' \in BOOLEAN /\ limited' \in BOOLEAN
  /\ doing' = "malloc"
  /\ UNCHANGED <<i, pmem, charged, denied>>

Malloc ==
  /\ doing = "malloc" /\ i < NbrBlocks
  /\ \/ /\ pmem' = [pmem EXCEPT ![i] = "held"]
        /\ doing' = "memset" /\ UNCHANGED <<i, denied>>
     \/ /\ pmem' = [pmem EXCEPT ![i] = "NULL"]
        /\ denied' = TRUE /\ doing' = "free" /\ i' = 0
  /\ UNCHANGED <<inGroup, limited, charged>>

\* memset touches the pages and has them charged; beyond the limit the kernel ends
\* the process.
Memset ==
  /\ doing = "memset"
  /\ IF inGroup /\ limited /\ charged = Limit
       THEN doing' = "killed" /\ UNCHANGED <<i, charged>>
       ELSE /\ charged' = charged + 1
            /\ i' = i + 1 /\ doing' = "malloc"
  /\ UNCHANGED <<inGroup, limited, pmem, denied>>

AllMalloced ==
  /\ doing = "malloc" /\ i = NbrBlocks
  /\ doing' = "free" /\ i' = 0
  /\ UNCHANGED <<inGroup, limited, pmem, charged, denied>>

\* free, unless the pointer is NULL.  A pointer that was never set is anything:
\* NULL, or an address free turns down.
Free ==
  /\ doing = "free" /\ i < NbrBlocks
  /\ \/ /\ pmem[i] = "held"
        /\ pmem' = [pmem EXCEPT ![i] = "NULL"]
        /\ charged' = charged - 1 /\ i' = i + 1 /\ UNCHANGED doing
     \/ /\ pmem[i] \in {"NULL", "unset"}
        /\ i' = i + 1 /\ UNCHANGED <<doing, pmem, charged>>
     \/ /\ pmem[i] = "unset"
        /\ doing' = "abort" /\ UNCHANGED <<i, pmem, charged>>
  /\ UNCHANGED <<inGroup, limited, denied>>

\* (mutant) i < NBR_BLOCKS - 1
AllFreedEarly ==
  /\ doing = "free" /\ i = NbrBlocks - 1
  /\ doing' = "ended"
  /\ UNCHANGED <<inGroup, limited, i, pmem, charged, denied>>

AllFreed ==
  /\ doing = "free" /\ i = NbrBlocks
  /\ doing' = "ended"
  /\ UNCHANGED <<inGroup, limited, i, pmem, charged, denied>>

Next == Enter \/ Malloc \/ Memset \/ AllMalloced \/ Free \/ AllFreed

Spec == Init /\ [][Next]_mvars

-----------------------------------------------------------------------------
(* Properties *)

\* Type invariant.
TypeOK ==
  /\ doing \in {"group", "malloc", "memset", "free", "ended", "killed", "abort"}
  /\ i \in 0..NbrBlocks
  /\ pmem \in [Blocks -> {"unset", "NULL", "held"}]

\* A process that ends has freed every block it got, wherever malloc failed ("Freed all
\* memory", main.c:88); the loop that frees meets a pointer that was never set only
\* after malloc has failed.
FreedAll ==
  /\ doing = "ended" => charged = 0 /\ \A b \in Blocks : pmem[b] # "held"
  /\ doing = "abort" => denied
=============================================================================
