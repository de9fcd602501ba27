----------------------------- MODULE ProcfsEntry -----------------------------
(***************************************************************************)
(* The entries /proc/mymodule/config and val of 03_drivers/exercice10: a   *)
(* process reads one of them, piece by piece, until a read returns 0 or    *)
(* fails, while others write to val.  The entry is formatted anew in every *)
(* read, into a buffer on the stack, and *off is only used to compute how  *)
(* many bytes are left: each piece starts at the beginning of the text.    *)
(***************************************************************************)
EXTENDS Integers, Sequences

CONSTANTS
  Vals,        \* what is written to val
  Config,      \* the text of config, which nothing changes
  TempSize,    \* sizeof(temp)
  Stray,       \* digits that may lie on the stack
  MaxCount,    \* bound: bytes asked for in one read
  MaxOff       \* bound: no read begins at a position beyond it

\* What the constants have to be; whoever gives them values assumes it.
ProcfsEntryAssumption ==
  /\ Vals \subseteq 0..99 /\ Stray \subseteq 0..9
  /\ Config \in Seq(0..10)
  /\ TempSize \in Nat \ {0} /\ MaxCount \in Nat /\ MaxOff \in Nat

VARIABLES
  entry,   \* the entry that is read, "config" or "val"
  val,     \* the number behind val
  pos,     \* the file position of the reader
  got,     \* the bytes it has been given, as long as nobody writes
  reader,  \* "reading", "ended" or "failed"
  whole,   \* have all its reads asked for the whole text?
  steady   \* has nobody written to val since it began?

pvars == <<entry, val, pos, got, reader, whole, steady>>

\* The bytes used here: the digits as themselves, the newline, and what was never
\* put into temp.
NL == 10
Unset == 11

\* snprintf("%d\n")
Formatted(v) == (IF v >= 10 THEN <<v \div 10>> ELSE <<>>) \o <<v % 10, NL>>

Text == IF entry = "config" THEN Config ELSE Formatted(val)

Init ==
  /\ entry \in {"config", "val"}
  /\ val \in Vals
  /\ pos = 0 /\ got = <<>> /\ reader = "reading"
  /\ whole = TRUE /\ steady = TRUE

-----------------------------------------------------------------------------
(* skeleton_read_config and skeleton_read_val *)

\* count > len compares unsigned numbers: a negative len limits nothing.
Limited(count) ==
  LET len == Len(Text) - pos IN IF 0 <= len /\ len < count THEN len ELSE count

\* (mutant) the newline is not copied
PieceCut(n) == [i \in 1..n |-> IF i < Len(Text) THEN Text[i] ELSE Unset]

\* copy_to_user(buf, temp, count): the first count bytes of temp
Piece(n) == [i \in 1..n |-> IF i <= Len(Text) THEN Text[i] ELSE Unset]

ReadPiece(count) ==
  /\ reader = "reading" /\ pos <= MaxOff
  /\ LET n == Limited(count)
     IN  /\ n <= TempSize
         /\ pos' = pos + n
         /\ got' = IF steady THEN got \o Piece(n) ELSE <<>>
         /\ reader' = IF n = 0 THEN "ended" ELSE "reading"
  /\ whole' = (whole /\ count >= Len(Text))
  /\ UNCHANGED <<entry, val, steady>>

\* A piece larger than temp, or one whose copy faults, is refused; the position
\* the driver has advanced is dropped with it.
ReadFail(count) ==
  /\ reader = "reading" /\ Limited(count) > 0
  /\ reader' = "failed"
  /\ UNCHANGED <<entry, val, pos, got, whole, steady>>

Reader == \E count \in 1..MaxCount : ReadPiece(count) \/ ReadFail(count)

-----------------------------------------------------------------------------
(* skeleton_write_val; a count beyond sizeof(temp) is refused with -EIO *)

Longer(v) == IF v < 10 THEN {10 * v + d : d \in Stray} ELSE {}

\* A number that ends with a newline is read as it is, what is no number as 0.
\* temp is not terminated: without the newline the digits may go on with those
\* that lie behind them on the stack.
WriteVal ==
  /\ \E v \in Vals \union {0}, ended \in BOOLEAN :
       val' \in {v} \union (IF ended THEN {} ELSE Longer(v))
  /\ steady' = FALSE /\ got' = <<>>
  /\ UNCHANGED <<entry, pos, reader, whole>>

Next == Reader \/ WriteVal

Spec == Init /\ [][Next]_pvars

-----------------------------------------------------------------------------
(* Properties *)

\* Type invariant.
TypeOK ==
  /\ entry \in {"config", "val"}
  /\ val \in 0..99
  /\ pos \in Nat
  /\ steady => pos = Len(got)
  /\ reader \in {"reading", "ended", "failed"}
  /\ whole \in BOOLEAN /\ steady \in BOOLEAN

\* While nobody writes, a reader gets no more bytes than the text has, and none that
\* snprintf has not put into temp, whatever the pieces; one that has always asked
\* for the whole text has it, and nothing else, when a read returns 0.  (With
\* smaller pieces each one starts over; and after a write that shortens the number,
\* len is negative and limits no read any more.)
WholeText ==
  steady =>
    /\ Len(got) <= Len(Text) /\ \A n \in DOMAIN got : got[n] # Unset
    /\ whole /\ reader = "ended" => got = Text
=============================================================================
