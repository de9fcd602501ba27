----------------------------- MODULE CharDevice -----------------------------
(***************************************************************************)
(* The text buffer behind one minor of the character drivers               *)
(* (03_drivers/exercice02, 03, 05.1, 06, 06.1, sample06.2, sample06.3):    *)
(* their skeleton_read and skeleton_write, called by several open files.   *)
(*                                                                         *)
(* Nothing locks the buffer, so a call is split where another one can come *)
(* in between: the computations of the driver, then the copy to or from    *)
(* the caller, which may sleep or fault.  The drivers differ in how far a  *)
(* read may go: to the end of the buffer, or to the end of the text.  They *)
(* also differ in when they advance *off: nobody sees it, because the      *)
(* kernel takes the new position over only from a call that succeeds.      *)
(* An access outside the buffer is not followed: it leaves the buffer as   *)
(* it is.                                                                  *)
(***************************************************************************)
EXTENDS Integers, FiniteSets

CONSTANTS
  Size,      \* BUFFER_SZ
  EIO,       \* the error number a refused write stores in its count
  Files,     \* files opened on the minor
  Chars,     \* the bytes that are text
  NUL,       \* the byte 0, which is none of them but can be written as well
  MaxCount,  \* bound: bytes asked for in one call
  MaxOff     \* bound: no call takes a position beyond it

ASSUME CharDeviceAssumption ==
  /\ Size \in Nat \ {0}
  /\ EIO \in Nat \ {0}
  /\ MaxCount \in Nat
  /\ MaxOff \in Nat
  /\ NUL \notin Chars

VARIABLES
  drv,     \* the driver, chosen at the start
  users,   \* the files that are used in this behaviour
  fits,    \* do they only write what there is room for?
  plain,   \* do they only write text, no byte NUL?
  buffer,  \* the bytes of the minor
  off,     \* file position of each file
  op       \* the call each file is in

vars == <<drv, users, fits, plain, buffer, off, op>>

\* Drivers whose read goes to the end of the buffer, or of the text.
BufferDrivers == {"drv02", "drv03", "drv05_1"}
TextDrivers == {"drv06", "drv06_1", "sample06_2", "sample06_3"}

Idle == [kind |-> "idle", n |-> 0, done |-> 0]
Reading(n) == [kind |-> "read", n |-> n, done |-> 0]
Writing(n, k) == [kind |-> "write", n |-> n, done |-> k]

Init ==
  /\ drv \in BufferDrivers \union TextDrivers
  /\ users \in (SUBSET Files) \ {{}}
  /\ fits \in BOOLEAN
  /\ plain \in BOOLEAN
  /\ buffer = [i \in 0..(Size - 1) |-> NUL]
  /\ off = [f \in Files |-> 0]
  /\ op = [f \in Files |-> Idle]

\* strlen(buffer): how many bytes come before the first NUL.
Strlen == Cardinality({i \in 0..(Size - 1) : \A j \in 0..i : buffer[j] # NUL})

\* b with the byte c at i.
Stored(b, i, c) == [j \in DOMAIN b |-> IF j = i THEN c ELSE b[j]]

-----------------------------------------------------------------------------
(* release and open: the new position is 0; the driver keeps nothing of its  *)
(* own but the address of the minor's buffer in private_data                 *)

Open(f) ==
  /\ op[f] = Idle
  /\ off' = [off EXCEPT ![f] = 0]
  /\ UNCHANGED <<drv, users, fits, plain, buffer, op>>

-----------------------------------------------------------------------------
(* skeleton_read *)

\* (mutant) the count of the caller is taken as it is
ClippedNot(n, remaining) == n

\* count > remaining compares unsigned numbers: a negative rest is a huge one.
Clipped(n, remaining) == IF 0 <= remaining /\ remaining < n THEN remaining ELSE n

ReadBegin(f, n, window) ==
  /\ op[f] = Idle
  /\ off[f] + n <= MaxOff
  /\ op' = [op EXCEPT ![f] = Reading(Clipped(n, window - off[f]))]
  /\ UNCHANGED <<drv, users, fits, plain, buffer, off>>

\* copy_to_user is done, and the kernel keeps the new position ...
ReadEnd(f) ==
  /\ op[f].kind = "read"
  /\ off' = [off EXCEPT ![f] = @ + op[f].n]
  /\ op' = [op EXCEPT ![f] = Idle]
  /\ UNCHANGED <<drv, users, fits, plain, buffer>>

\* ... but not that of a call that failed.
ReadFault(f) ==
  /\ op[f].kind = "read" /\ op[f].n > 0
  /\ op' = [op EXCEPT ![f] = Idle]
  /\ UNCHANGED <<drv, users, fits, plain, buffer, off>>

-----------------------------------------------------------------------------
(* skeleton_write *)

\* (mutant) room for the bytes, none for the NUL after them
RefusedLate(n, remaining) == 0 <= remaining /\ remaining < n

\* count >= remaining, unsigned again.
Refused(n, remaining) == 0 <= remaining /\ remaining <= n

\* A refused count is -EIO, which is a huge size_t: the NUL goes to
\* ptr[-EIO] and copy_from_user turns the call down.
WriteRefused(f, n) ==
  /\ op[f] = Idle
  /\ ~fits /\ Refused(n, Size - off[f])
  /\ buffer' = Stored(buffer, off[f] - EIO, NUL)
  /\ UNCHANGED <<drv, users, fits, plain, off, op>>

\* (mutant) the text is not terminated
WriteBeginOpenEnded(f, n) ==
  /\ op[f] = Idle
  /\ n > 0 /\ ~Refused(n, Size - off[f])
  /\ off[f] + n <= MaxOff
  /\ op' = [op EXCEPT ![f] = Writing(n, 0)]
  /\ UNCHANGED <<drv, users, fits, plain, buffer, off>>

\* An accepted one is terminated first ...
WriteBegin(f, n) ==
  /\ op[f] = Idle
  /\ n > 0 /\ ~Refused(n, Size - off[f])
  /\ off[f] + n <= MaxOff
  /\ buffer' = Stored(buffer, off[f] + n, NUL)
  /\ op' = [op EXCEPT ![f] = Writing(n, 0)]
  /\ UNCHANGED <<drv, users, fits, plain, off>>

\* ... and then copied byte by byte, whatever the bytes are ...
WriteByte(f, c) ==
  /\ plain => c # NUL
  /\ op[f].kind = "write" /\ op[f].done < op[f].n
  /\ buffer' = Stored(buffer, off[f] + op[f].done, c)
  /\ op' = [op EXCEPT ![f].done = @ + 1]
  /\ UNCHANGED <<drv, users, fits, plain, off>>

\* ... to the end ...
WriteEnd(f) ==
  /\ op[f].kind = "write" /\ op[f].done = op[f].n
  /\ off' = [off EXCEPT ![f] = @ + op[f].n]
  /\ op' = [op EXCEPT ![f] = Idle]
  /\ UNCHANGED <<drv, users, fits, plain, buffer>>

\* ... unless it faults: the kernel fills the rest with zeros, the position stays.
WriteFault(f) ==
  /\ op[f].kind = "write" /\ op[f].done < op[f].n
  /\ buffer' = [i \in DOMAIN buffer |->
                 IF off[f] + op[f].done <= i /\ i < off[f] + op[f].n THEN NUL ELSE buffer[i]]
  /\ op' = [op EXCEPT ![f] = Idle]
  /\ UNCHANGED <<drv, users, fits, plain, off>>

Write(f, n) == WriteRefused(f, n) \/ WriteBegin(f, n)

-----------------------------------------------------------------------------
(* The file operations of each driver, by where its read ends *)

Drv02(f, n) == drv = "drv02" /\ (Open(f) \/ ReadBegin(f, n, Size) \/ Write(f, n))
Drv03(f, n) == drv = "drv03" /\ (Open(f) \/ ReadBegin(f, n, Size) \/ Write(f, n))
Drv05_1(f, n) == drv = "drv05_1" /\ (Open(f) \/ ReadBegin(f, n, Size) \/ Write(f, n))
\* (mutant) sizeof for strlen
Drv06Whole(f, n) == drv = "drv06" /\ (Open(f) \/ ReadBegin(f, n, Size) \/ Write(f, n))
Drv06(f, n) == drv = "drv06" /\ (Open(f) \/ ReadBegin(f, n, Strlen) \/ Write(f, n))
Drv06_1(f, n) == drv = "drv06_1" /\ (Open(f) \/ ReadBegin(f, n, Strlen) \/ Write(f, n))
Sample06_2(f, n) == drv = "sample06_2" /\ (Open(f) \/ ReadBegin(f, n, Strlen) \/ Write(f, n))
Sample06_3(f, n) == drv = "sample06_3" /\ (Open(f) \/ ReadBegin(f, n, Strlen) \/ Write(f, n))

Calling(f, n) ==
  \/ Drv02(f, n) \/ Drv03(f, n) \/ Drv05_1(f, n)
  \/ Drv06(f, n) \/ Drv06_1(f, n) \/ Sample06_2(f, n) \/ Sample06_3(f, n)

Next ==
  \E f \in users :
    \/ \E n \in 0..MaxCount : Calling(f, n)
    \/ ReadEnd(f) \/ ReadFault(f)
    \/ \E c \in Chars \cup {NUL} : WriteByte(f, c)
    \/ WriteEnd(f) \/ WriteFault(f)

Spec == Init /\ [][Next]_vars

-----------------------------------------------------------------------------
(* Properties *)

Calls == {Idle} \cup {Reading(n) : n \in 0..MaxCount}
         \cup {Writing(n, k) : n \in 1..MaxCount, k \in 0..MaxCount}

\* Type invariant: positions and counts stay natural numbers, whatever the
\* unsigned comparisons let through.
TypeOK ==
  /\ drv \in BufferDrivers \union TextDrivers
  /\ users \in SUBSET Files
  /\ fits \in BOOLEAN
  /\ plain \in BOOLEAN
  /\ buffer \in [0..(Size - 1) -> Chars \cup {NUL}]
  /\ off \in [Files -> Nat]
  /\ op \in [Files -> Calls]
  /\ \A f \in Files : op[f].done <= op[f].n

\* The text always ends inside the buffer: no interleaving of writes, refused,
\* complete or cut short, ever takes the last NUL away ("make sure string is
\* null terminated"), so that strlen stops in every read.
Terminated == buffer[Size - 1] = NUL

\* With a read that goes to the end of the buffer, no sequence of calls of any
\* number of files takes a position or a copy past that end ("compute remaining
\* bytes to copy").
ReadsInside == drv \in BufferDrivers => \A f \in Files : off[f] + op[f].n <= Size

\* With a read that goes to the end of the text, a file that has the minor for
\* itself, writes only what fits and writes only text never stands, and never reads,
\* behind the end of the text: its next read returns 0 there and not what older,
\* longer texts left behind.  All three are needed: a second file, the NUL of a
\* refused write and a NUL among the bytes written each leave the position behind
\* strlen, where the negative rest is compared unsigned and bounds nothing.
EndOfText ==
  drv \in TextDrivers /\ fits /\ plain =>
    \A f \in Files : users = {f} =>
      /\ off[f] <= Strlen
      /\ op[f].kind = "read" => off[f] + op[f].n <= Strlen

\* A write that returns has put its text there and ended it: with one user, no
\* tail of an older, longer text follows it.  (A driver that reads to the end of
\* the text needs fits and plain too: once the position is behind the end of the
\* text neither reads nor writes are bounded.)
NoStaleTail ==
  [][\A f \in Files :
       /\ users = {f} /\ (drv \in BufferDrivers \/ (fits /\ plain))
       /\ op[f].kind = "write" /\ off'[f] > off[f]
       => /\ plain => \A i \in off[f]..(off'[f] - 1) : buffer'[i] # NUL
          /\ buffer'[off'[f]] = NUL]_vars
=============================================================================
