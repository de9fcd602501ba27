-------------------------- MODULE CharDeviceProofs --------------------------
(***************************************************************************)
(* What TLAPS proves of the character drivers' buffer, for every size of   *)
(* the buffer, every count and any number of open files.                   *)
(***************************************************************************)
EXTENDS CharDevice, FiniteSetTheorems, TLAPS

\* The first m bytes are text.
Solid(m) == m <= Size /\ \A i \in 0..(m - 1) : buffer[i] # NUL

\* A file that has the minor for itself, under a driver that keeps it in bounds.
Alone(f) == users = {f} /\ (drv \in BufferDrivers \/ (fits /\ plain))

\* An accepted write, its NUL included, lies inside the buffer or all outside.
WritesFit ==
  \A f \in Files : op[f].kind = "write" => \/ off[f] + op[f].n < Size
                                           \/ Size < off[f]

\* What the only user has copied so far is there, and so is the NUL behind it.
WriteUndisturbed ==
  \A f \in Files : Alone(f) /\ op[f].kind = "write" =>
    /\ off[f] + op[f].n < Size
    /\ plain => \A i \in off[f]..(off[f] + op[f].done - 1) : buffer[i] # NUL
    /\ buffer[off[f] + op[f].n] = NUL

\* EndOfText, said of the bytes and not of their number.
TextReached ==
  drv \in TextDrivers /\ fits /\ plain =>
    \A f \in Files : users = {f} =>
      /\ Solid(off[f])
      /\ op[f].kind = "read" => Solid(off[f] + op[f].n)

DeviceInv ==
  TypeOK /\ Terminated /\ ReadsInside /\ WritesFit /\ WriteUndisturbed /\ TextReached

-----------------------------------------------------------------------------

\* The number of bytes before the first NUL is at least m exactly when the
\* first m bytes are text.
LEMMA StrlenIs ==
  ASSUME buffer \in [0..(Size - 1) -> Chars \cup {NUL}]
  PROVE  /\ Strlen \in 0..Size
         /\ \A m \in Nat : m <= Strlen <=> Solid(m)
<1> DEFINE T == {i \in 0..(Size - 1) : \A j \in 0..i : buffer[j] # NUL}
<1>1. Strlen = Cardinality(T)
  BY DEF Strlen
<1>2. IsFiniteSet(0..(Size - 1)) /\ Cardinality(0..(Size - 1)) = Size
  BY FS_Interval, CharDeviceAssumption
<1>3. IsFiniteSet(T) /\ Cardinality(T) <= Size
  <2>1. T \in SUBSET (0..(Size - 1))
    OBVIOUS
  <2>2. IsFiniteSet(T) /\ Cardinality(T) <= Cardinality(0..(Size - 1))
    BY <1>2, <2>1, FS_Subset, Zenon
  <2> QED
    BY <1>2, <2>2
<1>4. Strlen \in 0..Size
  BY <1>1, <1>3, FS_CardinalityType, CharDeviceAssumption
<1>5. ASSUME NEW m \in Nat, m <= Strlen
      PROVE  Solid(m)
  <2>1. SUFFICES ASSUME NEW k \in 0..(m - 1), buffer[k] = NUL
                 PROVE  FALSE
    BY <1>4, <1>5, CharDeviceAssumption DEF Solid
  <2>2. T \subseteq 0..(k - 1)
    BY <2>1, CharDeviceAssumption
  <2>3. IsFiniteSet(0..(k - 1)) /\ Cardinality(0..(k - 1)) = k
    BY FS_Interval
  <2>4. Cardinality(T) <= k
    BY <2>2, <2>3, FS_Subset
  <2> QED
    BY <1>1, <1>4, <1>5, <2>1, <2>4, CharDeviceAssumption
<1>6. ASSUME NEW m \in Nat, Solid(m)
      PROVE  m <= Strlen
  <2>1. 0..(m - 1) \subseteq T
    BY <1>6, CharDeviceAssumption DEF Solid
  <2>2. Cardinality(0..(m - 1)) = m
    BY FS_Interval
  <2>3. Cardinality(0..(m - 1)) <= Cardinality(T)
    BY <1>3, <2>1, FS_Subset
  <2> QED
    BY <1>1, <2>2, <2>3
<1> QED
  BY <1>4, <1>5, <1>6

LEMMA EndOfTextIsTextReached == TypeOK => (TextReached <=> EndOfText)
<1> SUFFICES ASSUME TypeOK
             PROVE  TextReached <=> EndOfText
  OBVIOUS
<1>1. \A f \in Files : off[f] \in Nat /\ off[f] + op[f].n \in Nat
  BY CharDeviceAssumption DEF TypeOK, Calls, Idle, Reading, Writing
<1>2. \A m \in Nat : m <= Strlen <=> Solid(m)
  BY StrlenIs DEF TypeOK
<1> QED
  BY <1>1, <1>2 DEF TextReached, EndOfText

LEMMA DeviceInit == Init => DeviceInv
<1> SUFFICES ASSUME Init
             PROVE  DeviceInv
  OBVIOUS
<1>1. TypeOK
  <2>1. op \in [Files -> Calls] /\ \A f \in Files : op[f].done <= op[f].n
    BY DEF Init, Calls, Idle
  <2> QED
    BY <2>1 DEF Init, TypeOK
<1>2. \A f \in Files : off[f] = 0 /\ op[f].kind = "idle" /\ op[f].n = 0
  BY DEF Init, Idle
<1>3. Solid(0) /\ buffer[Size - 1] = NUL
  BY CharDeviceAssumption DEF Init, Solid
<1> QED
  BY <1>1, <1>2, <1>3, CharDeviceAssumption
  DEF DeviceInv, Terminated, ReadsInside, WritesFit, WriteUndisturbed, TextReached

\* What the type invariant says of one call.
LEMMA CallFacts ==
  ASSUME TypeOK, NEW f \in Files
  PROVE  /\ op[f].kind \in {"idle", "read", "write"}
         /\ op[f].n \in 0..MaxCount /\ op[f].done \in 0..op[f].n
         /\ op[f].kind = "write" => op[f].n > 0
         /\ off[f] \in Nat
BY CharDeviceAssumption DEF TypeOK, Calls, Idle, Reading, Writing

-----------------------------------------------------------------------------

\* How far the driver at hand lets a read go.
WindowOf(window) ==
  (drv \in BufferDrivers /\ window = Size) \/ (drv \in TextDrivers /\ window = Strlen)

LEMMA OpenStep ==
  ASSUME DeviceInv, NEW f \in users, Open(f)
  PROVE  DeviceInv'
<1> USE CharDeviceAssumption
<1>1. f \in Files /\ TypeOK
  BY DEF DeviceInv, TypeOK
<1>2. /\ off' = [off EXCEPT ![f] = 0] /\ op' = op /\ op[f].kind = "idle" /\ op[f].n = 0
      /\ UNCHANGED <<drv, users, fits, plain, buffer>>
  BY DEF Open, Idle
<1>3. \A g \in Files : off'[g] \in Nat /\ off'[g] <= off[g]
  BY <1>1, <1>2 DEF TypeOK
<1>4. TypeOK'
  BY <1>1, <1>2 DEF TypeOK
<1>5. Terminated'
  BY <1>2 DEF DeviceInv, Terminated
<1>6. ReadsInside'
  BY <1>1, <1>2, CallFacts DEF DeviceInv, ReadsInside, TypeOK
<1>7. WritesFit'
  BY <1>1, <1>2 DEF DeviceInv, WritesFit, TypeOK
<1>8. WriteUndisturbed'
  BY <1>1, <1>2 DEF DeviceInv, WriteUndisturbed, Alone, TypeOK
<1>9. TextReached'
  BY <1>1, <1>2 DEF DeviceInv, TextReached, Solid, TypeOK
<1> QED
  BY <1>4, <1>5, <1>6, <1>7, <1>8, <1>9 DEF DeviceInv

LEMMA ReadStep ==
  ASSUME DeviceInv, NEW f \in users, NEW n \in 0..MaxCount, NEW window,
         ReadBegin(f, n, window), WindowOf(window)
  PROVE  DeviceInv'
<1> USE CharDeviceAssumption
<1>1. f \in Files /\ TypeOK
  BY DEF DeviceInv, TypeOK
<1> DEFINE m == Clipped(n, window - off[f])
<1>2. /\ op' = [op EXCEPT ![f] = Reading(m)] /\ op[f].kind = "idle"
      /\ UNCHANGED <<drv, users, fits, plain, buffer, off>>
  BY DEF ReadBegin, Idle
<1>3. off[f] \in Nat
  BY <1>1 DEF TypeOK
<1>4. Strlen \in 0..Size /\ \A k \in Nat : k <= Strlen <=> Solid(k)
  BY <1>1, StrlenIs DEF TypeOK
<1>5. window \in 0..Size
  BY <1>4 DEF WindowOf
<1>6. m \in 0..MaxCount /\ (off[f] <= window => off[f] + m <= window)
  BY <1>3, <1>5 DEF Clipped
<1>7. /\ op'[f].kind = "read" /\ op'[f].n = m /\ op'[f].done = 0
      /\ \A g \in Files : g # f => op'[g] = op[g]
  BY <1>1, <1>2 DEF Reading, TypeOK
<1>8. TypeOK'
  <2>1. Reading(m) \in Calls
    BY <1>6 DEF Calls
  <2> HIDE DEF m
  <2>2. op' \in [Files -> Calls]
    BY <1>1, <1>2, <2>1 DEF TypeOK
  <2>3. \A g \in Files : op'[g].done <= op'[g].n
    BY <1>1, <1>6, <1>7 DEF TypeOK
  <2> QED
    BY <1>1, <1>2, <2>2, <2>3 DEF TypeOK
<1> HIDE DEF m
<1>9. Terminated' /\ WritesFit'
  BY <1>1, <1>2, <1>7 DEF DeviceInv, Terminated, WritesFit
<1>10. ReadsInside'
  <2> SUFFICES ASSUME drv \in BufferDrivers, NEW g \in Files
               PROVE  off[g] + op'[g].n <= Size
    BY <1>2 DEF ReadsInside
  <2>1. off[g] + op[g].n <= Size /\ op[g].n \in Nat /\ off[g] \in Nat
    BY <1>1, CallFacts DEF DeviceInv, ReadsInside
  <2>2. window = Size
    BY DEF WindowOf, BufferDrivers, TextDrivers
  <2> QED
    BY <1>6, <1>7, <2>1, <2>2
<1>11. WriteUndisturbed'
  BY <1>1, <1>2, <1>7 DEF DeviceInv, WriteUndisturbed, Alone
<1>12. TextReached'
  <2> SUFFICES ASSUME drv \in TextDrivers, fits, plain, users = {f}
               PROVE  Solid(off[f]) /\ Solid(off[f] + m)
    BY <1>2, <1>7 DEF TextReached, Solid
  <2>1. Solid(off[f])
    BY <1>1 DEF DeviceInv, TextReached
  <2>2. off[f] <= window /\ window = Strlen
    BY <1>3, <1>4, <2>1 DEF WindowOf, BufferDrivers, TextDrivers
  <2> QED
    BY <1>3, <1>4, <1>6, <2>1, <2>2
<1> QED
  BY <1>8, <1>9, <1>10, <1>11, <1>12 DEF DeviceInv

LEMMA ReadEndStep ==
  ASSUME DeviceInv, NEW f \in users, ReadEnd(f)
  PROVE  DeviceInv'
<1> USE CharDeviceAssumption
<1>1. f \in Files /\ TypeOK
  BY DEF DeviceInv, TypeOK
<1>2. /\ off' = [off EXCEPT ![f] = @ + op[f].n] /\ op' = [op EXCEPT ![f] = Idle]
      /\ op[f].kind = "read" /\ UNCHANGED <<drv, users, fits, plain, buffer>>
  BY DEF ReadEnd
<1>3. op[f].n \in 0..MaxCount /\ off[f] \in Nat
  BY <1>1, CallFacts
<1>4. /\ off'[f] = off[f] + op[f].n
      /\ op'[f] = Idle /\ op'[f].kind = "idle" /\ op'[f].n = 0 /\ op'[f].done = 0
      /\ \A g \in Files : g # f => off'[g] = off[g] /\ op'[g] = op[g]
  BY <1>1, <1>2 DEF TypeOK, Idle
<1>5. TypeOK'
  <2>1. off' \in [Files -> Nat]
    BY <1>1, <1>2, <1>3 DEF TypeOK
  <2>2. op' \in [Files -> Calls]
    BY <1>1, <1>2 DEF TypeOK, Calls
  <2>3. \A g \in Files : op'[g].done <= op'[g].n
    BY <1>1, <1>4 DEF TypeOK
  <2> QED
    BY <1>1, <1>2, <2>1, <2>2, <2>3 DEF TypeOK
<1>6. Terminated' /\ WritesFit'
  BY <1>1, <1>2, <1>4 DEF DeviceInv, Terminated, WritesFit
<1>7. ReadsInside'
  BY <1>1, <1>2, <1>3, <1>4 DEF DeviceInv, ReadsInside
<1>8. WriteUndisturbed'
  BY <1>1, <1>2, <1>4 DEF DeviceInv, WriteUndisturbed, Alone
<1>9. TextReached'
  BY <1>1, <1>2, <1>4 DEF DeviceInv, TextReached, Solid
<1> QED
  BY <1>5, <1>6, <1>7, <1>8, <1>9 DEF DeviceInv

LEMMA ReadFaultStep ==
  ASSUME DeviceInv, NEW f \in users, ReadFault(f)
  PROVE  DeviceInv'
<1> USE CharDeviceAssumption
<1>1. f \in Files /\ TypeOK
  BY DEF DeviceInv, TypeOK
<1>2. op' = [op EXCEPT ![f] = Idle] /\ UNCHANGED <<drv, users, fits, plain, buffer, off>>
  BY DEF ReadFault
<1>3. op[f].n \in 0..MaxCount /\ off[f] \in Nat
  BY <1>1, CallFacts
<1>4. /\ op'[f] = Idle /\ op'[f].kind = "idle" /\ op'[f].n = 0 /\ op'[f].done = 0
      /\ \A g \in Files : g # f => op'[g] = op[g]
  BY <1>1, <1>2 DEF TypeOK, Idle
<1>5. TypeOK'
  <2>1. op' \in [Files -> Calls]
    BY <1>1, <1>2 DEF TypeOK, Calls
  <2>2. \A g \in Files : op'[g].done <= op'[g].n
    BY <1>1, <1>4 DEF TypeOK
  <2> QED
    BY <1>1, <1>2, <2>1, <2>2 DEF TypeOK
<1>6. Terminated' /\ WritesFit'
  BY <1>1, <1>2, <1>4 DEF DeviceInv, Terminated, WritesFit
<1>7. ReadsInside'
  BY <1>1, <1>2, <1>3, <1>4 DEF DeviceInv, ReadsInside
<1>8. WriteUndisturbed'
  BY <1>1, <1>2, <1>4 DEF DeviceInv, WriteUndisturbed, Alone
<1>9. TextReached'
  BY <1>1, <1>2, <1>4 DEF DeviceInv, TextReached, Solid
<1> QED
  BY <1>5, <1>6, <1>7, <1>8, <1>9 DEF DeviceInv

\* The NUL of a refused write: it can only end the text earlier, and the only
\* user of the device is not in the middle of a write then.
LEMMA WriteRefusedStep ==
  ASSUME DeviceInv, NEW f \in users, NEW n \in 0..MaxCount, WriteRefused(f, n)
  PROVE  DeviceInv'
<1> USE CharDeviceAssumption
<1>1. f \in Files /\ TypeOK
  BY DEF DeviceInv, TypeOK
<1>2. /\ buffer' = Stored(buffer, off[f] - EIO, NUL) /\ ~fits /\ op[f].kind = "idle"
      /\ UNCHANGED <<drv, users, fits, plain, off, op>>
  BY DEF WriteRefused, Idle
<1>3. buffer' \in [0..(Size - 1) -> Chars \cup {NUL}]
  BY <1>1, <1>2 DEF TypeOK, Stored
<1>4. TypeOK'
  BY <1>1, <1>2, <1>3 DEF TypeOK
<1>5. Terminated'
  BY <1>1, <1>2 DEF DeviceInv, TypeOK, Terminated, Stored
<1>6. ReadsInside' /\ WritesFit'
  BY <1>2 DEF DeviceInv, ReadsInside, WritesFit
<1>7. WriteUndisturbed'
  BY <1>1, <1>2 DEF WriteUndisturbed, Alone
<1>8. TextReached'
  BY <1>2 DEF TextReached
<1> QED
  BY <1>4, <1>5, <1>6, <1>7, <1>8 DEF DeviceInv

LEMMA WriteBeginStep ==
  ASSUME DeviceInv, NEW f \in users, NEW n \in 0..MaxCount, WriteBegin(f, n)
  PROVE  DeviceInv'
<1> USE CharDeviceAssumption
<1>1. f \in Files /\ TypeOK
  BY DEF DeviceInv, TypeOK
<1>2. /\ buffer' = Stored(buffer, off[f] + n, NUL) /\ op' = [op EXCEPT ![f] = Writing(n, 0)]
      /\ n > 0 /\ op[f].kind = "idle" /\ op[f].n = 0
      /\ UNCHANGED <<drv, users, fits, plain, off>>
  BY DEF WriteBegin, Idle
<1>3. off[f] \in Nat
  BY <1>1, CallFacts
<1>4. off[f] + n < Size \/ Size < off[f]
  BY <1>3 DEF WriteBegin, Refused
<1>5. /\ op'[f].kind = "write" /\ op'[f].n = n /\ op'[f].done = 0
      /\ \A g \in Files : g # f => op'[g] = op[g]
  BY <1>1, <1>2 DEF TypeOK, Writing
<1>6. /\ buffer' \in [0..(Size - 1) -> Chars \cup {NUL}]
      /\ \A i \in 0..(Size - 1) : buffer'[i] = IF i = off[f] + n THEN NUL ELSE buffer[i]
  BY <1>1, <1>2 DEF TypeOK, Stored
<1>7. TypeOK'
  <2>1. Writing(n, 0) \in Calls
    BY <1>2 DEF Calls
  <2>2. op' \in [Files -> Calls]
    BY <1>1, <1>2, <2>1 DEF TypeOK
  <2>3. \A g \in Files : op'[g].done <= op'[g].n
    BY <1>1, <1>2, <1>5 DEF TypeOK
  <2> QED
    BY <1>1, <1>2, <1>6, <2>2, <2>3 DEF TypeOK
<1>8. Terminated'
  BY <1>6 DEF DeviceInv, Terminated
<1>9. WritesFit'
  BY <1>1, <1>2, <1>4, <1>5 DEF DeviceInv, WritesFit
<1>10. ASSUME Alone(f)
       PROVE  off[f] <= Size
  <2>1. CASE drv \in BufferDrivers
    BY <1>1, <1>2, <1>3, <2>1 DEF DeviceInv, ReadsInside
  <2>2. CASE drv \in TextDrivers /\ fits /\ plain
    BY <1>1, <1>10, <2>2 DEF DeviceInv, TextReached, Solid, Alone
  <2> QED
    BY <1>1, <1>10, <2>1, <2>2 DEF Alone, TypeOK
<1>11. ReadsInside'
  <2> SUFFICES ASSUME drv \in BufferDrivers, NEW g \in Files
               PROVE  off[g] + op'[g].n <= Size
    BY <1>2 DEF ReadsInside
  <2>1. off[g] + op[g].n <= Size
    BY DEF DeviceInv, ReadsInside
  <2> QED
    BY <1>2, <1>3, <1>4, <1>5, <2>1
<1>12. WriteUndisturbed'
  <2> SUFFICES ASSUME Alone(f)
               PROVE  off[f] + n < Size /\ buffer'[off[f] + n] = NUL
    BY <1>1, <1>2, <1>3, <1>5 DEF WriteUndisturbed, Alone
  <2>1. off[f] + n < Size
    BY <1>3, <1>4, <1>10
  <2> QED
    BY <1>3, <1>6, <2>1
<1>13. TextReached'
  <2> SUFFICES ASSUME drv \in TextDrivers, fits, plain, users = {f}
               PROVE  Solid(off[f])'
    BY <1>2, <1>5 DEF TextReached
  <2>1. Solid(off[f])
    BY <1>1 DEF DeviceInv, TextReached
  <2>2. \A i \in 0..(off[f] - 1) : i \in 0..(Size - 1) /\ i # off[f] + n
    BY <1>2, <1>3, <2>1 DEF Solid
  <2>3. \A i \in 0..(off[f] - 1) : buffer'[i] # NUL
    BY <1>6, <2>1, <2>2 DEF Solid
  <2> QED
    BY <1>2, <2>1, <2>3 DEF Solid
<1> QED
  BY <1>7, <1>8, <1>9, <1>11, <1>12, <1>13 DEF DeviceInv

LEMMA WriteByteStep ==
  ASSUME DeviceInv, NEW f \in users, NEW c \in Chars \cup {NUL}, WriteByte(f, c)
  PROVE  DeviceInv'
<1> USE CharDeviceAssumption
<1>1. f \in Files /\ TypeOK
  BY DEF DeviceInv, TypeOK
<1> DEFINE k == op[f].done
<1>2. /\ buffer' = Stored(buffer, off[f] + k, c) /\ op' = [op EXCEPT ![f].done = k + 1]
      /\ op[f].kind = "write" /\ k < op[f].n
      /\ plain => c # NUL
      /\ UNCHANGED <<drv, users, fits, plain, off>>
  BY DEF WriteByte
<1>3. off[f] \in Nat /\ k \in Nat /\ op[f].n \in 1..MaxCount
  BY <1>1, <1>2, CallFacts
<1>4. op[f] = Writing(op[f].n, k)
  BY <1>1, <1>2 DEF TypeOK, Calls, Idle, Reading, Writing
<1>5. op'[f] = Writing(op[f].n, k + 1) /\ \A g \in Files : g # f => op'[g] = op[g]
  BY <1>1, <1>2, <1>4 DEF TypeOK, Writing
<1>6. /\ op'[f].kind = "write" /\ op'[f].n = op[f].n /\ op'[f].done = k + 1
      /\ \A g \in Files : op'[g].kind = op[g].kind /\ op'[g].n = op[g].n
  BY <1>2, <1>5 DEF Writing
<1>7. /\ buffer' \in [0..(Size - 1) -> Chars \cup {NUL}]
      /\ \A i \in 0..(Size - 1) : buffer'[i] = IF i = off[f] + k THEN c ELSE buffer[i]
  BY <1>1, <1>2 DEF TypeOK, Stored
<1>8. off[f] + op[f].n < Size \/ Size < off[f]
  BY <1>1, <1>2 DEF DeviceInv, WritesFit
<1> HIDE DEF k
<1>9. TypeOK'
  <2>1. Writing(op[f].n, k + 1) \in Calls
    BY <1>2, <1>3 DEF Calls
  <2>2. op' \in [Files -> Calls]
    BY <1>1, <1>2, <1>5, <2>1 DEF TypeOK
  <2>3. \A g \in Files : op'[g].done <= op'[g].n
    BY <1>1, <1>2, <1>3, <1>5, <1>6 DEF TypeOK
  <2> QED
    BY <1>1, <1>2, <1>7, <2>2, <2>3 DEF TypeOK
<1>10. Terminated'
  BY <1>2, <1>3, <1>7, <1>8 DEF DeviceInv, Terminated
<1>11. ReadsInside' /\ WritesFit'
  BY <1>2, <1>6 DEF DeviceInv, ReadsInside, WritesFit
<1>12. WriteUndisturbed'
  <2> SUFFICES ASSUME Alone(f)
               PROVE  /\ off[f] + op[f].n < Size
                      /\ plain => \A i \in off[f]..(off[f] + k) : buffer'[i] # NUL
                      /\ buffer'[off[f] + op[f].n] = NUL
    BY <1>1, <1>2, <1>3, <1>6 DEF WriteUndisturbed, Alone
  <2>1. /\ off[f] + op[f].n < Size
        /\ plain => \A i \in off[f]..(off[f] + k - 1) : buffer[i] # NUL
        /\ buffer[off[f] + op[f].n] = NUL
    BY <1>1, <1>2 DEF DeviceInv, WriteUndisturbed, k
  <2>2. \A i \in off[f]..(off[f] + k) : i \in 0..(Size - 1) /\ (i = off[f] + k \/ i \in off[f]..(off[f] + k - 1))
    BY <1>2, <1>3, <2>1
  <2>3. ASSUME plain, NEW i \in off[f]..(off[f] + k)
        PROVE  buffer'[i] # NUL
    BY <1>2, <1>7, <2>1, <2>2, <2>3
  <2>4. buffer'[off[f] + op[f].n] = NUL
    <3> DEFINE e == off[f] + op[f].n
    <3>1. e \in 0..(Size - 1) /\ e # off[f] + k
      BY <1>2, <1>3, <2>1
    <3>2. buffer'[e] = buffer[e]
      BY <1>7, <3>1
    <3> QED
      BY <2>1, <3>2
  <2> QED
    BY <2>1, <2>3, <2>4
<1>13. TextReached'
  <2> SUFFICES ASSUME drv \in TextDrivers, fits, plain, users = {f}
               PROVE  Solid(off[f])'
    BY <1>2, <1>6 DEF TextReached
  <2>1. off[f] <= Size /\ \A i \in 0..(off[f] - 1) : buffer[i] # NUL
    BY <1>1 DEF DeviceInv, TextReached, Solid
  <2>2. off' = off /\ c # NUL
    BY <1>2
  <2>3. \A i \in 0..(off[f] - 1) : i \in 0..(Size - 1) /\ buffer'[i] # NUL
    BY <1>3, <1>7, <2>1, <2>2
  <2> QED
    BY <2>1, <2>2, <2>3 DEF Solid
<1> QED
  BY <1>9, <1>10, <1>11, <1>12, <1>13 DEF DeviceInv

LEMMA WriteEndStep ==
  ASSUME DeviceInv, NEW f \in users, WriteEnd(f)
  PROVE  DeviceInv'
<1> USE CharDeviceAssumption
<1>1. f \in Files /\ TypeOK
  BY DEF DeviceInv, TypeOK
<1>2. /\ off' = [off EXCEPT ![f] = @ + op[f].n] /\ op' = [op EXCEPT ![f] = Idle]
      /\ op[f].kind = "write" /\ op[f].done = op[f].n /\ UNCHANGED <<drv, users, fits, plain, buffer>>
  BY DEF WriteEnd
<1>3. op[f].n \in 1..MaxCount /\ off[f] \in Nat
  BY <1>1, <1>2, CallFacts
<1>4. /\ off'[f] = off[f] + op[f].n
      /\ op'[f] = Idle /\ op'[f].kind = "idle" /\ op'[f].n = 0 /\ op'[f].done = 0
      /\ \A g \in Files : g # f => off'[g] = off[g] /\ op'[g] = op[g]
  BY <1>1, <1>2 DEF TypeOK, Idle
<1>5. TypeOK'
  <2>1. off' \in [Files -> Nat]
    BY <1>1, <1>2, <1>3 DEF TypeOK
  <2>2. op' \in [Files -> Calls]
    BY <1>1, <1>2 DEF TypeOK, Calls
  <2>3. \A g \in Files : op'[g].done <= op'[g].n
    BY <1>1, <1>4 DEF TypeOK
  <2> QED
    BY <1>1, <1>2, <2>1, <2>2, <2>3 DEF TypeOK
<1>6. Terminated' /\ WritesFit'
  BY <1>1, <1>2, <1>4 DEF DeviceInv, Terminated, WritesFit
<1>7. ReadsInside'
  BY <1>1, <1>2, <1>3, <1>4 DEF DeviceInv, ReadsInside
<1>8. WriteUndisturbed'
  BY <1>1, <1>2, <1>4 DEF DeviceInv, WriteUndisturbed, Alone
<1>9. TextReached'
  <2> SUFFICES ASSUME drv \in TextDrivers, fits, plain, users = {f}
               PROVE  Solid(off[f] + op[f].n)
    BY <1>2, <1>4 DEF TextReached, Solid
  <2>1. Solid(off[f])
    BY <1>1 DEF DeviceInv, TextReached
  <2>2. /\ off[f] + op[f].n < Size
        /\ \A i \in off[f]..(off[f] + op[f].n - 1) : buffer[i] # NUL
    BY <1>1, <1>2 DEF DeviceInv, WriteUndisturbed, Alone
  <2> QED
    BY <1>3, <2>1, <2>2 DEF Solid
<1> QED
  BY <1>5, <1>6, <1>7, <1>8, <1>9 DEF DeviceInv

LEMMA WriteFaultStep ==
  ASSUME DeviceInv, NEW f \in users, WriteFault(f)
  PROVE  DeviceInv'
<1> USE CharDeviceAssumption
<1>1. f \in Files /\ TypeOK
  BY DEF DeviceInv, TypeOK
<1>2. /\ op' = [op EXCEPT ![f] = Idle] /\ op[f].kind = "write" /\ op[f].done < op[f].n
      /\ UNCHANGED <<drv, users, fits, plain, off>>
  BY DEF WriteFault
<1>3. op[f].n \in 1..MaxCount /\ off[f] \in Nat /\ op[f].done \in Nat
  BY <1>1, <1>2, CallFacts
<1>4. /\ op'[f] = Idle /\ op'[f].kind = "idle" /\ op'[f].n = 0 /\ op'[f].done = 0
      /\ \A g \in Files : g # f => op'[g] = op[g]
  BY <1>1, <1>2 DEF TypeOK, Idle
<1>5. /\ buffer' \in [0..(Size - 1) -> Chars \cup {NUL}]
      /\ \A i \in 0..(Size - 1) : buffer'[i] = NUL \/ (buffer'[i] = buffer[i])
      /\ \A i \in 0..(Size - 1) : i < off[f] => buffer'[i] = buffer[i]
  BY <1>1, <1>3 DEF WriteFault, TypeOK
<1>6. TypeOK'
  <2>1. op' \in [Files -> Calls]
    BY <1>1, <1>2 DEF TypeOK, Calls
  <2>2. \A g \in Files : op'[g].done <= op'[g].n
    BY <1>1, <1>4 DEF TypeOK
  <2> QED
    BY <1>1, <1>2, <1>5, <2>1, <2>2 DEF TypeOK
<1>7. Terminated' /\ WritesFit'
  BY <1>1, <1>2, <1>4, <1>5 DEF DeviceInv, Terminated, WritesFit
<1>8. ReadsInside'
  BY <1>1, <1>2, <1>3, <1>4 DEF DeviceInv, ReadsInside
<1>9. WriteUndisturbed'
  BY <1>1, <1>2, <1>4 DEF DeviceInv, WriteUndisturbed, Alone
<1>10. TextReached'
  <2> SUFFICES ASSUME drv \in TextDrivers, fits, plain, users = {f}
               PROVE  Solid(off[f])'
    BY <1>2, <1>4 DEF TextReached
  <2>1. Solid(off[f])
    BY <1>1 DEF DeviceInv, TextReached
  <2> QED
    BY <1>2, <1>3, <1>5, <2>1 DEF Solid
<1> QED
  BY <1>6, <1>7, <1>8, <1>9, <1>10 DEF DeviceInv

\* Whichever driver it is, a call begins with a step of the lemmas above.
LEMMA CallingCases ==
  ASSUME NEW f, NEW n, Calling(f, n)
  PROVE  \/ Open(f) \/ WriteRefused(f, n) \/ WriteBegin(f, n)
         \/ \E window : ReadBegin(f, n, window) /\ WindowOf(window)
BY DEF Calling, Drv02, Drv03, Drv05_1, Drv06, Drv06_1, Sample06_2, Sample06_3, Write,
       WindowOf, BufferDrivers, TextDrivers

LEMMA DeviceStep == DeviceInv /\ [Next]_vars => DeviceInv'
<1>1. DeviceInv /\ UNCHANGED vars => DeviceInv'
  BY DEF vars, DeviceInv, TypeOK, Terminated, ReadsInside, WritesFit, WriteUndisturbed,
         TextReached, Alone, Solid
<1>2. ASSUME DeviceInv, NEW f \in users, NEW n \in 0..MaxCount, Calling(f, n)
      PROVE  DeviceInv'
  BY <1>2, CallingCases, OpenStep, ReadStep, WriteRefusedStep, WriteBeginStep
<1>3. DeviceInv /\ Next => DeviceInv'
  BY <1>2, ReadEndStep, ReadFaultStep, WriteByteStep, WriteEndStep, WriteFaultStep DEF Next
<1> QED
  BY <1>1, <1>3

-----------------------------------------------------------------------------

\* However many files read and write one minor at the same time, whatever is
\* refused or faults, the text ends inside the buffer of skeleton_write.
THEOREM TextTerminated == Spec => []Terminated
<1>1. DeviceInv => Terminated
  BY DEF DeviceInv
<1> QED
  BY DeviceInit, DeviceStep, <1>1, PTL DEF Spec

\* The unsigned comparison of skeleton_read is good enough when the window is
\* the whole buffer: no read leaves it (exercice02, 03 and 05.1).
THEOREM ReadsStayInside == Spec => []ReadsInside
<1>1. DeviceInv => ReadsInside
  BY DEF DeviceInv
<1> QED
  BY DeviceInit, DeviceStep, <1>1, PTL DEF Spec

\* With the text as the window (exercice06 and 06.1, sample06.2 and 06.3) a file
\* that is alone and writes nothing but text that fits stays within the text.
THEOREM TextEndsReads == Spec => []EndOfText
<1>1. DeviceInv => EndOfText
  BY EndOfTextIsTextReached DEF DeviceInv
<1> QED
  BY DeviceInit, DeviceStep, <1>1, PTL DEF Spec

\* A completed write of the only user is in the buffer, ended where it ends.
THEOREM WritesEndTheText == Spec => NoStaleTail
<1> DEFINE Landed(f) ==
      /\ users = {f} /\ (drv \in BufferDrivers \/ (fits /\ plain))
      /\ op[f].kind = "write" /\ off'[f] > off[f]
      => /\ plain => \A i \in off[f]..(off'[f] - 1) : buffer'[i] # NUL
         /\ buffer'[off'[f]] = NUL
<1>1. DeviceInv /\ [Next]_vars => [\A f \in Files : Landed(f)]_vars
  <2> SUFFICES ASSUME DeviceInv, Next, NEW f \in Files, Alone(f), op[f].kind = "write", off'[f] > off[f]
               PROVE  /\ plain => \A i \in off[f]..(off'[f] - 1) : buffer'[i] # NUL
                      /\ buffer'[off'[f]] = NUL
    BY DEF Alone
  <2>1. TypeOK /\ op[f] # Idle /\ off[f] \in Nat /\ op[f].done \in Nat
    BY CallFacts, CharDeviceAssumption DEF DeviceInv, Idle
  <2>2. WriteEnd(f)
    <3>1. f \in users /\ \A g \in users : g = f
      BY DEF Alone
    <3>2. off' # off
      BY <2>1
    <3> QED
      BY <2>1, <3>1, <3>2, CallingCases
      DEF Next, Open, ReadBegin, ReadEnd, ReadFault, WriteRefused, WriteBegin, WriteByte, WriteFault
  <2>3. off'[f] = off[f] + op[f].n /\ op[f].done = op[f].n /\ buffer' = buffer
    BY <2>1, <2>2 DEF WriteEnd, TypeOK
  <2>4. /\ plain => \A i \in off[f]..(off[f] + op[f].done - 1) : buffer[i] # NUL
        /\ buffer[off[f] + op[f].n] = NUL
    BY DEF DeviceInv, WriteUndisturbed
  <2>5. off[f] + op[f].done = off'[f] /\ off[f] + op[f].n = off'[f]
    BY <2>3
  <2>6. plain => \A i \in off[f]..(off'[f] - 1) : buffer'[i] # NUL
    <3>1. plain => \A i \in off[f]..(off'[f] - 1) : buffer[i] # NUL
      BY <2>1, <2>4, <2>5
    <3> QED
      BY <2>3, <3>1, Zenon
  <2>7. buffer'[off'[f]] = NUL
    BY <2>3, <2>4, <2>5, Zenon
  <2> QED
    BY <2>6, <2>7
<1> QED
  BY DeviceInit, DeviceStep, <1>1, PTL DEF Spec, NoStaleTail
=============================================================================
