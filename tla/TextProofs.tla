-------------------------- MODULE TextProofs --------------------------
(***************************************************************************)
(* What TLAPS proves of what is read and written as text: the attributes   *)
(* and the entries of procfs, for any number of processes and any size.    *)
(***************************************************************************)
EXTENDS Programs, SequenceTheorems, TLAPS

-----------------------------------------------------------------------------
(* The attributes *)

Bytes == Procs \union {Junk, 0}

Calls == [op : {"idle", "store", "show"}, text : Seq(Bytes), used : Nat, done : Nat,
          shown : Seq(Bytes), clean : BOOLEAN, base : Seq(Bytes)]

\* A call is inside its text, and what it has shown inside the attribute.  A structure
\* comes whole, a configuration has one word of Junk at most, the words of a string are
\* none of them NUL, and only a string is taken in pieces, each but the last one as long as
\* there is room for.
Inside(d) ==
  /\ d.used <= Len(d.text) /\ Len(d.shown) <= Attr!Width
  /\ attr = "ref" /\ d.op = "store" => Len(d.text) = 3
  /\ attr = "cfg" => \A i, j \in 1..Len(d.text) : d.text[i] = Junk /\ d.text[j] = Junk => i = j
  /\ attr # "string" => d.used = 0
  /\ attr = "string" =>
       /\ \A i \in 1..Len(d.text) : d.text[i] # 0
       /\ \A i \in 1..Len(d.shown) : d.shown[i] = 0 => i = Len(d.shown)
       /\ Len(d.shown) = Size => d.shown[Size] = 0
       /\ d.op = "store" => d.used < Len(d.text) /\ \E m \in Nat : d.used = m * (Size - 1)

\* The last byte of a string's buffer is never anything but NUL; so whoever has copied as
\* many bytes as the buffer has, has found one.
AttrTyped ==
  /\ attr \in Attr!Attrs
  /\ value \in Seq(Bytes) /\ Len(value) = Attr!Width
  /\ attr = "string" => value[Size] = 0
  /\ call \in [Procs -> Calls]
  /\ \A p \in Procs : Inside(call[p])

\* A store has put into the slots it has done what its piece says ...
Stored(p) ==
  /\ call[p].done <= Len(Attr!Args(p))
  /\ \A i \in 1..call[p].done : value[i] = Attr!Args(p)[i]
  /\ Len(call[p].base) = Attr!Width
  /\ call[p].used = 0 => \A i \in 1..Attr!Width : i > call[p].done => value[i] = call[p].base[i]

\* ... and a show has found what is there, if no other store has come between.
Undisturbed(p) ==
  call[p].op # "idle" /\ call[p].clean =>
    /\ \A q \in Procs \ {p} : call[q].op # "store"
    /\ call[p].op = "store" => Stored(p)
    /\ call[p].op = "show" => \A i \in 1..Len(call[p].shown) : call[p].shown[i] = value[i]

AttrInv == AttrTyped /\ \A p \in Procs : Undisturbed(p)

LEMMA Widths ==
  ASSUME Attr!AttributesAssumption, attr \in Attr!Attrs
  PROVE  /\ Attr!Width \in Nat /\ Attr!Width >= 1 /\ Attr!Slots = 1..Attr!Width
         /\ attr = "string" => Attr!Width = Size
         /\ attr \in {"cfg", "ref"} => Attr!Width = 3
         /\ attr \in {"val", "checked"} => Attr!Width = 1
BY DEF Attr!AttributesAssumption, Attr!Attrs, Attr!Width, Attr!Slots

\* The beginning of a text.
LEMMA Beginning ==
  ASSUME NEW s \in Seq(Bytes), NEW n \in Nat
  PROVE  /\ Attr!First(s, n) \in Seq(Bytes)
         /\ Len(Attr!First(s, n)) = IF n < Len(s) THEN n ELSE Len(s)
         /\ \A i \in 1..Len(Attr!First(s, n)) : Attr!First(s, n)[i] = s[i]
<1> DEFINE l == Attr!Least(n, Len(s))
<1>1. l \in Nat /\ l <= Len(s) /\ l = IF n < Len(s) THEN n ELSE Len(s)
  BY DEF Attr!Least
<1> HIDE DEF l
<1>2. \A i \in 1..l : s[i] \in Bytes
  BY <1>1
<1>3. /\ SubSeq(s, 1, l) \in Seq(Bytes) /\ Len(SubSeq(s, 1, l)) = l
      /\ \A i \in 1..l : SubSeq(s, 1, l)[i] = s[i]
  BY <1>1, <1>2
<1>4. Attr!First(s, n) = SubSeq(s, 1, l)
  BY DEF Attr!First, l
<1> QED
  BY <1>1, <1>3, <1>4

\* What a piece of a text becomes: no longer than the attribute, and of a string the NUL
\* is last.
LEMMA ParsedText ==
  ASSUME Attr!AttributesAssumption, attr \in Attr!Attrs, NEW s \in Seq(Bytes),
         attr = "ref" => Len(s) = 3
  PROVE  /\ Attr!Taken(s) \in Nat /\ Attr!Taken(s) <= Len(s)
         /\ attr # "string" => Attr!Taken(s) = Len(s)
         /\ Attr!Parsed(s) \in Seq(Bytes) /\ Len(Attr!Parsed(s)) <= Attr!Width
         /\ attr = "string" =>
              /\ Attr!Taken(s) = IF Size - 1 < Len(s) THEN Size - 1 ELSE Len(s)
              /\ Len(Attr!Parsed(s)) = Attr!Taken(s) + 1
              /\ Attr!Parsed(s)[Attr!Taken(s) + 1] = 0
              /\ \A i \in 1..Attr!Taken(s) : Attr!Parsed(s)[i] = s[i]
<1>1. Len(s) \in Nat /\ Size \in Nat /\ Size > 1
  BY DEF Attr!AttributesAssumption
<1>2. CASE attr = "string"
  <2> DEFINE n == Attr!Taken(s)
             piece == Attr!First(s, n)
  <2>1. /\ n \in Nat /\ n <= Len(s) /\ n <= Size - 1
        /\ n = IF Size - 1 < Len(s) THEN Size - 1 ELSE Len(s)
    BY <1>1, <1>2 DEF Attr!Taken, Attr!Least
  <2>2. Attr!Parsed(s) = Append(piece, 0)
    BY <1>2 DEF Attr!Parsed, Attr!StoreString
  <2> HIDE DEF n
  <2>3. piece \in Seq(Bytes) /\ Len(piece) = n /\ \A i \in 1..n : piece[i] = s[i]
    BY <1>1, <2>1, Beginning
  <2> HIDE DEF piece
  <2>4. /\ Append(piece, 0) \in Seq(Bytes) /\ Len(Append(piece, 0)) = n + 1
        /\ Append(piece, 0)[n + 1] = 0 /\ \A i \in 1..n : Append(piece, 0)[i] = s[i]
    BY <2>1, <2>3 DEF Bytes
  <2>5. n + 1 <= Attr!Width
    BY <1>1, <1>2, <2>1, Widths
  <2> QED
    BY <1>2, <2>1, <2>2, <2>4, <2>5 DEF n
<1>3. CASE attr # "string"
  <2>1. Attr!Taken(s) = Len(s)
    BY <1>3 DEF Attr!Taken
  <2>2. CASE attr = "val"
    <3>1. Attr!Parsed(s) = <<IF s # <<>> /\ s[1] # Junk THEN s[1] ELSE 0>>
      BY <2>2 DEF Attr!Parsed, Attr!StoreVal, Attr!IsNumber
    <3>2. (IF s # <<>> /\ s[1] # Junk THEN s[1] ELSE 0) \in Bytes
      BY DEF Bytes
    <3>3. Attr!Width = 1
      BY <2>2, Widths
    <3> QED
      BY <1>1, <1>3, <2>1, <3>1, <3>2, <3>3
  <2>3. CASE attr = "checked"
    <3>1. (Attr!Parsed(s) = s /\ Len(s) = 1) \/ Attr!Parsed(s) = <<>>
      BY <2>3 DEF Attr!Parsed, Attr!StoreChecked
    <3>2. Attr!Width = 1
      BY <2>3, Widths
    <3>3. <<>> \in Seq(Bytes) /\ Len(<<>>) = 0
      BY EmptySeq
    <3>4. CASE Attr!Parsed(s) = <<>>
      BY <1>3, <2>1, <3>2, <3>3, <3>4
    <3>5. CASE Attr!Parsed(s) = s /\ Len(s) = 1
      BY <1>3, <2>1, <3>2, <3>5
    <3> QED
      BY <3>1, <3>4, <3>5
  <2>4. CASE attr = "cfg"
    <3>1. PICK n \in {0, 1, Attr!Width} : Attr!Parsed(s) = Attr!First(s, n)
      BY <2>4 DEF Attr!Parsed, Attr!StoreCfg
    <3>2. n \in Nat /\ n <= Attr!Width /\ Attr!Width \in Nat
      BY Widths
    <3> QED
      BY <1>1, <1>3, <2>1, <3>1, <3>2, Beginning
  <2>5. CASE attr = "ref"
    <3>1. Attr!Parsed(s) = s /\ Attr!Width = 3
      BY <2>5, Widths DEF Attr!Parsed
    <3> QED
      BY <1>1, <1>3, <2>1, <2>5, <3>1
  <2> QED
    BY <1>3, <2>2, <2>3, <2>4, <2>5 DEF Attr!Attrs
<1> QED
  BY <1>2, <1>3

\* What p has left to store.
LEMMA Rests ==
  ASSUME Attr!AttributesAssumption, AttrTyped, NEW p \in Procs
  PROVE  /\ Attr!Rest(p) \in Seq(Bytes) /\ Len(Attr!Rest(p)) = Len(call[p].text) - call[p].used
         /\ \A i \in 1..Len(Attr!Rest(p)) : Attr!Rest(p)[i] = call[p].text[call[p].used + i]
         /\ attr # "string" => Attr!Rest(p) = call[p].text
<1> DEFINE text == call[p].text
           used == call[p].used
           m == used + 1
           l == Len(text)
<1>1. text \in Seq(Bytes) /\ used \in Nat /\ used <= l /\ l \in Nat /\ (attr # "string" => used = 0)
  BY DEF AttrTyped, Inside, Calls
<1>2. Attr!Rest(p) = SubSeq(text, m, l)
  BY DEF Attr!Rest
<1>3. m \in Int /\ l \in Int /\ \A i \in m..l : text[i] \in Bytes
  BY <1>1
<1> DEFINE r == SubSeq(text, m, l)
<1>4. SubSeq(text, 1, l) = text
  BY <1>1, SubSeqFull
<1>5. attr # "string" => r = text
  BY <1>1, <1>4
<1>6. m = used + 1
  OBVIOUS
<1> HIDE DEF m, l
<1>7. /\ r \in Seq(Bytes) /\ Len(r) = IF m <= l THEN l - m + 1 ELSE 0
      /\ \A i \in 1..(l - m + 1) : r[i] = text[m + i - 1]
  BY <1>3, SubSeqProperties
<1> HIDE DEF r, text, used
<1>8. Len(r) = l - used
  <2>1. CASE m <= l
    BY <1>1, <1>6, <1>7, <2>1
  <2>2. CASE ~(m <= l)
    <3>1. Len(r) = 0
      BY <1>7, <2>2
    <3> QED
      BY <1>1, <1>6, <2>2, <3>1
  <2> QED
    BY <2>1, <2>2
<1>9. \A i \in 1..Len(r) : i \in 1..(l - m + 1) /\ m + i - 1 = used + i
  BY <1>1, <1>6, <1>8
<1>10. \A i \in 1..Len(r) : r[i] = text[used + i]
  BY <1>7, <1>9
<1> QED
  BY <1>2, <1>5, <1>7, <1>8, <1>10 DEF r, l, text, used

\* What the running store of p puts into the slots.
LEMMA ArgsOf ==
  ASSUME Attr!AttributesAssumption, AttrTyped, NEW p \in Procs, call[p].op = "store"
  PROVE  /\ Attr!Args(p) \in Seq(Bytes) /\ Len(Attr!Args(p)) <= Attr!Width
         /\ Attr!Taken(Attr!Rest(p)) \in Nat /\ Attr!Taken(Attr!Rest(p)) <= Len(Attr!Rest(p))
         /\ attr # "string" => Attr!Taken(Attr!Rest(p)) = Len(Attr!Rest(p))
         /\ attr = "string" => /\ Attr!Args(p)[Len(Attr!Args(p))] = 0
                               /\ Len(Attr!Args(p)) = Attr!Taken(Attr!Rest(p)) + 1
                               /\ Attr!Taken(Attr!Rest(p)) < Len(Attr!Rest(p)) =>
                                    Attr!Taken(Attr!Rest(p)) = Size - 1
<1>1. attr = "ref" => Len(Attr!Rest(p)) = 3
  BY Rests DEF AttrTyped, Inside
<1>2. attr \in Attr!Attrs /\ Attr!Rest(p) \in Seq(Bytes)
  BY Rests DEF AttrTyped
<1>3. Attr!Args(p) = Attr!Parsed(Attr!Rest(p))
  BY DEF Attr!Args
<1> DEFINE rest == Attr!Rest(p)
<1>4. /\ Attr!AttributesAssumption /\ attr \in Attr!Attrs /\ rest \in Seq(Bytes)
      /\ (attr = "ref" => Len(rest) = 3)
  BY <1>1, <1>2
<1> HIDE DEF rest
<1>5. /\ Attr!Taken(rest) \in Nat /\ Attr!Taken(rest) <= Len(rest)
      /\ attr # "string" => Attr!Taken(rest) = Len(rest)
      /\ Attr!Parsed(rest) \in Seq(Bytes) /\ Len(Attr!Parsed(rest)) <= Attr!Width
      /\ attr = "string" =>
           /\ Attr!Taken(rest) = IF Size - 1 < Len(rest) THEN Size - 1 ELSE Len(rest)
           /\ Len(Attr!Parsed(rest)) = Attr!Taken(rest) + 1
           /\ Attr!Parsed(rest)[Attr!Taken(rest) + 1] = 0
  BY <1>4, ParsedText
<1>6. attr = "string" /\ Attr!Taken(rest) < Len(rest) => Attr!Taken(rest) = Size - 1
  <2>1. Len(rest) \in Nat /\ Size \in Nat
    BY <1>4 DEF Attr!AttributesAssumption
  <2> QED
    BY <1>5, <2>1
<1> QED
  BY <1>3, <1>5, <1>6 DEF rest

-----------------------------------------------------------------------------

\* A call of p goes on, the others stay as they are.
LEMMA CallGoesOn ==
  ASSUME AttrTyped, NEW p \in Procs, NEW d \in Calls, Inside(d), call' = [call EXCEPT ![p] = d],
         attr' = attr, value' \in Seq(Bytes), Len(value') = Attr!Width,
         attr = "string" => value'[Size] = 0
  PROVE  /\ AttrTyped'
         /\ call'[p] = d /\ \A q \in Procs \ {p} : call'[q] = call[q]
<1>1. call' \in [Procs -> Calls] /\ call'[p] = d /\ \A q \in Procs \ {p} : call'[q] = call[q]
  BY DEF AttrTyped
<1>2. Attr!Width' = Attr!Width
  BY DEF Attr!Width
<1>3. \A e : Inside(e)' <=> Inside(e)
  BY <1>2 DEF Inside
<1>4. \A q \in Procs : Inside(call'[q])
  BY <1>1 DEF AttrTyped
<1> QED
  BY <1>1, <1>2, <1>3, <1>4 DEF AttrTyped

\* What the slots of a store depend on.
LEMMA ArgsStay ==
  ASSUME NEW p \in Procs, attr' = attr, call'[p].text = call[p].text, call'[p].used = call[p].used
  PROVE  Attr!Rest(p)' = Attr!Rest(p) /\ Attr!Args(p)' = Attr!Args(p)
<1>1. Attr!Rest(p)' = Attr!Rest(p)
  BY DEF Attr!Rest
<1>2. Attr!Width' = Attr!Width
  BY DEF Attr!Width
<1> QED
  BY <1>1, <1>2 DEF Attr!Args, Attr!Parsed, Attr!StoreVal, Attr!StoreChecked, Attr!StoreCfg,
                    Attr!StoreString, Attr!Taken

LEMMA FreshInside ==
  ASSUME Attr!AttributesAssumption, attr \in Attr!Attrs, NEW d \in Calls,
         d.used = 0, d.shown = <<>>,
         d.op = "store" => /\ attr = "ref" => Len(d.text) = 3
                           /\ attr = "string" => d.text # <<>>,
         attr = "string" => \A i \in 1..Len(d.text) : d.text[i] # 0,
         attr = "cfg" => \A i, j \in 1..Len(d.text) : d.text[i] = Junk /\ d.text[j] = Junk => i = j
  PROVE  Inside(d)
<1>1. Len(<<>>) = 0 /\ 1..0 = {} /\ d.text \in Seq(Bytes) /\ Len(d.text) \in Nat
  BY EmptySeq DEF Calls
<1>2. Attr!Width \in Nat /\ Size \in Nat /\ Size > 1
  BY Widths DEF Attr!AttributesAssumption
<1>3. 0 \in Nat /\ 0 = 0 * (Size - 1)
  BY <1>2
<1>4. d.text # <<>> => 0 < Len(d.text)
  BY <1>1
<1> QED
  BY <1>1, <1>2, <1>3, <1>4 DEF Inside

\* A call that goes on is a call.
LEMMA NextSlot ==
  ASSUME NEW e \in Calls, NEW n \in Nat
  PROVE  LET d == [e EXCEPT !.done = n]
         IN  /\ d \in Calls /\ d.op = e.op /\ d.text = e.text /\ d.used = e.used
             /\ d.done = n /\ d.shown = e.shown /\ d.clean = e.clean /\ d.base = e.base
<1> DEFINE T == Seq(Bytes)
<1>1. Calls = [op : {"idle", "store", "show"}, text : T, used : Nat, done : Nat,
               shown : T, clean : BOOLEAN, base : T]
  BY DEF Calls
<1> HIDE DEF T
<1> QED
  BY <1>1

LEMMA NextPiece ==
  ASSUME NEW e \in Calls, NEW m \in Nat
  PROVE  LET d == [e EXCEPT !.used = m, !.done = 0]
         IN  /\ d \in Calls /\ d.op = e.op /\ d.text = e.text /\ d.used = m
             /\ d.done = 0 /\ d.shown = e.shown /\ d.clean = e.clean /\ d.base = e.base
<1> DEFINE T == Seq(Bytes)
<1>1. Calls = [op : {"idle", "store", "show"}, text : T, used : Nat, done : Nat,
               shown : T, clean : BOOLEAN, base : T]
  BY DEF Calls
<1> HIDE DEF T
<1> QED
  BY <1>1

LEMMA NextShown ==
  ASSUME NEW e \in Calls, NEW s \in Seq(Bytes)
  PROVE  LET d == [e EXCEPT !.shown = s]
         IN  /\ d \in Calls /\ d.op = e.op /\ d.text = e.text /\ d.used = e.used
             /\ d.done = e.done /\ d.shown = s /\ d.clean = e.clean /\ d.base = e.base
<1> DEFINE T == Seq(Bytes)
<1>1. s \in T
  OBVIOUS
<1>2. Calls = [op : {"idle", "store", "show"}, text : T, used : Nat, done : Nat,
               shown : T, clean : BOOLEAN, base : T]
  BY DEF Calls
<1> HIDE DEF T
<1> QED
  BY <1>1, <1>2

LEMMA Overtaken ==
  ASSUME NEW e \in Calls
  PROVE  LET d == [e EXCEPT !.clean = FALSE, !.base = <<>>]
         IN  /\ d \in Calls /\ d.op = e.op /\ d.text = e.text /\ d.used = e.used
             /\ d.done = e.done /\ d.shown = e.shown /\ d.clean = FALSE /\ d.base = <<>>
<1> DEFINE T == Seq(Bytes)
<1>1. <<>> \in T
  BY EmptySeq
<1>2. Calls = [op : {"idle", "store", "show"}, text : T, used : Nat, done : Nat,
               shown : T, clean : BOOLEAN, base : T]
  BY DEF Calls
<1> HIDE DEF T
<1> QED
  BY <1>1, <1>2

LEMMA IdleCall ==
  /\ Attr!Idle \in Calls /\ Attr!Idle.op = "idle" /\ Attr!Idle.text = <<>> /\ Attr!Idle.used = 0
  /\ Attr!Idle.done = 0 /\ Attr!Idle.shown = <<>> /\ Attr!Idle.clean = TRUE /\ Attr!Idle.base = <<>>
<1>1. <<>> \in Seq(Bytes)
  BY EmptySeq
<1> QED
  BY <1>1 DEF Attr!Idle, Calls

LEMMA NewShow ==
  ASSUME NEW b \in BOOLEAN
  PROVE  LET d == [Attr!Idle EXCEPT !.op = "show", !.clean = b]
         IN  /\ d \in Calls /\ d.op = "show" /\ d.text = <<>> /\ d.used = 0
             /\ d.done = 0 /\ d.shown = <<>> /\ d.clean = b
<1> DEFINE T == Seq(Bytes)
           e == Attr!Idle
<1>1. e \in Calls /\ e.text = <<>> /\ e.used = 0 /\ e.done = 0 /\ e.shown = <<>>
  BY IdleCall
<1>2. Calls = [op : {"idle", "store", "show"}, text : T, used : Nat, done : Nat,
               shown : T, clean : BOOLEAN, base : T]
  BY DEF Calls
<1> HIDE DEF T, e
<1>3. LET d == [e EXCEPT !.op = "show", !.clean = b]
      IN  /\ d \in Calls /\ d.op = "show" /\ d.text = <<>> /\ d.used = 0
          /\ d.done = 0 /\ d.shown = <<>> /\ d.clean = b
  BY <1>1, <1>2
<1> QED
  BY <1>3 DEF e

LEMMA AttrInit == Attr!AttributesAssumption /\ Attr!Init => AttrInv
<1> SUFFICES ASSUME Attr!AttributesAssumption, Attr!Init
             PROVE  AttrInv
  OBVIOUS
<1>1. attr \in Attr!Attrs /\ value = [i \in Attr!Slots |-> 0] /\ call = [p \in Procs |-> Attr!Idle]
  BY DEF Attr!Init
<1>2. Attr!Width \in Nat /\ Attr!Width >= 1 /\ Attr!Slots = 1..Attr!Width
  BY <1>1, Widths
<1>3. value \in Seq(Bytes) /\ Len(value) = Attr!Width /\ \A i \in 1..Attr!Width : value[i] = 0
  BY <1>1, <1>2 DEF Bytes
<1>4. attr = "string" => value[Size] = 0
  BY <1>1, <1>2, <1>3, Widths
<1>5. Inside(Attr!Idle)
  BY <1>1, IdleCall, FreshInside, EmptySeq
<1>6. \A p \in Procs : Undisturbed(p)
  BY <1>1, IdleCall DEF Undisturbed
<1> QED
  BY <1>1, <1>3, <1>4, <1>5, <1>6, IdleCall DEF AttrInv, AttrTyped

\* A process whose call is the same and whose attribute is the same is undisturbed as before.
LEMMA OthersUndisturbed ==
  ASSUME NEW p \in Procs, NEW q \in Procs, p # q, Undisturbed(q), attr' = attr,
         call'[q] = call[q], value' = value \/ call[p].op = "store",
         \A r \in Procs \ {p, q} : call'[r] = call[r],
         call'[p].op = "store" => call[p].op = "store"
  PROVE  Undisturbed(q)'
<1> SUFFICES ASSUME call[q].op # "idle", call[q].clean
             PROVE  Undisturbed(q)'
  BY DEF Undisturbed
<1>1. \A r \in Procs \ {q} : call[r].op # "store"
  BY DEF Undisturbed
<1>2. value' = value /\ call'[p].op # "store"
  BY <1>1
<1>3. \A r \in Procs \ {q} : call'[r].op # "store"
  BY <1>1, <1>2
<1>4. Attr!Args(q)' = Attr!Args(q) /\ Attr!Width' = Attr!Width
  BY ArgsStay DEF Attr!Width
<1> QED
  BY <1>2, <1>3, <1>4 DEF Undisturbed, Stored

\* A store puts the next slot.
LEMMA SlotKeeps ==
  ASSUME Attr!AttributesAssumption, AttrInv, NEW p \in Procs, Attr!StoreSlot(p)
  PROVE  AttrInv'
<1> DEFINE i == call[p].done + 1
           d == [call[p] EXCEPT !.done = call[p].done + 1]
           args == Attr!Args(p)
<1>1. /\ AttrTyped /\ call[p] \in Calls /\ Inside(call[p])
      /\ call[p].op = "store" /\ call[p].done \in Nat
  BY DEF AttrInv, AttrTyped, Calls, Attr!StoreSlot
<1>2. /\ d \in Calls /\ d.op = "store" /\ d.text = call[p].text /\ d.used = call[p].used
      /\ d.done = i /\ d.shown = call[p].shown /\ d.clean = call[p].clean /\ d.base = call[p].base
  BY <1>1, NextSlot
<1>3. Inside(d)
  BY <1>1, <1>2 DEF Inside
<1>4. call' = [call EXCEPT ![p] = d] /\ attr' = attr /\ value' = [value EXCEPT ![i] = args[i]]
      /\ call[p].done < Len(args)
  BY DEF Attr!StoreSlot
<1> HIDE DEF d, args
<1>5. /\ args \in Seq(Bytes) /\ Len(args) <= Attr!Width /\ Len(args) \in Nat /\ Attr!Width \in Nat
      /\ attr = "string" => args[Len(args)] = 0 /\ Attr!Width = Size
  BY <1>1, ArgsOf, Widths DEF args, AttrTyped
<1>6. i \in 1..Len(args) /\ i \in 1..Attr!Width
  BY <1>1, <1>4, <1>5
<1> HIDE DEF i
<1>7. /\ value' \in Seq(Bytes) /\ Len(value') = Attr!Width
      /\ value'[i] = args[i] /\ \A j \in 1..Attr!Width : j # i => value'[j] = value[j]
  <2>1. value \in Seq(Bytes) /\ Len(value) = Attr!Width /\ args[i] \in Bytes
    BY <1>1, <1>5, <1>6 DEF AttrTyped
  <2> QED
    BY <1>4, <1>6, <2>1
<1>8. attr = "string" => value'[Size] = 0
  <2> SUFFICES ASSUME attr = "string"
               PROVE  value'[Size] = 0
    OBVIOUS
  <2>1. value[Size] = 0 /\ Size \in 1..Attr!Width
    BY <1>1, <1>5, <1>6 DEF AttrTyped
  <2>2. CASE i = Size
    BY <1>5, <1>6, <1>7, <2>2
  <2>3. CASE i # Size
    BY <1>7, <2>1, <2>3
  <2> QED
    BY <2>2, <2>3
<1>9. AttrTyped' /\ call'[p] = d /\ \A q \in Procs \ {p} : call'[q] = call[q]
  BY <1>1, <1>2, <1>3, <1>4, <1>7, <1>8, CallGoesOn
<1>10. Undisturbed(p)'
  <2> SUFFICES ASSUME call'[p].clean
               PROVE  Undisturbed(p)'
    BY DEF Undisturbed
  <2>1. call[p].clean /\ Undisturbed(p)
    BY <1>2, <1>9 DEF AttrInv
  <2>2. Stored(p) /\ \A q \in Procs \ {p} : call[q].op # "store"
    BY <1>1, <2>1 DEF Undisturbed
  <2>3. Attr!Args(p)' = args /\ Attr!Width' = Attr!Width
    BY <1>2, <1>4, <1>9, ArgsStay DEF args, Attr!Width
  <2>4. i = call[p].done + 1 /\ call[p].done \in Nat
    BY <1>1 DEF i
  <2>5. \A j \in 1..i : value'[j] = args[j]
    <3> TAKE j \in 1..i
    <3>1. CASE j = i
      BY <1>7, <3>1
    <3>2. CASE j # i
      <4>1. j \in 1..call[p].done /\ j \in 1..Attr!Width
        BY <1>5, <1>6, <2>4, <3>2
      <4> QED
        BY <1>7, <2>2, <3>2, <4>1 DEF Stored, args
    <3> QED
      BY <3>1, <3>2
  <2>6. call[p].used = 0 => \A j \in 1..Attr!Width : j > i => value'[j] = call[p].base[j]
    <3> SUFFICES ASSUME call[p].used = 0, NEW j \in 1..Attr!Width, j > i
                 PROVE  value'[j] = call[p].base[j]
      OBVIOUS
    <3>1. j > call[p].done /\ j # i
      BY <1>5, <2>4
    <3> QED
      BY <1>7, <2>2, <3>1 DEF Stored
  <2>7. i <= Len(args)
    BY <1>5, <1>6
  <2>8. Stored(p)'
    BY <1>2, <1>9, <2>2, <2>3, <2>5, <2>6, <2>7 DEF Stored
  <2> QED
    BY <1>2, <1>9, <2>2, <2>8 DEF Undisturbed
<1>11. ASSUME NEW q \in Procs, q # p PROVE Undisturbed(q)'
  BY <1>1, <1>2, <1>4, <1>9, <1>11, OthersUndisturbed DEF AttrInv
<1> QED
  BY <1>9, <1>10, <1>11 DEF AttrInv

\* The rest of a string, from a piece on that filled the buffer.
LEMMA AgainKeeps ==
  ASSUME Attr!AttributesAssumption, AttrInv, NEW p \in Procs, Attr!StoreAgain(p)
  PROVE  AttrInv'
<1> DEFINE n == Attr!Taken(Attr!Rest(p))
           u == call[p].used + n
           d == [call[p] EXCEPT !.used = u, !.done = 0]
<1>1. /\ AttrTyped /\ call[p] \in Calls /\ Inside(call[p]) /\ call[p].op = "store"
      /\ call[p].used \in Nat /\ call[p].text \in Seq(Bytes)
  BY DEF AttrInv, AttrTyped, Calls, Attr!StoreAgain
<1>2. /\ n \in Nat /\ n < Len(Attr!Rest(p)) /\ (attr # "string" => n = Len(Attr!Rest(p)))
      /\ (attr = "string" => n = Size - 1)
      /\ Len(Attr!Rest(p)) = Len(call[p].text) - call[p].used
  BY <1>1, ArgsOf, Rests DEF Attr!StoreAgain
<1>3. attr = "string" /\ n = Size - 1 /\ Size \in Nat /\ Size > 1
  BY <1>2 DEF Attr!AttributesAssumption
<1>4. call' = [call EXCEPT ![p] = d] /\ value' = value /\ attr' = attr
  BY DEF Attr!StoreAgain
<1> HIDE DEF n
<1>5. /\ d \in Calls /\ d.op = "store" /\ d.text = call[p].text /\ d.used = call[p].used + n
      /\ d.done = 0 /\ d.shown = call[p].shown /\ d.clean = call[p].clean /\ d.base = call[p].base
  <2>1. u \in Nat /\ u = call[p].used + n
    BY <1>1, <1>2
  <2> HIDE DEF u
  <2> QED
    BY <1>1, <2>1, NextPiece
<1>6. d.used < Len(d.text)
  BY <1>1, <1>2, <1>5
<1>7. \E m \in Nat : d.used = m * (Size - 1)
  <2>1. PICK m \in Nat : call[p].used = m * (Size - 1)
    BY <1>1, <1>3 DEF Inside
  <2>2. m + 1 \in Nat /\ (m + 1) * (Size - 1) = m * (Size - 1) + (Size - 1)
    BY <1>3
  <2> QED
    BY <1>3, <1>5, <2>1, <2>2
<1> HIDE DEF d
<1>8. Inside(d)
  <2>1. d.used <= Len(d.text)
    BY <1>1, <1>5, <1>6, <1>2
  <2> QED
    BY <1>1, <1>3, <1>5, <1>6, <1>7, <2>1 DEF Inside
<1>9. AttrTyped' /\ call'[p] = d /\ \A q \in Procs \ {p} : call'[q] = call[q]
  BY <1>1, <1>4, <1>5, <1>8, CallGoesOn DEF AttrTyped
<1>10. Undisturbed(p)'
  <2> SUFFICES ASSUME call'[p].clean
               PROVE  Undisturbed(p)'
    BY DEF Undisturbed
  <2>1. Stored(p) /\ \A q \in Procs \ {p} : call[q].op # "store"
    BY <1>1, <1>5, <1>9 DEF Undisturbed, AttrInv
  <2>2. d.used # 0 /\ 1..0 = {} /\ Attr!Width' = Attr!Width
    BY <1>1, <1>3, <1>4, <1>5 DEF Attr!Width
  <2>3. (AttrTyped => Attr!Args(p) \in Seq(Bytes))'
    <3>1. Attr!AttributesAssumption'
      BY DEF Attr!AttributesAssumption
    <3>2. (call[p].op = "store")'
      BY <1>5, <1>9
    <3> QED
      BY <1>9, <3>1, <3>2, ArgsOf, PTL
  <2>4. Len(Attr!Args(p)') >= 0
    BY <1>9, <2>3
  <2>5. Stored(p)'
    BY <1>5, <1>9, <2>1, <2>2, <2>4 DEF Stored
  <2> QED
    BY <1>5, <1>9, <2>1, <2>5 DEF Undisturbed
<1>11. ASSUME NEW q \in Procs, q # p PROVE Undisturbed(q)'
  BY <1>1, <1>4, <1>5, <1>9, <1>11, OthersUndisturbed DEF AttrInv
<1> QED
  BY <1>9, <1>10, <1>11 DEF AttrInv

\* The texts of a process.
LEMMA TextsOf ==
  ASSUME Attr!AttributesAssumption, NEW p \in Procs, NEW text \in Attr!Texts(p)
  PROVE  /\ text \in Seq(Bytes)
         /\ attr = "ref" => Len(text) = 3
         /\ attr = "string" => text # <<>> /\ \A i \in 1..Len(text) : text[i] # 0
         /\ attr = "cfg" => \A i, j \in 1..Len(text) : text[i] = Junk /\ text[j] = Junk => i = j
<1>1. p \in Nat /\ p # 0 /\ Junk # 0 /\ MaxText \in Nat
  BY DEF Attr!AttributesAssumption
<1>2. CASE attr = "ref"
  <2>1. text = <<p, p, p>> \/ text = <<0, 0, 0>>
    BY <1>2 DEF Attr!Texts
  <2>2. p \in Bytes /\ 0 \in Bytes
    BY DEF Bytes
  <2>3. CASE text = <<p, p, p>>
    BY <1>2, <2>2, <2>3
  <2>4. CASE text = <<0, 0, 0>>
    BY <1>2, <2>2, <2>4
  <2> QED
    BY <2>1, <2>3, <2>4
<1>3. CASE attr # "ref"
  <2>1. /\ attr = "string" => text # <<>>
        /\ \A i, j \in DOMAIN text : text[i] = Junk /\ text[j] = Junk => i = j
        /\ \E n \in 0..MaxText : text \in [1..n -> {p, Junk}]
    BY <1>3 DEF Attr!Texts
  <2>2. PICK n \in 0..MaxText : text \in [1..n -> {p, Junk}]
    BY <2>1
  <2>3. {p, Junk} \subseteq Bytes
    BY DEF Bytes
  <2>4. text \in Seq(Bytes) /\ Len(text) = n
    BY <1>1, <2>2, <2>3
  <2>5. \A i \in 1..Len(text) : text[i] # 0
    BY <1>1, <2>2, <2>4
  <2> QED
    BY <1>3, <2>1, <2>2, <2>4, <2>5
<1> QED
  BY <1>2, <1>3

\* A store that begins: it has met nobody, or it marks whom it meets.
LEMMA StoreBegins ==
  ASSUME Attr!AttributesAssumption, AttrInv, NEW p \in Procs, NEW text \in Attr!Texts(p),
         Attr!StoreBegin(p, text)
  PROVE  AttrInv'
<1> DEFINE alone == Attr!Storing = {}
           start == IF alone THEN value ELSE <<>>
           d == [Attr!Idle EXCEPT !.op = "store", !.text = text, !.clean = alone, !.base = start]
<1>1. /\ AttrTyped /\ attr \in Attr!Attrs /\ value \in Seq(Bytes) /\ Len(value) = Attr!Width
      /\ \A q \in Procs : call[q] \in Calls /\ Inside(call[q])
      /\ call[p].op = "idle" /\ attr' = attr /\ value' = value
  BY DEF AttrInv, AttrTyped, Attr!StoreBegin
<1>2. /\ text \in Seq(Bytes)
      /\ attr = "ref" => Len(text) = 3
      /\ attr = "string" => text # <<>> /\ \A i \in 1..Len(text) : text[i] # 0
      /\ attr = "cfg" => \A i, j \in 1..Len(text) : text[i] = Junk /\ text[j] = Junk => i = j
  BY TextsOf
<1>3. start \in Seq(Bytes) /\ (alone => start = value) /\ alone \in BOOLEAN
  BY <1>1, EmptySeq
<1>4. /\ call' \in [Procs -> Calls \union {call'[q] : q \in Procs}] /\ call'[p] = d
      /\ \A q \in Procs \ {p} :
           call'[q] = IF call[q].op = "idle" THEN call[q]
                      ELSE [call[q] EXCEPT !.clean = FALSE, !.base = <<>>]
  BY DEF Attr!StoreBegin
<1>5. alone => \A q \in Procs : call[q].op # "store"
  BY DEF Attr!Storing
<1> HIDE DEF alone, start
<1>6. /\ d \in Calls /\ d.op = "store" /\ d.text = text /\ d.used = 0 /\ d.done = 0
      /\ d.shown = <<>> /\ d.clean = alone /\ d.base = start
  <2> DEFINE T == Seq(Bytes)
             e == Attr!Idle
  <2>1. text \in T /\ alone \in BOOLEAN /\ start \in T
    BY <1>2, <1>3
  <2>2. e \in Calls /\ e.used = 0 /\ e.done = 0 /\ e.shown = <<>>
    BY IdleCall
  <2>3. Calls = [op : {"idle", "store", "show"}, text : T, used : Nat, done : Nat,
                 shown : T, clean : BOOLEAN, base : T]
    BY DEF Calls
  <2>4. d = [e EXCEPT !.op = "store", !.text = text, !.clean = alone, !.base = start]
    OBVIOUS
  <2> HIDE DEF T, e, d
  <2> QED
    BY <2>1, <2>2, <2>3, <2>4
<1> HIDE DEF d
<1>7. Inside(d)
  BY <1>1, <1>2, <1>6, FreshInside
<1>8. ASSUME NEW q \in Procs, q # p
      PROVE  /\ call'[q] \in Calls /\ Inside(call'[q]) /\ call'[q].op = call[q].op
             /\ call'[q].op = "idle" \/ ~call'[q].clean
  <2>1. CASE call[q].op = "idle"
    BY <1>1, <1>4, <1>8, <2>1
  <2>2. CASE call[q].op # "idle"
    <3>1. call'[q] = [call[q] EXCEPT !.clean = FALSE, !.base = <<>>]
      BY <1>4, <1>8, <2>2
    <3>2. /\ call'[q] \in Calls /\ call'[q].op = call[q].op /\ call'[q].text = call[q].text
          /\ call'[q].used = call[q].used /\ call'[q].shown = call[q].shown
          /\ call'[q].clean = FALSE
      <4> DEFINE e == call[q]
      <4>1. e \in Calls /\ call'[q] = [e EXCEPT !.clean = FALSE, !.base = <<>>]
        BY <1>1, <3>1
      <4> HIDE DEF e
      <4>2. /\ call'[q] \in Calls /\ call'[q].op = e.op /\ call'[q].text = e.text
            /\ call'[q].used = e.used /\ call'[q].shown = e.shown /\ call'[q].clean = FALSE
        BY <4>1, Overtaken
      <4> QED
        BY <4>2 DEF e
    <3>3. Inside(call'[q])
      BY <1>1, <3>2 DEF Inside
    <3> QED
      BY <3>2, <3>3
  <2> QED
    BY <2>1, <2>2
<1>9. call' \in [Procs -> Calls] /\ \A q \in Procs : Inside(call'[q])
  BY <1>4, <1>6, <1>7, <1>8
<1>10. Attr!Width' = Attr!Width /\ \A e : Inside(e)' <=> Inside(e)
  BY <1>1 DEF Inside, Attr!Width
<1>11. AttrTyped'
  BY <1>1, <1>9, <1>10 DEF AttrTyped
<1>12. \A q \in Procs \ {p} : Undisturbed(q)'
  BY <1>8 DEF Undisturbed
<1>13. Undisturbed(p)'
  <2> SUFFICES ASSUME call'[p].clean
               PROVE  Undisturbed(p)'
    BY DEF Undisturbed
  <2>1. alone /\ start = value
    BY <1>3, <1>4, <1>6
  <2>2. \A q \in Procs \ {p} : call'[q].op # "store"
    BY <1>5, <1>8, <2>1
  <2>3. Attr!Args(p)' \in Seq(Bytes)
    <3>1. Attr!AttributesAssumption' /\ (call[p].op = "store")'
      BY <1>4, <1>6 DEF Attr!AttributesAssumption
    <3>2. (Attr!AttributesAssumption /\ AttrTyped /\ call[p].op = "store" =>
             Attr!Args(p) \in Seq(Bytes))'
      <4>1. Attr!AttributesAssumption /\ AttrTyped /\ call[p].op = "store" =>
              Attr!Args(p) \in Seq(Bytes)
        BY ArgsOf
      <4> QED
        BY <4>1, ArgsOf, PTL
    <3> QED
      BY <1>11, <3>1, <3>2
  <2>4. 0 <= Len(Attr!Args(p)') /\ 1..0 = {}
    BY <2>3
  <2>5. Stored(p)'
    BY <1>1, <1>4, <1>6, <1>10, <2>1, <2>4 DEF Stored
  <2> QED
    BY <1>4, <1>6, <2>2, <2>5 DEF Undisturbed
<1> QED
  BY <1>11, <1>12, <1>13 DEF AttrInv

\* A call that ends leaves its process idle.
LEMMA EndKeeps ==
  ASSUME Attr!AttributesAssumption, AttrInv, NEW p \in Procs,
         Attr!StoreEnd(p) \/ Attr!StoreFault(p) \/ Attr!ShowEnd(p)
  PROVE  AttrInv'
<1>1. AttrTyped /\ attr \in Attr!Attrs /\ value \in Seq(Bytes) /\ Len(value) = Attr!Width
  BY DEF AttrInv, AttrTyped
<1>2. call' = [call EXCEPT ![p] = Attr!Idle] /\ attr' = attr
  BY DEF Attr!StoreEnd, Attr!StoreFault, Attr!ShowEnd
<1>3. /\ value' \in Seq(Bytes) /\ Len(value') = Attr!Width /\ (attr = "string" => value'[Size] = 0)
      /\ value' = value \/ call[p].op = "store"
  <2>1. CASE Attr!StoreEnd(p) \/ Attr!ShowEnd(p)
    BY <1>1, <2>1 DEF Attr!StoreEnd, Attr!ShowEnd, AttrTyped
  <2>2. CASE Attr!StoreFault(p)
    <3>1. Attr!Width \in Nat /\ Attr!Slots = 1..Attr!Width /\ 0 \in Bytes
      BY <1>1, Widths DEF Bytes
    <3>2. \A i \in 1..Attr!Width : (IF i > call[p].done THEN 0 ELSE value[i]) \in Bytes
      BY <1>1, <3>1
    <3> QED
      BY <2>2, <3>1, <3>2 DEF Attr!StoreFault
  <2> QED
    BY <2>1, <2>2
<1>4. Inside(Attr!Idle)
  BY <1>1, IdleCall, FreshInside, EmptySeq
<1>5. AttrTyped' /\ call'[p] = Attr!Idle /\ \A q \in Procs \ {p} : call'[q] = call[q]
  BY <1>1, <1>2, <1>3, <1>4, IdleCall, CallGoesOn
<1>6. Undisturbed(p)'
  BY <1>5, IdleCall DEF Undisturbed
<1>7. ASSUME NEW q \in Procs, q # p PROVE Undisturbed(q)'
  BY <1>2, <1>3, <1>5, <1>7, IdleCall, OthersUndisturbed DEF AttrInv
<1> QED
  BY <1>5, <1>6, <1>7 DEF AttrInv

LEMMA ShowBegins ==
  ASSUME Attr!AttributesAssumption, AttrInv, NEW p \in Procs, Attr!ShowBegin(p)
  PROVE  AttrInv'
<1> DEFINE alone == Attr!Storing = {}
           d == [Attr!Idle EXCEPT !.op = "show", !.clean = alone]
<1>1. /\ AttrTyped /\ attr \in Attr!Attrs /\ value \in Seq(Bytes) /\ Len(value) = Attr!Width
      /\ attr = "string" => value[Size] = 0
      /\ call[p].op = "idle" /\ attr' = attr /\ value' = value
  BY DEF AttrInv, AttrTyped, Attr!ShowBegin
<1>2. call' = [call EXCEPT ![p] = d] /\ alone \in BOOLEAN
  BY DEF Attr!ShowBegin
<1>3. alone => \A q \in Procs : call[q].op # "store"
  BY DEF Attr!Storing
<1> HIDE DEF alone
<1>4. /\ d \in Calls /\ d.op = "show" /\ d.text = <<>> /\ d.used = 0 /\ d.done = 0
      /\ d.shown = <<>> /\ d.clean = alone
  BY <1>2, NewShow
<1> HIDE DEF d
<1>5. Inside(d)
  BY <1>1, <1>4, FreshInside, EmptySeq
<1>6. AttrTyped' /\ call'[p] = d /\ \A q \in Procs \ {p} : call'[q] = call[q]
  BY <1>1, <1>2, <1>4, <1>5, CallGoesOn
<1>7. Undisturbed(p)'
  <2>1. Len(<<>>) = 0 /\ 1..0 = {}
    BY EmptySeq
  <2> QED
    BY <1>3, <1>4, <1>6, <2>1 DEF Undisturbed
<1>8. ASSUME NEW q \in Procs, q # p PROVE Undisturbed(q)'
  BY <1>1, <1>4, <1>6, <1>8, OthersUndisturbed DEF AttrInv
<1> QED
  BY <1>6, <1>7, <1>8 DEF AttrInv

\* A show that has not met its NUL is not at the end of the buffer, or meets it now.
LEMMA ShowKeeps ==
  ASSUME Attr!AttributesAssumption, AttrInv, NEW p \in Procs, Attr!ShowSlot(p)
  PROVE  AttrInv'
<1> DEFINE seq == call[p].shown
           n == Len(seq) + 1
           longer == Append(seq, value[n])
           d == [call[p] EXCEPT !.shown = longer]
<1>1. /\ AttrTyped /\ call[p] \in Calls /\ Inside(call[p]) /\ call[p].op = "show"
      /\ attr \in Attr!Attrs /\ value \in Seq(Bytes) /\ Len(value) = Attr!Width
      /\ attr = "string" => value[Size] = 0
      /\ seq \in Seq(Bytes) /\ Len(seq) \in Nat
  BY DEF AttrInv, AttrTyped, Calls, Attr!ShowSlot
<1>2. call' = [call EXCEPT ![p] = d] /\ value' = value /\ attr' = attr
  BY DEF Attr!ShowSlot
<1>3. Attr!Width \in Nat /\ (attr = "string" => Attr!Width = Size)
  BY <1>1, Widths
<1>4. Len(seq) < Attr!Width /\ (attr = "string" => \A i \in 1..Len(seq) : seq[i] # 0)
  <2>1. ~Attr!Shown(seq) /\ Len(seq) <= Attr!Width
    BY <1>1 DEF Attr!ShowSlot, Inside
  <2>2. Len(seq) # Attr!Width
    BY <2>1 DEF Attr!Shown
  <2>3. ASSUME attr = "string", NEW i \in 1..Len(seq), seq[i] = 0
        PROVE  FALSE
    <3>1. i = Len(seq)
      BY <1>1, <2>3 DEF Inside
    <3>2. seq # <<>>
      BY <1>1, EmptySeq
    <3> QED
      BY <2>1, <2>3, <3>1, <3>2 DEF Attr!Shown
  <2> QED
    BY <1>1, <1>3, <2>1, <2>2, <2>3
<1> HIDE DEF seq
<1>5. n \in 1..Attr!Width /\ n = Len(seq) + 1 /\ value[n] \in Bytes
  BY <1>1, <1>3, <1>4
<1> HIDE DEF n
<1>6. /\ longer \in Seq(Bytes) /\ Len(longer) = n /\ longer[n] = value[n]
      /\ \A i \in 1..Len(seq) : longer[i] = seq[i]
  BY <1>1, <1>5
<1> HIDE DEF longer
<1>7. /\ d \in Calls /\ d.op = "show" /\ d.text = call[p].text /\ d.used = call[p].used
      /\ d.done = call[p].done /\ d.shown = longer
      /\ d.clean = call[p].clean /\ d.base = call[p].base
  BY <1>1, <1>6, NextShown
<1> HIDE DEF d
<1>8. Inside(d)
  <2>1. ASSUME attr = "string"
        PROVE  /\ \A i \in 1..n : longer[i] = 0 => i = n
               /\ n = Size => longer[Size] = 0
    <3>1. \A i \in 1..n : i # n => i \in 1..Len(seq)
      BY <1>1, <1>5
    <3> QED
      BY <1>1, <1>4, <1>6, <2>1, <3>1
  <2>2. n <= Attr!Width
    BY <1>3, <1>5
  <2> QED
    BY <1>1, <1>6, <1>7, <2>1, <2>2 DEF Inside
<1>9. AttrTyped' /\ call'[p] = d /\ \A q \in Procs \ {p} : call'[q] = call[q]
  BY <1>1, <1>2, <1>7, <1>8, CallGoesOn
<1>10. Undisturbed(p)'
  <2> SUFFICES ASSUME call[p].clean
               PROVE  Undisturbed(p)'
    BY <1>7, <1>9 DEF Undisturbed
  <2>1. /\ \A i \in 1..Len(seq) : seq[i] = value[i]
        /\ \A q \in Procs \ {p} : call[q].op # "store"
    BY <1>1 DEF AttrInv, Undisturbed, seq
  <2>2. \A i \in 1..n : longer[i] = value[i]
    <3> TAKE i \in 1..n
    <3>1. i = n \/ i \in 1..Len(seq)
      BY <1>1, <1>5
    <3> QED
      BY <1>6, <2>1, <3>1
  <2> QED
    BY <1>2, <1>6, <1>7, <1>9, <2>1, <2>2 DEF Undisturbed
<1>11. ASSUME NEW q \in Procs, q # p PROVE Undisturbed(q)'
  BY <1>1, <1>2, <1>7, <1>9, <1>11, OthersUndisturbed DEF AttrInv
<1> QED
  BY <1>9, <1>10, <1>11 DEF AttrInv

LEMMA AttrStep == Attr!AttributesAssumption /\ AttrInv /\ [Attr!Next]_(Attr!avars) => AttrInv'
<1> SUFFICES ASSUME Attr!AttributesAssumption, AttrInv, [Attr!Next]_(Attr!avars)
             PROVE  AttrInv'
  OBVIOUS
<1>1. CASE UNCHANGED Attr!avars
  <2>1. attr' = attr /\ value' = value /\ call' = call
    BY <1>1 DEF Attr!avars
  <2>2. \A p \in Procs : Attr!Args(p)' = Attr!Args(p)
    BY <2>1, ArgsStay
  <2>3. Attr!Width' = Attr!Width
    BY <2>1 DEF Attr!Width
  <2>4. AttrTyped'
    BY <2>1, <2>3 DEF AttrInv, AttrTyped, Inside
  <2> QED
    BY <2>1, <2>2, <2>3, <2>4 DEF AttrInv, Undisturbed, Stored
<1>2. CASE Attr!Next
  <2>1. PICK p \in Procs : Attr!Step(p)
    BY <1>2 DEF Attr!Next
  <2> QED
    BY <2>1, StoreBegins, SlotKeeps, AgainKeeps, EndKeeps, ShowBegins, ShowKeeps DEF Attr!Step
<1> QED
  BY <1>1, <1>2

\* What a string shows ends with its first NUL.
LEMMA ShownUpTo ==
  ASSUME Attr!AttributesAssumption, AttrTyped, attr = "string", NEW n \in 1..Size,
         value[n] = 0, \A m \in 1..(n - 1) : value[m] # 0,
         NEW s \in Seq(Bytes), Len(s) = n, \A i \in 1..n : s[i] = value[i]
  PROVE  Attr!ShownOf(value) = s
<1>1. Size \in Nat /\ Attr!Slots = 1..Size /\ value \in Seq(Bytes) /\ Len(value) = Size
  BY Widths DEF Attr!AttributesAssumption, AttrTyped
<1> DEFINE FirstNul(j) == value[j] = 0 /\ \A m \in 1..(j - 1) : value[m] # 0
           found == CHOOSE j \in Attr!Slots : FirstNul(j)
<1>2. n \in Attr!Slots /\ FirstNul(n)
  BY <1>1
<1>3. found \in Attr!Slots /\ FirstNul(found)
  BY <1>2
<1>4. Attr!ShownOf(value) = SubSeq(value, 1, found)
  BY DEF Attr!ShownOf
<1> HIDE DEF found
<1>5. found = n
  <2>1. ~(found < n) /\ ~(n < found)
    BY <1>1, <1>2, <1>3
  <2> QED
    BY <1>1, <1>3, <2>1
<1> HIDE DEF FirstNul
<1>6. \A i \in 1..n : value[i] \in Bytes
  BY <1>1
<1>7. /\ SubSeq(value, 1, n) \in Seq(Bytes) /\ Len(SubSeq(value, 1, n)) = n
      /\ \A i \in 1..n : SubSeq(value, 1, n)[i] = value[i]
  BY <1>1, <1>6
<1> QED
  BY <1>4, <1>5, <1>7, SeqEqual

\* A show at its end, if no store has overlapped it.
LEMMA ShowTrue ==
  ASSUME Attr!AttributesAssumption, AttrInv, NEW p \in Procs, Attr!ShowEnd(p), call[p].clean
  PROVE  call[p].shown = Attr!ShownOf(value)
<1> DEFINE s == call[p].shown
<1>1. /\ AttrTyped /\ attr \in Attr!Attrs /\ value \in Seq(Bytes) /\ Len(value) = Attr!Width
      /\ call[p].op = "show" /\ s \in Seq(Bytes) /\ Inside(call[p]) /\ Attr!Shown(s)
  BY DEF AttrInv, AttrTyped, Calls, Attr!ShowEnd
<1>2. \A i \in 1..Len(s) : s[i] = value[i]
  BY <1>1 DEF AttrInv, Undisturbed
<1>3. CASE attr # "string"
  <2>1. Len(s) = Len(value)
    BY <1>1, <1>3 DEF Attr!Shown
  <2> HIDE DEF s
  <2>2. s = value
    BY <1>1, <1>2, <2>1, SeqEqual
  <2> QED
    BY <1>3, <2>2 DEF Attr!ShownOf, s
<1>4. CASE attr = "string"
  <2> DEFINE n == Len(s)
  <2>1. Size \in Nat /\ Size > 1 /\ Attr!Width = Size /\ n \in Nat
    BY <1>1, <1>4, Widths DEF Attr!AttributesAssumption
  <2>2. n \in 1..Size /\ s[n] = 0
    <3>1. n <= Size /\ (n = Size => s[Size] = 0)
      BY <1>1, <1>4, <2>1 DEF Inside
    <3>2. n = Size \/ (s # <<>> /\ s[n] = 0)
      BY <1>1, <2>1 DEF Attr!Shown
    <3>3. s # <<>> => n # 0
      BY <1>1, EmptySeq
    <3> QED
      BY <2>1, <3>1, <3>2, <3>3
  <2>3. \A i \in 1..n : s[i] = 0 => i = n
    BY <1>1, <1>4 DEF Inside
  <2>4. Len(s) = n
    OBVIOUS
  <2> HIDE DEF s, n
  <2>5. value[n] = 0 /\ \A m \in 1..(n - 1) : value[m] # 0
    <3>1. \A m \in 1..(n - 1) : m \in 1..n /\ m # n
      BY <2>1
    <3> QED
      BY <1>2, <2>1, <2>2, <2>3, <2>4, <3>1
  <2>6. s = Attr!ShownOf(value)
    BY <1>1, <1>2, <1>4, <2>2, <2>4, <2>5, ShownUpTo
  <2> QED
    BY <2>6 DEF s
<1> QED
  BY <1>3, <1>4

\* How many whole pieces go before the last one.
LEMMA WholePieces ==
  ASSUME NEW l \in Nat, NEW d \in Nat \ {0}, NEW m \in Nat, m * d <= l, l < m * d + d
  PROVE  (l \div d) * d = m * d
<1>1. l \div d \in Int /\ (l \div d) * d <= l /\ l < (l \div d) * d + d
  OBVIOUS
<1> DEFINE q == l \div d
<1>2. q \in Int /\ q * d <= l /\ l < q * d + d
  BY <1>1
<1> HIDE DEF q
<1>3. ~(q < m)
  <2> SUFFICES ASSUME q < m PROVE FALSE
    OBVIOUS
  <2>1. q + 1 <= m
    BY <1>2
  <2>2. (q + 1) * d <= m * d
    BY <1>2, <2>1
  <2>3. (q + 1) * d = q * d + d
    BY <1>2
  <2> QED
    BY <1>2, <2>2, <2>3
<1>4. ~(m < q)
  <2> SUFFICES ASSUME m < q PROVE FALSE
    OBVIOUS
  <2>1. m + 1 <= q
    BY <1>2
  <2>2. (m + 1) * d <= q * d
    BY <1>2, <2>1
  <2>3. (m + 1) * d = m * d + d
    BY <1>2
  <2> QED
    BY <1>2, <2>2, <2>3
<1>5. q = m
  BY <1>2, <1>3, <1>4
<1> QED
  BY <1>5 DEF q

\* A store at its end, if no other has overlapped it.  What it has stored is its last
\* piece; and its first one if the attribute is no string.
LEMMA StoreDone ==
  ASSUME Attr!AttributesAssumption, AttrInv, NEW p \in Procs, Attr!StoreEnd(p), call[p].clean
  PROVE  /\ Attr!Args(p) \in Seq(Bytes)
         /\ Len(Attr!Args(p)) <= Attr!Width
         /\ \A i \in 1..Len(Attr!Args(p)) : value[i] = Attr!Args(p)[i]
         /\ call[p].used = 0 =>
              \A i \in 1..Attr!Width : i > Len(Attr!Args(p)) => value[i] = call[p].base[i]
<1>1. AttrTyped /\ call[p].op = "store" /\ call[p].done = Len(Attr!Args(p))
  BY DEF AttrInv, Attr!StoreEnd
<1>2. Stored(p)
  BY <1>1 DEF AttrInv, Undisturbed
<1> QED
  BY <1>1, <1>2, ArgsOf DEF Stored

\* The last piece of a string.
LEMMA StringEffect ==
  ASSUME Attr!AttributesAssumption, AttrInv, NEW p \in Procs, Attr!StoreEnd(p), call[p].clean,
         attr = "string"
  PROVE  Attr!ShownOf(value) = Attr!Effect(call[p].base, call[p].text)
<1> DEFINE text == call[p].text
           used == call[p].used
           rest == Attr!Rest(p)
           args == Attr!Args(p)
<1>1. /\ AttrTyped /\ call[p].op = "store" /\ Inside(call[p])
      /\ text \in Seq(Bytes) /\ used \in Nat /\ used < Len(text)
      /\ \A i \in 1..Len(text) : text[i] # 0
  BY DEF AttrInv, AttrTyped, Calls, Attr!StoreEnd, Inside
<1>2. Attr!Taken(rest) = Len(rest)
  BY DEF Attr!StoreEnd
<1>3. /\ rest \in Seq(Bytes) /\ Len(rest) = Len(text) - used
      /\ \A i \in 1..Len(rest) : rest[i] = text[used + i]
  BY <1>1, Rests
<1>4. Size \in Nat /\ Size > 1 /\ attr \in Attr!Attrs /\ Attr!Width = Size
  BY <1>1, Widths DEF Attr!AttributesAssumption, AttrTyped
<1>5. args = Attr!Parsed(rest) /\ rest = SubSeq(text, used + 1, Len(text))
  BY DEF Attr!Args, Attr!Rest
<1>6. /\ args \in Seq(Bytes) /\ Len(args) <= Attr!Width
      /\ \A i \in 1..Len(args) : value[i] = args[i]
  BY StoreDone
<1>7. PICK m \in Nat : used = m * (Size - 1)
  BY <1>1 DEF Inside
<1>8. Attr!Effect(call[p].base, call[p].text)
        = Append(SubSeq(text, ((Len(text) - 1) \div (Size - 1)) * (Size - 1) + 1, Len(text)), 0)
  BY DEF Attr!Effect
<1> HIDE DEF text, used, rest, args
<1>9. /\ Len(rest) <= Size - 1 /\ Len(args) = Len(rest) + 1 /\ args[Len(rest) + 1] = 0
      /\ \A i \in 1..Len(rest) : args[i] = rest[i]
  <2>1. /\ Attr!Taken(rest) = IF Size - 1 < Len(rest) THEN Size - 1 ELSE Len(rest)
        /\ Len(args) = Attr!Taken(rest) + 1 /\ args[Attr!Taken(rest) + 1] = 0
        /\ \A i \in 1..Attr!Taken(rest) : args[i] = rest[i]
    BY <1>3, <1>4, <1>5, ParsedText
  <2>2. Len(rest) <= Size - 1
    BY <1>2, <1>3, <1>4, <2>1
  <2> QED
    BY <1>2, <2>1, <2>2
<1>10. args = Append(rest, 0)
  <2>1. 0 \in Bytes
    BY DEF Bytes
  <2>2. /\ Append(rest, 0) \in Seq(Bytes) /\ Len(Append(rest, 0)) = Len(rest) + 1
        /\ Append(rest, 0)[Len(rest) + 1] = 0
        /\ \A i \in 1..Len(rest) : Append(rest, 0)[i] = rest[i]
    BY <1>3, <2>1
  <2>3. \A i \in 1..Len(args) : i = Len(rest) + 1 \/ i \in 1..Len(rest)
    BY <1>3, <1>9
  <2>4. \A i \in 1..Len(args) : args[i] = Append(rest, 0)[i]
    BY <1>9, <2>2, <2>3
  <2> QED
    BY <1>6, <1>9, <2>2, <2>4, SeqEqual
<1>11. ((Len(text) - 1) \div (Size - 1)) * (Size - 1) = used
  <2> DEFINE l == Len(text) - 1
             d == Size - 1
  <2>1. l \in Nat /\ d \in Nat \ {0}
    BY <1>1, <1>4
  <2>2. used <= l /\ l < used + d
    BY <1>1, <1>3, <1>4, <1>9
  <2>3. used = m * d
    BY <1>7
  <2> HIDE DEF l, d
  <2>4. (l \div d) * d = m * d
    BY <2>1, <2>2, <2>3, WholePieces
  <2> QED
    BY <2>3, <2>4 DEF l, d
<1>12. Attr!Effect(call[p].base, call[p].text) = args
  BY <1>5, <1>8, <1>10, <1>11
<1>13. Attr!ShownOf(value) = args
  <2> DEFINE n == Len(args)
  <2>1. n \in 1..Size /\ value[n] = 0
    BY <1>3, <1>4, <1>6, <1>9
  <2>2. \A i \in 1..(n - 1) : value[i] # 0
    <3> TAKE i \in 1..(n - 1)
    <3>1. i \in 1..Len(rest) /\ i \in 1..Len(args)
      BY <1>3, <1>9
    <3>2. used + i \in 1..Len(text)
      BY <1>1, <1>3, <3>1
    <3> QED
      BY <1>1, <1>3, <1>6, <1>9, <3>1, <3>2
  <2>3. Len(args) = n
    OBVIOUS
  <2> HIDE DEF n
  <2> QED
    BY <1>1, <1>6, <2>1, <2>2, <2>3, ShownUpTo
<1> QED
  BY <1>12, <1>13

\* The fields of a configuration: as many as match, from the first on.
LEMMA ConfigEffect ==
  ASSUME Attr!AttributesAssumption, AttrInv, NEW p \in Procs, Attr!StoreEnd(p), call[p].clean,
         attr = "cfg"
  PROVE  Attr!ShownOf(value) = Attr!Effect(call[p].base, call[p].text)
<1> DEFINE text == call[p].text
           base == call[p].base
           args == Attr!Args(p)
           Matches(i) == i <= Len(text) /\ \A j \in 1..Attr!Least(i, 2) : text[j] # Junk
<1>1. /\ AttrTyped /\ value \in Seq(Bytes) /\ Len(value) = 3
      /\ text \in Seq(Bytes) /\ call[p].used = 0
      /\ \A i, j \in 1..Len(text) : text[i] = Junk /\ text[j] = Junk => i = j
      /\ Attr!Width = 3 /\ Attr!Slots = 1..3
  BY Widths DEF AttrInv, AttrTyped, Calls, Inside
<1>2. args = Attr!StoreCfg(text)
  BY <1>1, Rests DEF Attr!Args, Attr!Parsed
<1>3. /\ Len(args) \in Nat /\ \A i \in 1..Len(args) : value[i] = args[i]
      /\ \A i \in 1..3 : i > Len(args) => value[i] = base[i]
  BY <1>1, StoreDone
<1>4. PICK n \in {0, 1, 3} :
        /\ args = Attr!First(text, n)
        /\ n = 0 => Len(text) >= 1 /\ text[1] = Junk
        /\ n = 1 => Len(text) > 1 /\ text[1] # Junk /\ text[2] = Junk
        /\ n = 3 => /\ Len(text) >= 1 => text[1] # Junk
                    /\ Len(text) >= 2 => text[2] # Junk
  <2>1. text # <<>> <=> Len(text) >= 1
    BY <1>1, EmptySeq
  <2>2. CASE text # <<>> /\ text[1] = Junk
    <3>1. ~(Len(text) > 1 /\ text[2] = Junk)
      BY <1>1, <2>2
    <3>2. args = Attr!First(text, 0)
      BY <1>2, <2>2, <3>1 DEF Attr!StoreCfg, Attr!IsNumber
    <3> QED
      BY <2>1, <2>2, <3>2
  <2>3. CASE Len(text) > 1 /\ text[2] = Junk
    <3>1. text # <<>> /\ text[1] # Junk
      BY <1>1, <2>1, <2>3
    <3>2. args = Attr!First(text, 1)
      BY <1>2, <2>3, <3>1 DEF Attr!StoreCfg, Attr!IsNumber
    <3> QED
      BY <2>3, <3>1, <3>2
  <2>4. CASE ~(text # <<>> /\ text[1] = Junk) /\ ~(Len(text) > 1 /\ text[2] = Junk)
    <3>1. args = Attr!First(text, 3)
      BY <1>1, <1>2, <2>4 DEF Attr!StoreCfg, Attr!IsNumber
    <3> QED
      BY <1>1, <2>1, <2>4, <3>1
  <2> QED
    BY <2>2, <2>3, <2>4
<1> HIDE DEF text, args, base
<1>5. Len(text) \in Nat /\ n \in Nat
  BY <1>1
<1>6. /\ Len(args) = IF n < Len(text) THEN n ELSE Len(text)
      /\ \A i \in 1..Len(args) : args[i] = text[i]
  BY <1>1, <1>4, <1>5, Beginning
<1>7. \A i \in 1..3 : Matches(i) <=> i <= Len(args)
  <2>1. Matches(1) <=> Len(text) >= 1 /\ text[1] # Junk
    BY <1>5 DEF Attr!Least
  <2>2. Matches(2) <=> Len(text) >= 2 /\ text[1] # Junk /\ text[2] # Junk
    BY <1>5 DEF Attr!Least
  <2>3. Matches(3) <=> Len(text) >= 3 /\ text[1] # Junk /\ text[2] # Junk
    BY <1>5 DEF Attr!Least
  <2> HIDE DEF Matches
  <2>4. CASE n = 0
    BY <1>4, <1>5, <1>6, <2>1, <2>2, <2>3, <2>4
  <2>5. CASE n = 1
    BY <1>4, <1>5, <1>6, <2>1, <2>2, <2>3, <2>5
  <2>6. CASE n = 3
    BY <1>4, <1>5, <1>6, <2>1, <2>2, <2>3, <2>6
  <2> QED
    BY <2>4, <2>5, <2>6
<1> HIDE DEF Matches
<1>8. \A i \in 1..3 : value[i] = IF Matches(i) THEN text[i] ELSE base[i]
  BY <1>3, <1>6, <1>7
<1>9. value = [i \in 1..3 |-> IF Matches(i) THEN text[i] ELSE base[i]]
  BY <1>1, <1>8
<1>10. Attr!Effect(base, text) = [i \in 1..3 |-> IF Matches(i) THEN text[i] ELSE base[i]]
  BY <1>1 DEF Attr!Effect, Matches
<1>11. Attr!ShownOf(value) = value
  BY DEF Attr!ShownOf
<1> QED
  BY <1>9, <1>10, <1>11 DEF text, base

\* One number, and the structure that always comes whole.
LEMMA WholeEffect ==
  ASSUME Attr!AttributesAssumption, AttrInv, NEW p \in Procs, Attr!StoreEnd(p), call[p].clean,
         attr \in {"val", "checked", "ref"}
  PROVE  Attr!ShownOf(value) = Attr!Effect(call[p].base, call[p].text)
<1> DEFINE text == call[p].text
           base == call[p].base
           args == Attr!Args(p)
<1>1. /\ AttrTyped /\ value \in Seq(Bytes) /\ Len(value) = Attr!Width /\ text \in Seq(Bytes)
      /\ call[p].used = 0 /\ call[p].op = "store" /\ base \in Seq(Bytes) /\ Len(base) = Attr!Width
      /\ Attr!Slots = 1..Attr!Width /\ attr \in Attr!Attrs /\ Inside(call[p])
  <2>1. Stored(p) /\ AttrTyped
    BY DEF AttrInv, Undisturbed, Attr!StoreEnd
  <2> QED
    BY <2>1, Widths DEF AttrTyped, Calls, Inside, Stored, Attr!StoreEnd
<1>2. args = Attr!Parsed(text)
  BY <1>1, Rests DEF Attr!Args
<1>3. /\ args \in Seq(Bytes) /\ Len(args) \in Nat /\ \A i \in 1..Len(args) : value[i] = args[i]
      /\ \A i \in 1..Attr!Width : i > Len(args) => value[i] = base[i]
  BY <1>1, StoreDone
<1>4. Attr!ShownOf(value) = value
  BY DEF Attr!ShownOf
<1>5. CASE attr = "ref"
  <2>1. args = text /\ Len(text) = 3 /\ Attr!Width = 3
    BY <1>1, <1>2, <1>5, Widths DEF Attr!Parsed, Inside
  <2> HIDE DEF text, args
  <2>2. value = text
    BY <1>1, <1>3, <2>1, SeqEqual
  <2>3. Attr!Effect(base, text) = text
    BY <1>5 DEF Attr!Effect
  <2> QED
    BY <1>4, <2>2, <2>3 DEF text
<1>6. CASE attr = "val"
  <2> DEFINE x == IF text # <<>> /\ text[1] # Junk THEN text[1] ELSE 0
  <2>1. args = <<x>> /\ Attr!Width = 1
    BY <1>1, <1>2, <1>6, Widths DEF Attr!Parsed, Attr!StoreVal, Attr!IsNumber
  <2>2. text # <<>> <=> 1 <= Len(text)
    BY <1>1, EmptySeq
  <2>3. value[1] = x
    BY <1>3, <2>1
  <2>4. Attr!Effect(base, text)
          = [i \in 1..1 |-> IF i <= Len(text) /\ text[i] # Junk THEN text[i] ELSE 0]
    BY <1>1, <1>6, <2>1 DEF Attr!Effect
  <2>5. \A i \in 1..1 : value[i] = IF i <= Len(text) /\ text[i] # Junk THEN text[i] ELSE 0
    BY <2>2, <2>3
  <2>6. value = [i \in 1..1 |-> IF i <= Len(text) /\ text[i] # Junk THEN text[i] ELSE 0]
    BY <1>1, <2>1, <2>5
  <2> QED
    BY <1>4, <2>4, <2>6
<1>7. CASE attr = "checked"
  <2>1. Attr!Width = 1
    BY <1>1, <1>7, Widths
  <2>2. CASE Len(text) = 1 /\ text[1] # Junk
    <3>1. args = text /\ Attr!Effect(base, text) = text
      BY <1>2, <1>7, <2>2 DEF Attr!Parsed, Attr!StoreChecked, Attr!IsNumber, Attr!Effect
    <3> HIDE DEF text, args
    <3>2. value = text
      BY <1>1, <1>3, <2>1, <2>2, <3>1, SeqEqual
    <3> QED
      BY <1>4, <3>1, <3>2 DEF text
  <2>3. CASE ~(Len(text) = 1 /\ text[1] # Junk)
    <3>1. args = <<>> /\ Attr!Effect(base, text) = base
      BY <1>2, <1>7, <2>3 DEF Attr!Parsed, Attr!StoreChecked, Attr!IsNumber, Attr!Effect
    <3>2. Len(args) = 0
      BY <3>1, EmptySeq
    <3> HIDE DEF base, args
    <3>3. value = base
      BY <1>1, <1>3, <2>1, <3>2, SeqEqual
    <3> QED
      BY <1>4, <3>1, <3>3 DEF base
  <2> QED
    BY <2>2, <2>3
<1> QED
  BY <1>5, <1>6, <1>7

LEMMA AttrImplies ==
  ASSUME Attr!AttributesAssumption, AttrInv
  PROVE  /\ Attr!TypeOK /\ Attr!ShowStops
         /\ \A p \in Procs : Attr!ShowEnd(p) /\ call[p].clean => call[p].shown = Attr!ShownOf(value)
         /\ \A p \in Procs : Attr!StoreEnd(p) /\ call[p].clean =>
                               Attr!ShownOf(value') = Attr!Effect(call[p].base, call[p].text)
<1>1. AttrTyped /\ Attr!Slots = 1..Attr!Width
  BY Widths DEF AttrInv, AttrTyped
<1>2. Attr!TypeOK
  BY <1>1 DEF AttrTyped, Bytes, Calls, Inside, Attr!TypeOK
<1>3. Attr!ShowStops
  BY <1>1 DEF AttrTyped, Inside, Attr!ShowStops
<1>4. ASSUME NEW p \in Procs, Attr!StoreEnd(p), call[p].clean
      PROVE  Attr!ShownOf(value') = Attr!Effect(call[p].base, call[p].text)
  <2>1. value' = value
    BY <1>4 DEF Attr!StoreEnd
  <2>2. Attr!ShownOf(value) = Attr!Effect(call[p].base, call[p].text)
    BY <1>1, <1>4, StringEffect, ConfigEffect, WholeEffect DEF AttrTyped, Attr!Attrs
  <2> QED
    BY <2>1, <2>2
<1> QED
  BY <1>2, <1>3, <1>4, ShowTrue

LEMMA AttrSteps == [Next]_vars => [Attr!Next]_(Attr!avars)
  BY DEF Next, vars, attributeVars, Attr!avars

LEMMA AttrAlways == Spec => []AttrInv
<1>1. Init => AttrInv
  BY AttrInit, ProgramsAssumption DEF Init
<1>2. AttrInv /\ [Next]_vars => AttrInv'
  BY AttrStep, AttrSteps, ProgramsAssumption
<1> QED
  BY <1>1, <1>2, PTL DEF Spec

\* However many processes store into the string and show it, each strcpy of
\* sysfs_show_string stops inside sysfs_buf, whatever its size (sample05/skeleton.c:13, 21-24).
THEOREM ShowsStop == Spec => []ShowStops
<1>1. AttrInv => ShowStops
  BY AttrImplies, ProgramsAssumption DEF ShowStops
<1> QED
  BY <1>1, AttrAlways, PTL

\* A show that no store has overlapped returns the value: every field, and of a string
\* nothing of an older one, for any size of the buffer and any number of processes
\* (sample05/skeleton.c:9-15, exercice05/skeleton.c:45-56).
THEOREM ShowsTellTruth == Spec => ShowTellsTruth
<1>1. AttrInv => [\A p \in Procs : Attr!ShowEnd(p) /\ call[p].clean =>
                    call[p].shown = Attr!ShownOf(value)]_(Attr!avars)
  BY AttrImplies, ProgramsAssumption
<1> QED
  BY <1>1, AttrAlways, PTL DEF ShowTellsTruth, Attr!ShowTellsTruth

\* A write that no other store has overlapped leaves what its text says, in however many
\* pieces the driver takes it: the last piece of a string, the fields of a configuration up
\* to the first word that does not match, a number or nothing
\* (sample05/skeleton.c:16-26, exercice05.1/skeleton.c:57-69, sample06.2/skeleton.c:52-64).
THEOREM StoresTakeEffect == Spec => StoreTakesEffect
<1>1. AttrInv => [\A p \in Procs : Attr!StoreEnd(p) /\ call[p].clean =>
                    Attr!ShownOf(value') = Attr!Effect(call[p].base, call[p].text)]_(Attr!avars)
  BY AttrImplies, ProgramsAssumption
<1> QED
  BY <1>1, AttrAlways, PTL DEF StoreTakesEffect, Attr!StoreTakesEffect

-----------------------------------------------------------------------------
(* The entries of procfs *)

Written == 0..10

\* While nobody writes, what was read is a beginning of what the entry says, byte by
\* byte, as long as every read asks for all of it; and in any case no longer than it.
ReadSoFar ==
  /\ got \in Seq(Written) /\ pos = Len(got) /\ Len(got) <= Len(Procfs!Text)
  /\ whole => got = <<>> \/ got = Procfs!Text
  /\ reader = "ended" => Len(got) = Len(Procfs!Text)

EntryInv ==
  /\ entry \in {"config", "val"} /\ val \in 0..99 /\ pos \in Nat
  /\ reader \in {"reading", "ended", "failed"}
  /\ whole \in BOOLEAN /\ steady \in BOOLEAN
  /\ steady => ReadSoFar

\* What is formatted are digits and a newline.
LEMMA FormattedText == ASSUME NEW n \in 0..99 PROVE Procfs!Formatted(n) \in Seq(Written)
<1>1. n \div 10 \in Written /\ n % 10 \in Written /\ 10 \in Written
  <2> DEFINE tens == n \div 10
             ones == n % 10
  <2>1. tens \in 0..9 /\ ones \in 0..9
    OBVIOUS
  <2> HIDE DEF tens, ones
  <2>2. tens \in 0..10 /\ ones \in 0..10
    BY <2>1
  <2> QED
    BY <2>2 DEF Written, tens, ones
<1>2. <<n \div 10>> \in Seq(Written) /\ <<n % 10, 10>> \in Seq(Written) /\ <<>> \in Seq(Written)
  BY <1>1, EmptySeq
<1>3. CASE n >= 10
  <2>1. Procfs!Formatted(n) = <<n \div 10>> \o <<n % 10, 10>>
    BY <1>3 DEF Procfs!Formatted, Procfs!NL
  <2> QED
    BY <1>2, <2>1
<1>4. CASE ~(n >= 10)
  <2>1. Procfs!Formatted(n) = <<>> \o <<n % 10, 10>>
    BY <1>4 DEF Procfs!Formatted, Procfs!NL
  <2> QED
    BY <1>2, <2>1
<1> QED
  BY <1>3, <1>4

LEMMA TextWritten ==
  ASSUME Procfs!ProcfsEntryAssumption, entry \in {"config", "val"}, val \in 0..99
  PROVE  Procfs!Text \in Seq(Written)
BY FormattedText DEF Procfs!Text, Procfs!ProcfsEntryAssumption, Written

LEMMA EntryInit == Procfs!ProcfsEntryAssumption /\ Procfs!Init => EntryInv
<1> SUFFICES ASSUME Procfs!ProcfsEntryAssumption, Procfs!Init
             PROVE  EntryInv
  OBVIOUS
<1>1. /\ entry \in {"config", "val"} /\ val \in 0..99 /\ pos = 0
      /\ got = <<>> /\ reader = "reading" /\ whole = TRUE /\ steady = TRUE
  BY DEF Procfs!Init, Procfs!ProcfsEntryAssumption
<1>2. got \in Seq(Written) /\ Len(got) = 0
  BY <1>1, EmptySeq
<1>3. Len(Procfs!Text) \in Nat
  BY <1>1, TextWritten
<1>4. ReadSoFar
  BY <1>1, <1>2, <1>3 DEF ReadSoFar
<1> QED
  BY <1>1, <1>4 DEF EntryInv

\* One piece: what was asked for or what is left, and of the beginning of the text.
LEMMA PieceRead ==
  ASSUME NEW text \in Seq(Written), NEW g \in Seq(Written), Len(g) <= Len(text),
         NEW n \in Nat, n <= Len(text) - Len(g),
         NEW piece, piece = [i \in 1..n |-> IF i <= Len(text) THEN text[i] ELSE 11]
  PROVE  /\ g \o piece \in Seq(Written) /\ Len(g \o piece) = Len(g) + n
         /\ n = 0 => g \o piece = g
         /\ g = <<>> /\ n = Len(text) => g \o piece = text
<1>1. n <= Len(text)
  OBVIOUS
<1>2. piece = [i \in 1..n |-> text[i]]
  BY <1>1
<1>3. piece \in Seq(Written) /\ Len(piece) = n
  BY <1>1, <1>2
<1>4. g \o piece \in Seq(Written) /\ Len(g \o piece) = Len(g) + n
  BY <1>3
<1>5. ASSUME n = 0
      PROVE  g \o piece = g
  <2>1. piece = <<>>
    BY <1>3, <1>5, EmptySeq
  <2> QED
    BY <2>1
<1>6. ASSUME g = <<>>, n = Len(text)
      PROVE  g \o piece = text
  <2>1. piece = [i \in 1..Len(text) |-> text[i]]
    BY <1>2, <1>6
  <2>2. piece = text
    BY <2>1
  <2>3. <<>> \o text = text
    OBVIOUS
  <2> QED
    BY <1>6, <2>2, <2>3
<1> QED
  BY <1>4, <1>5, <1>6

LEMMA PieceKeeps ==
  ASSUME Procfs!ProcfsEntryAssumption, EntryInv, NEW count \in 1..MaxCount,
         Procfs!ReadPiece(count)
  PROVE  EntryInv'
<1> DEFINE text == Procfs!Text
           n == Procfs!Limited(count)
<1>1. text \in Seq(Written) /\ text' = text
  BY TextWritten DEF EntryInv, Procfs!ReadPiece, Procfs!Text
<1>2. /\ pos' = pos + n /\ (got' = IF steady THEN got \o Procfs!Piece(n) ELSE <<>>)
      /\ reader' = IF n = 0 THEN "ended" ELSE "reading"
      /\ whole' = (whole /\ count >= Len(text))
      /\ entry' = entry /\ val' = val /\ steady' = steady
      /\ reader = "reading"
  BY DEF Procfs!ReadPiece
<1>3. n \in Nat
  BY <1>1 DEF EntryInv, Procfs!Limited
<1>4. /\ entry' \in {"config", "val"} /\ val' \in 0..99 /\ pos' \in Nat
      /\ reader' \in {"reading", "ended", "failed"}
      /\ whole' \in BOOLEAN /\ steady' \in BOOLEAN
  <2>1. whole' \in BOOLEAN
    BY <1>2
  <2>2. reader' \in {"reading", "ended", "failed"}
    BY <1>2
  <2> QED
    BY <1>2, <1>3, <2>1, <2>2 DEF EntryInv
<1>5. ASSUME steady
      PROVE  ReadSoFar'
  <2>1. /\ got \in Seq(Written) /\ pos = Len(got) /\ Len(got) <= Len(text)
        /\ whole => got = <<>> \/ got = text
    BY <1>5 DEF EntryInv, ReadSoFar
  <2>2. n = IF Len(text) - pos < count THEN Len(text) - pos ELSE count
    BY <1>1, <2>1 DEF Procfs!Limited
  <2> DEFINE piece == Procfs!Piece(n)
  <2>3. piece = [i \in 1..n |-> IF i <= Len(text) THEN text[i] ELSE 11]
    BY DEF Procfs!Piece, Procfs!Unset
  <2>4. got' = got \o piece
    BY <1>2, <1>5
  <2> HIDE DEF text, n, piece
  <2>5. n <= Len(text) - Len(got)
    BY <1>1, <2>1, <2>2
  <2>6. /\ got \o piece \in Seq(Written) /\ Len(got \o piece) = Len(got) + n
        /\ n = 0 => got \o piece = got
        /\ got = <<>> /\ n = Len(text) => got \o piece = text
    BY <1>1, <1>3, <2>1, <2>3, <2>5, PieceRead
  <2>7. got' \in Seq(Written) /\ pos' = Len(got') /\ Len(got') <= Len(text')
    <3>1. got' \in Seq(Written) /\ Len(got') = Len(got) + n
      BY <2>4, <2>6
    <3>2. pos' = Len(got')
      BY <1>2, <2>1, <3>1
    <3>3. Len(got') <= Len(text)
      BY <1>1, <1>3, <2>1, <2>5, <3>1
    <3> QED
      BY <1>1, <3>1, <3>2, <3>3
  <2>8. ASSUME whole'
        PROVE  got' = <<>> \/ got' = text'
    <3>1. whole /\ count >= Len(text)
      BY <1>2, <2>8 DEF text
    <3>2. CASE got = <<>>
      <4>1. Len(got) = 0
        BY <3>2, EmptySeq
      <4>2. n = Len(text)
        BY <1>1, <2>1, <2>2, <3>1, <4>1
      <4> QED
        BY <1>1, <2>4, <2>6, <3>2, <4>2
    <3>3. CASE got = text
      <4>1. n = 0
        BY <1>1, <2>1, <2>2, <3>3
      <4> QED
        BY <1>1, <2>4, <2>6, <3>3, <4>1
    <3> QED
      BY <2>1, <3>1, <3>2, <3>3
  <2>9. ASSUME reader' = "ended"
        PROVE  Len(got') = Len(text')
    <3>1. n = 0
      BY <1>2, <2>9 DEF n
    <3>2. Len(text) - pos = 0
      BY <1>1, <2>1, <2>2, <3>1
    <3> QED
      BY <1>1, <2>1, <2>4, <2>6, <3>1, <3>2
  <2> QED
    BY <2>7, <2>8, <2>9 DEF ReadSoFar, text
<1> QED
  BY <1>2, <1>4, <1>5 DEF EntryInv

LEMMA EntryStep ==
  Procfs!ProcfsEntryAssumption /\ EntryInv /\ [Procfs!Next]_(Procfs!pvars) => EntryInv'
<1> SUFFICES ASSUME Procfs!ProcfsEntryAssumption, EntryInv, [Procfs!Next]_(Procfs!pvars)
             PROVE  EntryInv'
  OBVIOUS
<1>1. ASSUME NEW count \in 1..MaxCount, Procfs!ReadPiece(count)
      PROVE  EntryInv'
  BY <1>1, PieceKeeps
<1>2. ASSUME NEW count \in 1..MaxCount, Procfs!ReadFail(count)
      PROVE  EntryInv'
  <2>1. Procfs!Text' = Procfs!Text /\ got' = got /\ pos' = pos /\ whole' = whole /\ steady' = steady
    BY <1>2 DEF Procfs!ReadFail, Procfs!Text
  <2>2. entry' = entry /\ val' = val /\ reader' = "failed"
    BY <1>2 DEF Procfs!ReadFail
  <2>3. steady => ReadSoFar'
    BY <2>1, <2>2 DEF EntryInv, ReadSoFar
  <2> QED
    BY <2>1, <2>2, <2>3 DEF EntryInv
<1>3. CASE Procfs!WriteVal
  <2>1. PICK v \in Vals \union {0}, ended \in BOOLEAN :
          val' \in {v} \union (IF ended THEN {} ELSE Procfs!Longer(v))
    BY <1>3 DEF Procfs!WriteVal
  <2>2. v \in 0..99 /\ Stray \subseteq 0..9
    BY DEF Procfs!ProcfsEntryAssumption
  <2>3. ASSUME NEW w \in Procfs!Longer(v)
        PROVE  w \in 0..99
    <3>1. v < 10 /\ \E d \in Stray : w = 10 * v + d
      BY <2>3 DEF Procfs!Longer
    <3> QED
      BY <2>2, <3>1
  <2>4. val' \in 0..99
    BY <2>1, <2>2, <2>3
  <2> QED
    BY <1>3, <2>4 DEF EntryInv, Procfs!WriteVal
<1>4. CASE UNCHANGED Procfs!pvars
  BY <1>4 DEF Procfs!pvars, EntryInv, ReadSoFar, Procfs!Text
<1> QED
  BY <1>1, <1>2, <1>3, <1>4 DEF Procfs!Next, Procfs!Reader

LEMMA EntryImplies == Procfs!ProcfsEntryAssumption /\ EntryInv => WholeText
<1> SUFFICES ASSUME Procfs!ProcfsEntryAssumption, EntryInv, steady
             PROVE  /\ Len(got) <= Len(Procfs!Text)
                    /\ \A n \in DOMAIN got : got[n] # Procfs!Unset
                    /\ whole /\ reader = "ended" => got = Procfs!Text
  BY DEF WholeText, Procfs!WholeText
<1>1. ReadSoFar /\ Procfs!Text \in Seq(Written)
  BY TextWritten DEF EntryInv
<1>2. \A n \in DOMAIN got : got[n] # Procfs!Unset
  BY <1>1 DEF ReadSoFar, Written, Procfs!Unset
<1>3. ASSUME whole, reader = "ended"
      PROVE  got = Procfs!Text
  <2>1. CASE got = <<>>
    <3>1. Len(Procfs!Text) = 0
      BY <1>1, <1>3, <2>1, EmptySeq DEF ReadSoFar
    <3>2. Procfs!Text = <<>>
      BY <1>1, <3>1, EmptySeq
    <3> QED
      BY <2>1, <3>2
  <2> QED
    BY <1>1, <1>3, <2>1 DEF ReadSoFar
<1> QED
  BY <1>1, <1>2, <1>3 DEF ReadSoFar

LEMMA ProcfsSteps == [Next]_vars => [Procfs!Next]_(Procfs!pvars)
  BY DEF Next, vars, procfsVars, Procfs!pvars

\* While nobody writes, whatever pieces a reader of /proc/mymodule asks for, it gets no
\* more than the entry says; and all of it when it asks for all of it
\* (03_drivers/exercice10/skeleton.c, skeleton_read_config and skeleton_read_val).
THEOREM ReadsWholeText == Spec => []WholeText
<1>1. Init => EntryInv
  BY EntryInit, ProgramsAssumption DEF Init
<1>2. EntryInv /\ [Next]_vars => EntryInv'
  BY EntryStep, ProcfsSteps, ProgramsAssumption
<1>3. EntryInv => WholeText
  BY EntryImplies, ProgramsAssumption
<1> QED
  BY <1>1, <1>2, <1>3, PTL DEF Spec
=============================================================================
