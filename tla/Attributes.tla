----------------------------- MODULE Attributes -----------------------------
(***************************************************************************)
(* What processes read and write as text through sysfs, or as a structure  *)
(* through ioctl: the attributes of 03_drivers/exercice05 and 05.1 (val,   *)
(* cfg), sample05 and 05.1 (a string), sample06.2 and 06.3 (val, with      *)
(* kstrtol), and the configuration of exercice09.                          *)
(*                                                                         *)
(* An attribute is a row of slots: one number, the fields of a structure   *)
(* (id, ref and name; descr, a second name, is left out), the bytes of a   *)
(* string.  Nothing locks it, so stores and shows of several processes go  *)
(* through it slot by slot.  A word of a text is a number or Junk, which   *)
(* does as a name; each process writes a number of its own, to tell whose  *)
(* it is.  Names that do not fit their field are left out.                 *)
(***************************************************************************)
EXTENDS Integers, Sequences, FiniteSets

CONSTANTS
  Procs,    \* the processes, each the number it writes
  Junk,     \* a word that is no number
  Size,     \* sizeof(sysfs_buf)
  MaxText   \* bound: words of a text

\* What the constants have to be; whoever gives them values assumes it.
AttributesAssumption ==
  /\ Procs \subseteq Nat \ {0}
  /\ Junk \notin Nat
  /\ Size \in Nat \ {0, 1} /\ MaxText \in Nat

VARIABLES
  attr,   \* the attribute, chosen at the start
  value,  \* its slots
  call    \* what each process is doing

avars == <<attr, value, call>>

Attrs == {"val", "cfg", "checked", "string", "ref"}

Width == CASE attr = "string" -> Size
           [] attr \in {"cfg", "ref"} -> 3
           [] OTHER -> 1

Slots == 1..Width

\* A call: its text, how much of it earlier stores have taken, the slots done,
\* what a show has found, and for the properties: has no store overlapped it,
\* and the value it started from.
Idle == [op |-> "idle", text |-> <<>>, used |-> 0, done |-> 0, shown |-> <<>>,
         clean |-> TRUE, base |-> <<>>]

Init ==
  /\ attr \in Attrs
  /\ value = [i \in Slots |-> 0]
  /\ call = [p \in Procs |-> Idle]

-----------------------------------------------------------------------------
(* From the text to the slots *)

IsNumber(w) == w # Junk

Least(m, n) == IF m < n THEN m ELSE n

First(text, n) == SubSeq(text, 1, Least(n, Len(text)))

\* simple_strtol: what is no number counts as 0.
StoreVal(text) == <<IF text # <<>> /\ IsNumber(text[1]) THEN text[1] ELSE 0>>

\* kstrtol: what is not one number is an error, and leaves the value alone.
StoreChecked(text) == IF Len(text) = 1 /\ IsNumber(text[1]) THEN text ELSE <<>>

\* sscanf("%d %ld %s %s"): as many fields as match, from the first on.
StoreCfg(text) ==
  First(text, CASE text # <<>> /\ ~IsNumber(text[1]) -> 0
                [] Len(text) > 1 /\ ~IsNumber(text[2]) -> 1
                [] OTHER -> Width)

\* (mutant) sizeof without the - 1
TakenWhole(text) == IF attr = "string" THEN Least(Size, Len(text)) ELSE Len(text)

\* A store returns how much it has taken: all, but for the string.
Taken(text) == IF attr = "string" THEN Least(Size - 1, Len(text)) ELSE Len(text)

\* (mutant) the string is not terminated
StoreStringOpenEnded(text) == First(text, Taken(text))

\* strncpy, and a NUL behind what was taken
StoreString(text) == Append(First(text, Taken(text)), 0)

Parsed(text) == CASE attr = "val" -> StoreVal(text)
                  [] attr = "checked" -> StoreChecked(text)
                  [] attr = "cfg" -> StoreCfg(text)
                  [] attr = "string" -> StoreString(text)
                  [] attr = "ref" -> text

\* The structure of exercice09 always comes whole, and RESET zeroes it.  The other
\* texts hold one word of Junk at most; a string is never empty.
Texts(p) ==
  IF attr = "ref" THEN {<<p, p, p>>, <<0, 0, 0>>}
  ELSE {t \in UNION {[1..n -> {p, Junk}] : n \in 0..MaxText} :
          /\ attr = "string" => t # <<>>
          /\ \A i, j \in DOMAIN t : t[i] = Junk /\ t[j] = Junk => i = j}

\* What the running store of p has to put into the slots.
Rest(p) == SubSeq(call[p].text, call[p].used + 1, Len(call[p].text))
Args(p) == Parsed(Rest(p))

-----------------------------------------------------------------------------
(* sysfs_store_*, SKELETON_IO_WR_REF, SKELETON_IO_RESET *)

Storing == {p \in Procs : call[p].op = "store"}

StoreBegin(p, text) ==
  /\ call[p].op = "idle"
  /\ call' = [q \in Procs |->
                IF q = p THEN [Idle EXCEPT !.op = "store", !.text = text,
                                           !.clean = Storing = {},
                                           !.base = IF Storing = {} THEN value ELSE <<>>]
                ELSE IF call[q].op = "idle" THEN call[q]
                ELSE [call[q] EXCEPT !.clean = FALSE, !.base = <<>>]]
  /\ UNCHANGED <<attr, value>>

StoreSlot(p) ==
  /\ call[p].op = "store" /\ call[p].done < Len(Args(p))
  /\ value' = [value EXCEPT ![call[p].done + 1] = Args(p)[call[p].done + 1]]
  /\ call' = [call EXCEPT ![p].done = @ + 1]
  /\ UNCHANGED attr

\* The caller writes again what the store has not taken.
StoreAgain(p) ==
  /\ call[p].op = "store" /\ call[p].done = Len(Args(p))
  /\ Taken(Rest(p)) < Len(Rest(p))
  /\ call' = [call EXCEPT ![p].used = @ + Taken(Rest(p)), ![p].done = 0]
  /\ UNCHANGED <<attr, value>>

StoreEnd(p) ==
  /\ call[p].op = "store" /\ call[p].done = Len(Args(p))
  /\ Taken(Rest(p)) = Len(Rest(p))
  /\ call' = [call EXCEPT ![p] = Idle]
  /\ UNCHANGED <<attr, value>>

\* copy_from_user faults half-way: the kernel zeroes the rest.
StoreFault(p) ==
  /\ attr = "ref" /\ call[p].op = "store" /\ call[p].done < Width
  /\ value' = [i \in Slots |-> IF i > call[p].done THEN 0 ELSE value[i]]
  /\ call' = [call EXCEPT ![p] = Idle]
  /\ UNCHANGED attr

-----------------------------------------------------------------------------
(* sysfs_show_*, SKELETON_IO_RD_REF *)

ShowBegin(p) ==
  /\ call[p].op = "idle"
  /\ call' = [call EXCEPT ![p] = [Idle EXCEPT !.op = "show", !.clean = Storing = {}]]
  /\ UNCHANGED <<attr, value>>

\* (mutant) sprintf lacks its last argument
ShownShort(seen) == IF attr = "cfg" THEN Len(seen) = Width - 1 ELSE Len(seen) = Width

\* strcpy stops at the NUL.
Shown(seen) ==
  \/ Len(seen) = Width
  \/ attr = "string" /\ seen # <<>> /\ seen[Len(seen)] = 0

ShowSlot(p) ==
  /\ call[p].op = "show" /\ ~Shown(call[p].shown)
  /\ call' = [call EXCEPT ![p].shown = Append(@, value[Len(@) + 1])]
  /\ UNCHANGED <<attr, value>>

ShowEnd(p) ==
  /\ call[p].op = "show" /\ Shown(call[p].shown)
  /\ call' = [call EXCEPT ![p] = Idle]
  /\ UNCHANGED <<attr, value>>

Step(p) ==
  \/ \E text \in Texts(p) : StoreBegin(p, text)
  \/ StoreSlot(p) \/ StoreAgain(p) \/ StoreEnd(p) \/ StoreFault(p)
  \/ ShowBegin(p) \/ ShowSlot(p) \/ ShowEnd(p)

Next == \E p \in Procs : Step(p)

Spec == Init /\ [][Next]_avars

-----------------------------------------------------------------------------
(* Properties *)

\* Type invariant; no store takes more than it was given.
TypeOK ==
  /\ attr \in Attrs
  /\ DOMAIN value = Slots
  /\ \A i \in Slots : value[i] \in Procs \union {0, Junk}
  /\ \A p \in Procs : /\ call[p].op \in {"idle", "store", "show"}
                      /\ call[p].used <= Len(call[p].text)
                      /\ Len(call[p].shown) <= Width

\* However many stores of the string run into each other, a show finds a NUL
\* inside sysfs_buf: its strcpy stops (sample05/skeleton.c:13, 21-24).
ShowStops ==
  attr = "string" =>
    \A p \in Procs : Len(call[p].shown) = Size => call[p].shown[Size] = 0

\* What a show makes of a value.
ShownOf(v) ==
  IF attr = "string"
  THEN SubSeq(v, 1, CHOOSE n \in Slots : v[n] = 0 /\ \A m \in 1..(n - 1) : v[m] # 0)
  ELSE v

\* What writing a text must come to, said without the stores: a string that is
\* longer than the buffer leaves its last piece alone, a configuration keeps the
\* fields behind the first word that does not match.
Effect(base, text) ==
  CASE attr = "string" ->
         Append(SubSeq(text, ((Len(text) - 1) \div (Size - 1)) * (Size - 1) + 1, Len(text)), 0)
    [] attr = "cfg" ->
         [i \in Slots |->
            IF i <= Len(text) /\ \A j \in 1..Least(i, 2) : text[j] # Junk THEN text[i] ELSE base[i]]
    [] attr = "val" -> [i \in Slots |-> IF i <= Len(text) /\ text[i] # Junk THEN text[i] ELSE 0]
    [] attr = "checked" -> IF Len(text) = 1 /\ text[1] # Junk THEN text ELSE base
    [] attr = "ref" -> text

\* A write that met no other store on its way, shows or not, leaves what its text
\* says, whether the driver took it in one piece or in several.
StoreTakesEffect ==
  [][\A p \in Procs :
       StoreEnd(p) /\ call[p].clean =>
         ShownOf(value') = Effect(call[p].base, call[p].text)]_avars

\* A show that met no store on its way returns the value: all its fields, and of a
\* string no byte of an older one.
ShowTellsTruth ==
  [][\A p \in Procs : ShowEnd(p) /\ call[p].clean => call[p].shown = ShownOf(value)]_avars
=============================================================================
