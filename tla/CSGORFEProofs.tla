--------------------------- MODULE CSGORFEProofs ---------------------------
(***************************************************************************)
(* Proofs about the object splitter for every object: the headers it       *)
(* appends fill the room it reserved, and symbols, relocations and         *)
(* functions keep their bytes.                                             *)
(***************************************************************************)
EXTENDS CSGORFE, WellFoundedInduction, FiniteSetTheorems, FunctionTheorems, TLAPS

\* A set of natural numbers that is not empty has a least element.
LEMMA LeastNat ==
    ASSUME NEW S \in SUBSET Nat, S # {}
    PROVE  \E m \in S : \A e \in S : m <= e
<1> DEFINE R == OpToRel(<, Nat)
<1>1. PICK m \in S : \A e \in S : ~ (<<e, m>> \in R)
  <2>1. IsWellFoundedOn(R, Nat)
    BY NatLessThanWellFounded
  <2> HIDE DEF R
  <2> QED BY <2>1, WFMin
<1>2. \A e \in S : e < m => <<e, m>> \in R
  BY DEF OpToRel
<1> HIDE DEF R
<1>3. \A e \in S : ~ (e < m)
  BY <1>1, <1>2
<1>4. \A e \in S : e \in Nat
  OBVIOUS
<1> QED BY <1>3, <1>4

\* One that has an upper bound has a greatest element.
LEMMA GreatestNat ==
    ASSUME NEW n \in Nat, NEW S \in SUBSET (0 .. n), S # {}
    PROVE  \E m \in S : \A e \in S : e <= m
<1> DEFINE T == {n - e : e \in S}
<1>0. \A e \in S : e \in 0 .. n /\ n - e \in Nat
  OBVIOUS
<1>1. T \in SUBSET Nat /\ T # {}
  BY <1>0
<1>2. PICK t \in T : \A u \in T : t <= u
  BY <1>1, LeastNat
<1>3. PICK m \in S : t = n - m
  BY <1>2
<1>4. \A e \in S : e <= m
  <2> TAKE e \in S
  <2>1. t <= n - e
    BY <1>2
  <2>2. e \in Int /\ m \in Int /\ n \in Int
    BY <1>0
  <2> HIDE DEF T
  <2> QED BY <2>1, <2>2, <1>3
<1> QED BY <1>3, <1>4

(***************************************************************************)
(* The inductive invariant.                                                *)
(***************************************************************************)
Func == [start : Nat, size : Nat \ {0}, shndx : Nat]
RelaHeader == [kind : {"rela"}, of : Nat, off : Nat, size : Nat, info : Nat]
Header == [kind : {"text"}, off : Nat, size : Nat] \cup RelaHeader
          \cup [kind : {"other"}]

Relas == Len(obj.relas)

\* A list of functions that passed validateFunctions.
FuncsOK(f) ==
    /\ f \in Seq(Func) /\ Len(f) > 1 /\ f[1].start = 0
    /\ \A a, b \in DOMAIN f : a < b => f[a].start + f[a].size <= f[b].start

\* Every function symbol starts at an entry of the list that is as large.
Listed(f) ==
    \A s \in FuncSyms : \E a \in DOMAIN f : /\ f[a].start = obj.syms[s].value
                                            /\ obj.syms[s].size <= f[a].size

\* The function that takes relocation a of section m.
Owner(m, a) == functionForOffset(funcs, obj.relas[m][a])

\* The relocations in front of relocation a of section m at which a header is added.
BreaksBefore(m, a) ==
    {x \in Nat \X Nat :
        /\ x[1] \in DOMAIN obj.relas
        /\ x[2] \in GroupStarts(x[1]) \ {1}
        /\ x[1] < m \/ (x[1] = m /\ x[2] < a)}

\* The room needed when the walk is at relocation a of section m.
Room(m, a) == Len(funcs) - 1 + Cardinality(BreaksBefore(m, a))

\* Before and after the text is split.
Before == pc \in {"collect", "reserve", "text"}
After == pc \in {"relocs", "symbols", "write"} \/ (pc = "done" /\ linked = "split")

Untouched ==
    /\ shdrs = InitialHeaders(obj) /\ offs = obj.relas /\ i = 1
    /\ currentFunc = 0 /\ currentRela = 0
    /\ pc # "reserve" => k = 1

Original == [s \in DOMAIN obj.syms |-> [value |-> obj.syms[s].value,
                                        shndx |-> TextIndex]]

Counted ==
    /\ pc = "reserve" => k \in 1 .. Relas + 1 /\ extra = Room(k, 1)
    /\ pc = "text" \/ After => extra = Room(Relas + 1, 1)
    /\ After => Len(shdrs) = Headers + Room(k, i)

\* Where the header of a function is.
TextPos(a) == IF a = 1 THEN TextIndex ELSE Headers + a - 1

TextsInPlace ==
    /\ shdrs \in Seq(Header) /\ Headers + Len(funcs) - 1 <= Len(shdrs)
    /\ \A a \in DOMAIN funcs :
          /\ TextPos(a) \in DOMAIN shdrs /\ shdrs[TextPos(a)] = TextHeader(funcs[a])
          /\ funcs[a].shndx = IF a = 1 THEN TextIndex ELSE TextPos(a) % IndexRange
    /\ \A h \in TextSections : \E a \in DOMAIN funcs : h = TextPos(a)

\* Where the walk is.
Walk ==
    /\ k \in 1 .. Relas + 1 /\ i \in Nat \ {0}
    /\ k <= Relas => i <= Len(obj.relas[k]) + 1
    /\ k > Relas => i = 1
    /\ pc # "relocs" => k > Relas

\* Relocation a of section m was given its header.
Placed(m, a) == m < k \/ (m = k /\ a < i)

OffsetsSoFar ==
    /\ DOMAIN offs = DOMAIN obj.relas
    /\ \A m \in DOMAIN obj.relas :
          /\ DOMAIN offs[m] = DOMAIN obj.relas[m]
          /\ \A a \in DOMAIN obj.relas[m] :
                offs[m][a] = IF Placed(m, a)
                             THEN obj.relas[m][a] - funcs[Owner(m, a)].start
                             ELSE obj.relas[m][a]

RelaSections == {h \in DOMAIN shdrs : shdrs[h].kind = "rela"}
Ends(h) == shdrs[h].off + shdrs[h].size

\* Each relocation section has its own header, alone until it is walked.
OwnHeaders ==
    /\ \A m \in DOMAIN obj.relas : /\ RelaIndex(m) \in RelaSections
                                   /\ shdrs[RelaIndex(m)].of = m
                                   /\ shdrs[RelaIndex(m)].off = 0
    /\ \A h \in RelaSections : ~ Placed(shdrs[h].of, 1) => h = RelaIndex(shdrs[h].of)

\* What a header covers is of one function, the one it names.
HeadersTrue ==
    \A h \in RelaSections :
        /\ shdrs[h].of \in DOMAIN obj.relas
        /\ Ends(h) <= Len(obj.relas[shdrs[h].of])
        /\ \A a \in shdrs[h].off + 1 .. Ends(h) :
              Placed(shdrs[h].of, a) => shdrs[h].info = funcs[Owner(shdrs[h].of, a)].shndx

HeadersApart ==
    \A g, h \in RelaSections :
        g # h /\ shdrs[g].of = shdrs[h].of => Ends(g) <= shdrs[h].off \/ Ends(h) <= shdrs[g].off

Covered ==
    \A m \in DOMAIN obj.relas : \A a \in DOMAIN obj.relas[m] :
        Placed(m, a) => \E h \in RelaSections : /\ shdrs[h].of = m
                                                /\ shdrs[h].off < a /\ a <= Ends(h)

\* The group being filled.
Current ==
    /\ i = 1 => currentFunc = 0 /\ currentRela = 0
    /\ i > 1 /\ k <= Relas =>
          /\ currentFunc = Owner(k, i - 1)
          /\ currentRela \in RelaSections /\ shdrs[currentRela].of = k
          /\ shdrs[currentRela].off < i - 1 /\ Ends(currentRela) = i - 1
          /\ \A h \in RelaSections : shdrs[h].of = k /\ h # currentRela =>
                                          Ends(h) <= shdrs[currentRela].off

Grouped == /\ Walk /\ OffsetsSoFar /\ OwnHeaders /\ HeadersTrue /\ HeadersApart
           /\ Covered /\ Current

MovedSymbols ==
    [s \in DOMAIN obj.syms |->
        LET f == functionForOffset(funcs, obj.syms[s].value)
        IN  IF obj.syms[s].text
            THEN [value |-> obj.syms[s].value - funcs[f].start, shndx |-> funcs[f].shndx]
            ELSE [value |-> obj.syms[s].value, shndx |-> TextIndex]]

IInv ==
    /\ obj \in Object
    /\ pc \in {"collect", "reserve", "text", "relocs", "symbols", "write", "done"}
    /\ pc = "done" => linked \in {"split", "original"}
    /\ Before => Untouched
    /\ Before \/ pc \in {"relocs", "symbols"} => syms = Original
    /\ pc \in {"reserve", "text"} \/ After => FuncsOK(funcs) /\ Listed(funcs)
    /\ Counted
    /\ After => TextsInPlace /\ Grouped
    /\ pc \in {"write", "done"} /\ After => syms = MovedSymbols

(***************************************************************************)
(* The functions.                                                          *)
(***************************************************************************)
\* Concatenation and functions over 1 .. n as sequences.
LEMMA Concat ==
    ASSUME NEW S, NEW s \in Seq(S), NEW t \in Seq(S)
    PROVE  /\ s \o t \in Seq(S) /\ Len(s \o t) = Len(s) + Len(t)
           /\ \A h \in 1 .. Len(s) + Len(t) :
                 (s \o t)[h] = IF h <= Len(s) THEN s[h] ELSE t[h - Len(s)]
  OBVIOUS

LEMMA FnSeq ==
    ASSUME NEW S, NEW n \in Nat, NEW f \in [1 .. n -> S]
    PROVE  f \in Seq(S) /\ Len(f) = n /\ DOMAIN f = 1 .. n
  OBVIOUS

\* What is known of an object that is read.
LEMMA ObjType == ASSUME obj \in Object
                 PROVE  /\ obj.size \in Nat /\ obj.syms \in Seq(Sym)
                        /\ obj.relas \in Seq(Seq(Nat)) /\ obj.others \in Nat
  BY DEF Object

\* The function symbols have finitely many starts.
LEMMA StartsFinite ==
    ASSUME obj \in Object
    PROVE  /\ Cardinality(Starts) \in Nat /\ IsFiniteSet(Starts)
           /\ \A s \in FuncSyms : obj.syms[s].value \in Nat
                                  /\ obj.syms[s].size \in Nat \ {0}
<1>1. obj.syms \in Seq(Sym)
  BY ObjType
<1>2. IsFiniteSet(1 .. Len(obj.syms)) /\ FuncSyms \in SUBSET (1 .. Len(obj.syms))
  <2>1. Len(obj.syms) \in Nat /\ DOMAIN obj.syms = 1 .. Len(obj.syms)
    BY <1>1
  <2>2. IsFiniteSet(1 .. Len(obj.syms))
    BY <2>1, FS_Interval
  <2> QED BY <2>1, <2>2 DEF FuncSyms
<1>3. IsFiniteSet(FuncSyms)
  BY <1>2, FS_Subset
<1>4. IsFiniteSet(Starts)
  <2> DEFINE val == [s \in FuncSyms |-> obj.syms[s].value]
  <2>1. val \in [FuncSyms -> Starts] /\ \A v \in Starts : \E s \in FuncSyms : val[s] = v
    BY DEF Starts
  <2> HIDE DEF val
  <2>2. val \in Surjection(FuncSyms, Starts)
    BY <2>1, Fun_IsSurj
  <2> QED BY <1>3, <2>2, FS_Surjection
<1>5. \A s \in FuncSyms : obj.syms[s] \in Sym
  BY <1>1 DEF FuncSyms
<1>6. \A s \in FuncSyms : obj.syms[s].value \in Nat /\ obj.syms[s].size \in Nat \ {0}
  BY <1>5 DEF FuncSyms, Sym
<1> QED BY <1>4, <1>6, FS_CardinalityType

\* Of the symbols that start at one offset one is the largest.
LEMMA LargestExists ==
    ASSUME obj \in Object, ~OutOfText, NEW v \in Starts
    PROVE  \E m \in {obj.syms[s].size : s \in FuncSyms} :
              /\ \E s \in FuncSyms : obj.syms[s].value = v /\ obj.syms[s].size = m
              /\ \A s \in FuncSyms : obj.syms[s].value = v => obj.syms[s].size <= m
<1> DEFINE sizes == {obj.syms[s].size : s \in {t \in FuncSyms : obj.syms[t].value = v}}
<1>1. \A s \in FuncSyms : /\ obj.syms[s].value \in Nat
                          /\ obj.syms[s].size \in Nat \ {0}
                          /\ obj.syms[s].size <= obj.size
  <2>1. obj.size \in Nat
    BY ObjType
  <2>2. \A s \in FuncSyms : ~(obj.syms[s].value + obj.syms[s].size > obj.size)
    BY DEF OutOfText
  <2> QED BY <2>1, <2>2, StartsFinite
<1>2. sizes \in SUBSET (0 .. obj.size) /\ sizes # {} /\ obj.size \in Nat
  <2>1. PICK s \in FuncSyms : v = obj.syms[s].value
    BY DEF Starts
  <2>2. obj.size \in Nat
    BY ObjType
  <2>3. obj.syms[s].size \in sizes
    BY <2>1
  <2>4. \A x \in sizes : x \in 0 .. obj.size
    BY <1>1, <2>2
  <2> QED BY <2>2, <2>3, <2>4
<1>3. PICK n \in sizes : \A x \in sizes : x <= n
  <2> HIDE DEF sizes
  <2> QED BY <1>2, GreatestNat
<1> QED BY <1>3

\* The size kept for a start is that of a symbol.
LEMMA LargestType ==
    ASSUME obj \in Object, ~OutOfText, NEW v \in Starts
    PROVE  Largest(v) \in Nat \ {0}
<1>1. Largest(v) \in {obj.syms[s].size : s \in FuncSyms}
  BY LargestExists DEF Largest
<1> QED BY <1>1, StartsFinite

\* What the sort, the merge and validateFunctions leave.
LEMMA ValidFunctions ==
    ASSUME obj \in Object, ~OutOfText, NEW f \in SortedFunctions,
           Len(f) > 1, validateFunctions(f)
    PROVE  FuncsOK(f)
<1> DEFINE n == Cardinality(Starts)
           FI == {[start |-> v, size |-> Largest(v), shndx |-> 0] : v \in Starts}
<1>1. n \in Nat
  BY StartsFinite
<1>2. \A x \in FI : x \in Func
  <2> SUFFICES ASSUME NEW v \in Starts
               PROVE  [start |-> v, size |-> Largest(v), shndx |-> 0] \in Func
    OBVIOUS
  <2>1. v \in Nat
    BY StartsFinite DEF Starts
  <2> QED BY <2>1, LargestType DEF Func
<1>3. f \in [1 .. n -> FI] /\ \A a, b \in DOMAIN f : a < b => f[a].start < f[b].start
  BY DEF SortedFunctions
<1> HIDE DEF n, FI
<1>4. f \in [1 .. n -> Func]
  BY <1>2, <1>3
<1>5. f \in Seq(Func) /\ DOMAIN f = 1 .. Len(f) /\ Len(f) \in Nat
  BY <1>1, <1>4
<1>6. \A a \in DOMAIN f : f[a].start \in Nat /\ f[a].size \in Nat
  BY <1>4 DEF Func
<1>7. ASSUME NEW a \in DOMAIN f, NEW b \in DOMAIN f, a < b
      PROVE  f[a].start + f[a].size <= f[b].start
  <2>1. a # Len(f) /\ a + 1 \in DOMAIN f /\ (b = a + 1 \/ a + 1 < b)
    BY <1>5, <1>7
  <2>2. f[a].start + f[a].size <= f[a + 1].start
    BY <2>1 DEF validateFunctions
  <2>3. f[a + 1].start <= f[b].start
    BY <1>3, <1>6, <2>1
  <2> QED BY <1>6, <2>1, <2>2, <2>3
<1> QED BY <1>5, <1>7 DEF FuncsOK, validateFunctions

\* The function of an offset is the last one that starts at or before it.
LEMMA FunctionForOffset ==
    ASSUME NEW f, FuncsOK(f), NEW off \in Nat
    PROVE  /\ functionForOffset(f, off) \in DOMAIN f
           /\ f[functionForOffset(f, off)].start <= off
           /\ \A b \in DOMAIN f : f[b].start <= off => b <= functionForOffset(f, off)
<1> DEFINE below == {a \in DOMAIN f : f[a].start <= off}
<1>1. f \in Seq(Func) /\ Len(f) \in Nat /\ DOMAIN f = 1 .. Len(f) /\ 1 \in DOMAIN f
  BY DEF FuncsOK
<1>2. 1 \in below
  BY <1>1 DEF FuncsOK
<1>3. below \in SUBSET (0 .. Len(f))
  <2>1. \A a \in 1 .. Len(f) : a \in 0 .. Len(f)
    BY <1>1
  <2> QED BY <1>1, <2>1
<1>4. \E a \in below : \A b \in below : b <= a
  <2> HIDE DEF below
  <2> QED BY <1>1, <1>2, <1>3, GreatestNat
<1>5. functionForOffset(f, off) = CHOOSE a \in below : \A b \in below : b <= a
  BY <1>2 DEF functionForOffset
<1>6. /\ functionForOffset(f, off) \in below
      /\ \A b \in below : b <= functionForOffset(f, off)
  <2> HIDE DEF below
  <2> QED BY <1>4, <1>5
<1> QED BY <1>6

\* Every function symbol starts at an entry of the list that is as large.
LEMMA EveryFunctionListed ==
    ASSUME obj \in Object, ~OutOfText, NEW f \in SortedFunctions, NEW s \in FuncSyms
    PROVE  \E a \in DOMAIN f : /\ f[a].start = obj.syms[s].value
                               /\ obj.syms[s].size <= f[a].size
<1> DEFINE n == Cardinality(Starts)
           FI == {[start |-> v, size |-> Largest(v), shndx |-> 0] : v \in Starts}
           st == [a \in 1 .. n |-> f[a].start]
<1>1. n \in Nat /\ IsFiniteSet(Starts) /\ \A v \in Starts : v \in Nat
  BY StartsFinite DEF Starts
<1>2. f \in [1 .. n -> FI] /\ \A a, b \in DOMAIN f : a < b => f[a].start < f[b].start
  BY DEF SortedFunctions
<1>3. \A a \in 1 .. n : f[a].start \in Starts /\ f[a].size = Largest(f[a].start)
  BY <1>2
<1>4. st \in Injection(1 .. n, Starts)
  <2>1. st \in [1 .. n -> Starts]
    BY <1>3
  <2>2. ASSUME NEW a \in 1 .. n, NEW b \in 1 .. n, st[a] = st[b] PROVE a = b
    <3>1. a \in Nat /\ b \in Nat /\ a \in DOMAIN f /\ b \in DOMAIN f
      BY <1>1, <1>2
    <3>2. f[a].start = f[b].start /\ f[a].start \in Nat /\ f[b].start \in Nat
      BY <1>1, <1>3, <2>2
    <3>3. ~ (a < b) /\ ~ (b < a)
      BY <1>2, <3>1, <3>2
    <3> QED BY <3>1, <3>3
  <2> HIDE DEF st
  <2> QED BY <2>1, <2>2, Fun_IsInj
<1>5. Cardinality(1 .. n) = n
  <2> HIDE DEF n
  <2> QED BY <1>1, FS_Interval
<1>6. st \in Surjection(1 .. n, Starts)
  <2>1. Cardinality(1 .. n) = Cardinality(Starts)
    BY <1>5
  <2> HIDE DEF st, n
  <2> QED BY <1>1, <1>4, <2>1, FS_Injection
<1>7. obj.syms[s].value \in Starts
  BY DEF Starts
<1>8. PICK a \in 1 .. n : st[a] = obj.syms[s].value
  <2> HIDE DEF st, n
  <2>1. \A v \in Starts : \E a \in 1 .. n : st[a] = v
    BY <1>6 DEF Surjection
  <2> QED BY <1>7, <2>1
<1>9. obj.syms[s].size <= Largest(obj.syms[s].value)
  <2> DEFINE v == obj.syms[s].value
  <2>1. \E m \in {obj.syms[t].size : t \in FuncSyms} :
          /\ \E t \in FuncSyms : obj.syms[t].value = v /\ obj.syms[t].size = m
          /\ \A t \in FuncSyms : obj.syms[t].value = v => obj.syms[t].size <= m
    BY <1>7, LargestExists
  <2>2. \A t \in FuncSyms : obj.syms[t].value = v => obj.syms[t].size <= Largest(v)
    BY <2>1 DEF Largest
  <2> QED BY <2>2
<1> QED BY <1>2, <1>3, <1>8, <1>9

(***************************************************************************)
(* The section table as it is read.                                        *)
(***************************************************************************)
\* The text header, one header per relocation section, the others.
LEMMA InitialTable ==
    ASSUME NEW o \in Object
    PROVE  /\ InitialHeaders(o) \in Seq(Header)
           /\ Len(InitialHeaders(o)) = 1 + Len(o.relas) + o.others
           /\ InitialHeaders(o)[1].kind = "text"
           /\ \A m \in DOMAIN o.relas :
                 /\ 1 + m \in DOMAIN InitialHeaders(o)
                 /\ InitialHeaders(o)[1 + m] =
                       [kind |-> "rela", of |-> m, off |-> 0,
                        size |-> Len(o.relas[m]), info |-> TextIndex]
           /\ \A h \in DOMAIN InitialHeaders(o) :
                 /\ InitialHeaders(o)[h].kind = "text" => h = 1
                 /\ InitialHeaders(o)[h].kind = "rela" =>
                       \E m \in DOMAIN o.relas : h = 1 + m
<1> DEFINE A == << [kind |-> "text", off |-> 0, size |-> o.size] >>
           B == [m \in DOMAIN o.relas |-> [kind |-> "rela", of |-> m, off |-> 0,
                                  size |-> Len(o.relas[m]), info |-> TextIndex]]
           C == [m \in 1 .. o.others |-> [kind |-> "other"]]
           n == Len(o.relas)
<1>1. /\ o.size \in Nat /\ o.others \in Nat /\ o.relas \in Seq(Seq(Nat))
      /\ n \in Nat /\ DOMAIN o.relas = 1 .. n
  BY DEF Object
<1>2. A \in Seq(Header) /\ Len(A) = 1 /\ A[1].kind = "text"
  BY <1>1 DEF Header
<1>3. B \in Seq(Header) /\ Len(B) = n /\ \A m \in 1 .. n : B[m].kind = "rela"
  <2>1. \A m \in 1 .. n : Len(o.relas[m]) \in Nat
    BY <1>1
  <2>2. \A m \in 1 .. n : B[m] \in Header
    BY <1>1, <2>1 DEF Header, RelaHeader, TextIndex
  <2>3. \A m \in 1 .. n : B[m].kind = "rela"
    BY <1>1
  <2>4. B = [m \in 1 .. n |-> B[m]]
    BY <1>1
  <2> HIDE DEF B
  <2>5. B \in [1 .. n -> Header]
    BY <2>2, <2>4
  <2> HIDE DEF n
  <2>6. B \in Seq(Header) /\ Len(B) = n
    BY <1>1, <2>5, FnSeq
  <2> QED BY <2>3, <2>6
<1>4. C \in Seq(Header) /\ Len(C) = o.others
      /\ \A m \in 1 .. o.others : C[m].kind = "other"
  BY <1>1 DEF Header
<1>5. InitialHeaders(o) = (A \o B) \o C
  BY DEF InitialHeaders
<1>a. \A m \in 1 .. n : B[m] = [kind |-> "rela", of |-> m, off |-> 0,
                                  size |-> Len(o.relas[m]), info |-> TextIndex]
  BY <1>1
<1>k. \A m \in 1 .. n : B[m].kind = "rela"
  <2> TAKE m \in 1 .. n
  <2>1. B[m] = [kind |-> "rela", of |-> m, off |-> 0,
                size |-> Len(o.relas[m]), info |-> TextIndex]
    BY <1>a
  <2> HIDE DEF B
  <2> QED BY <2>1
<1> HIDE DEF A, B, C
<1>6. /\ (A \o B) \in Seq(Header) /\ Len(A \o B) = 1 + n
      /\ \A h \in 1 .. 1 + n : (A \o B)[h] = IF h = 1 THEN A[1] ELSE B[h - 1]
  <2> HIDE DEF n
  <2>1. /\ (A \o B) \in Seq(Header) /\ Len(A \o B) = 1 + n
        /\ \A h \in 1 .. 1 + n : (A \o B)[h] = IF h <= 1 THEN A[h] ELSE B[h - 1]
    <3>1. /\ A \o B \in Seq(Header) /\ Len(A \o B) = Len(A) + Len(B)
          /\ \A h \in 1 .. Len(A) + Len(B) :
                (A \o B)[h] = IF h <= Len(A) THEN A[h] ELSE B[h - Len(A)]
      <4>1. A \in Seq(Header) /\ B \in Seq(Header)
        BY <1>2, <1>3
      <4> QED BY <4>1, Concat, Zenon
    <3> QED BY <1>2, <1>3, <3>1
  <2>2. \A h \in 1 .. 1 + n : h <= 1 <=> h = 1
    BY <1>1
  <2> QED BY <2>1, <2>2
<1> HIDE DEF n
<1> DEFINE D == A \o B
<1> HIDE DEF D
<1>7. /\ (D \o C) \in Seq(Header) /\ Len(D \o C) = 1 + n + o.others
      /\ \A h \in 1 .. 1 + n + o.others :
            (D \o C)[h] = IF h <= 1 + n THEN D[h] ELSE C[h - (1 + n)]
  <2>1. D \in Seq(Header) /\ Len(D) = 1 + n
    BY <1>6 DEF D
  <2>2. /\ D \o C \in Seq(Header) /\ Len(D \o C) = Len(D) + Len(C)
        /\ \A h \in 1 .. Len(D) + Len(C) :
              (D \o C)[h] = IF h <= Len(D) THEN D[h] ELSE C[h - Len(D)]
    BY <1>4, <2>1, Concat, Zenon
  <2> QED BY <1>4, <2>1, <2>2
<1>8. \A h \in 1 .. 1 + n + o.others :
         (D \o C)[h].kind = IF h = 1 THEN "text" ELSE IF h <= 1 + n THEN "rela"
                            ELSE "other"
  <2> TAKE h \in 1 .. 1 + n + o.others
  <2>0. /\ (D \o C)[h] = IF h <= 1 + n THEN D[h] ELSE C[h - (1 + n)]
        /\ h <= 1 + n => h \in 1 .. 1 + n /\ (h # 1 => h - 1 \in 1 .. n)
        /\ ~(h <= 1 + n) => h # 1 /\ h - (1 + n) \in 1 .. o.others
        /\ 1 <= 1 + n
    BY <1>1, <1>7
  <2>1. CASE h = 1
    <3>1. D[h] = A[1]
      BY <1>6, <2>0, <2>1 DEF D
    <3> QED BY <1>2, <2>0, <2>1, <3>1
  <2>2. CASE h # 1 /\ h <= 1 + n
    <3>1. (D \o C)[h] = B[h - 1]
      BY <1>6, <2>0, <2>2 DEF D
    <3>2. B[h - 1].kind = "rela"
      BY <1>k, <2>0, <2>2
    <3> QED BY <2>2, <3>1, <3>2
  <2>3. CASE h # 1 /\ ~ (h <= 1 + n)
    <3>1. C[h - (1 + n)].kind = "other"
      BY <1>4, <2>0, <2>3
    <3> QED BY <2>0, <2>3, <3>1
  <2> QED BY <2>1, <2>2, <2>3
<1> DEFINE H == D \o C
<1>9. InitialHeaders(o) = H
  BY <1>5 DEF D
<1>10. DOMAIN H = 1 .. 1 + n + o.others
  BY <1>1, <1>7
<1>b. \A m \in 1 .. n : 1 + m \in DOMAIN H /\ H[1 + m] = B[m]
  <2> TAKE m \in 1 .. n
  <2>1. 1 + m \in 1 .. 1 + n /\ 1 + m \in 1 .. 1 + n + o.others /\ 1 + m # 1
        /\ 1 + m - 1 = m
    BY <1>1
  <2>2. D[1 + m] = B[1 + m - 1]
    BY <1>6, <2>1 DEF D
  <2> QED BY <1>7, <1>10, <2>1, <2>2
<1> HIDE DEF H
<1>11. /\ H \in Seq(Header) /\ Len(H) = 1 + n + o.others /\ H[1].kind = "text"
       /\ \A h \in DOMAIN H : H[h].kind = "text" => h = 1
  <2>1. /\ H \in Seq(Header) /\ Len(H) = 1 + n + o.others
        /\ \A h \in DOMAIN H : H[h].kind = IF h = 1 THEN "text"
                                          ELSE IF h <= 1 + n THEN "rela" ELSE "other"
    BY <1>7, <1>8, <1>10 DEF H
  <2>2. 1 \in DOMAIN H
    BY <1>1, <1>10
  <2> QED BY <2>1, <2>2
<1>12. ASSUME NEW h \in DOMAIN H, H[h].kind = "rela"
       PROVE  \E m \in 1 .. n : h = 1 + m
  <2>1. h # 1 /\ h <= 1 + n
    BY <1>1, <1>8, <1>10, <1>12 DEF H
  <2>2. h - 1 \in 1 .. n /\ h = 1 + (h - 1)
    BY <1>1, <1>10, <2>1
  <2> QED BY <2>2
<1>13. \A m \in 1 .. n :
          /\ 1 + m \in DOMAIN H
          /\ H[1 + m] = [kind |-> "rela", of |-> m, off |-> 0,
                         size |-> Len(o.relas[m]), info |-> TextIndex]
  BY <1>a, <1>b
<1> QED BY <1>1, <1>9, <1>11, <1>12, <1>13 DEF n

\* Only the starts of the functions decide who takes an offset.
LEMMA SameStarts ==
    ASSUME NEW f, NEW g, DOMAIN f = DOMAIN g, \A a \in DOMAIN f : f[a].start = g[a].start,
           NEW off
    PROVE  functionForOffset(f, off) = functionForOffset(g, off)
<1> DEFINE A == {a \in DOMAIN f : f[a].start <= off}
           B == {a \in DOMAIN g : g[a].start <= off}
<1>1. A = B
  OBVIOUS
<1>2. functionForOffset(f, off) = IF A = {} THEN 1 ELSE CHOOSE a \in A : \A b \in A : b <= a
  BY DEF functionForOffset
<1>3. functionForOffset(g, off) = IF B = {} THEN 1 ELSE CHOOSE a \in B : \A b \in B : b <= a
  BY DEF functionForOffset
<1> HIDE DEF A, B
<1> QED BY <1>1, <1>2, <1>3

\* An offset inside a function belongs to it.
LEMMA OffsetInside ==
    ASSUME NEW f, FuncsOK(f), NEW off \in Nat, NEW a \in DOMAIN f,
           f[a].start <= off, off < f[a].start + f[a].size
    PROVE  functionForOffset(f, off) = a
<1> DEFINE b == functionForOffset(f, off)
<1>1. b \in DOMAIN f /\ f[b].start <= off /\ a <= b
  BY FunctionForOffset
<1>2. a \in Nat /\ b \in Nat /\ f[a] \in Func /\ f[b] \in Func
  BY <1>1 DEF FuncsOK
<1> HIDE DEF b
<1>3. a < b => f[a].start + f[a].size <= f[b].start
  BY <1>1 DEF FuncsOK
<1>4. ~ (a < b)
  <2>1. f[a].start \in Nat /\ f[a].size \in Nat /\ f[b].start \in Nat
    BY <1>2 DEF Func
  <2> QED BY <1>1, <1>3, <2>1
<1>5. b = a
  BY <1>1, <1>2, <1>4
<1> QED BY <1>5 DEF b

(***************************************************************************)
(* The relocations at which a header is added, and their number.           *)
(***************************************************************************)
Breaks(m) == GroupStarts(m) \ {1}

\* The relocation sections and their offsets.
LEMMA RelasType ==
    ASSUME obj \in Object
    PROVE  /\ Relas \in Nat /\ DOMAIN obj.relas = 1 .. Relas
           /\ \A m \in 1 .. Relas : /\ Len(obj.relas[m]) \in Nat
                                   /\ DOMAIN obj.relas[m] = 1 .. Len(obj.relas[m])
                                   /\ \A a \in DOMAIN obj.relas[m] : obj.relas[m][a] \in Nat
<1>1. obj.relas \in Seq(Seq(Nat))
  BY ObjType
<1>2. \A m \in 1 .. Len(obj.relas) : obj.relas[m] \in Seq(Nat)
  BY <1>1
<1> QED BY <1>1, <1>2 DEF Relas

\* Breaks lie behind the first relocation of a section.
LEMMA BreaksRange ==
    ASSUME obj \in Object, NEW m \in 1 .. Relas
    PROVE  /\ Breaks(m) \in SUBSET (2 .. Len(obj.relas[m]))
           /\ \A a \in 1 .. Len(obj.relas[m]) :
                 a \in Breaks(m) <=> a # 1 /\ Owner(m, a) # Owner(m, a - 1)
           /\ IsFiniteSet(GroupStarts(m)) /\ IsFiniteSet(Breaks(m))
           /\ 1 \in GroupStarts(m) <=> Len(obj.relas[m]) # 0
           /\ GroupStarts(m) \in SUBSET (1 .. Len(obj.relas[m]))
<1>1. Len(obj.relas[m]) \in Nat /\ DOMAIN obj.relas[m] = 1 .. Len(obj.relas[m])
  BY RelasType
<1>2. GroupStarts(m) \in SUBSET (1 .. Len(obj.relas[m]))
  BY <1>1 DEF GroupStarts
<1>3. IsFiniteSet(1 .. Len(obj.relas[m]))
  BY <1>1, FS_Interval
<1>4. IsFiniteSet(GroupStarts(m))
  BY <1>2, <1>3, FS_Subset
<1>5. IsFiniteSet(Breaks(m))
  BY <1>4, FS_RemoveElement DEF Breaks
<1>6. Breaks(m) \in SUBSET (2 .. Len(obj.relas[m]))
  BY <1>1, <1>2 DEF Breaks
<1>7. \A a \in 1 .. Len(obj.relas[m]) :
         a \in Breaks(m) <=> a # 1 /\ Owner(m, a) # Owner(m, a - 1)
  BY <1>1 DEF Breaks, GroupStarts, Owner
<1>8. 1 \in GroupStarts(m) <=> Len(obj.relas[m]) # 0
  BY <1>1 DEF GroupStarts
<1> QED BY <1>2, <1>4, <1>5, <1>6, <1>7, <1>8

\* BreaksBefore, member by member.
LEMMA BreaksMember ==
    ASSUME obj \in Object, NEW m, NEW a
    PROVE  /\ \A q \in 1 .. Relas : \A b \in Breaks(q) :
                 <<q, b>> \in BreaksBefore(m, a) <=> (q < m \/ (q = m /\ b < a))
           /\ \A x \in BreaksBefore(m, a) :
                 x = <<x[1], x[2]>> /\ x[1] \in 1 .. Relas /\ x[2] \in Breaks(x[1])
<1>1. \A q \in 1 .. Relas : \A b \in Breaks(q) : q \in Nat /\ b \in Nat
  <2> TAKE q \in 1 .. Relas
  <2>1. Relas \in Nat /\ Len(obj.relas[q]) \in Nat
    BY RelasType
  <2> QED BY <2>1, BreaksRange
<1>2. DOMAIN obj.relas = 1 .. Relas
  BY RelasType
<1>3. ASSUME NEW q \in 1 .. Relas, NEW b \in Breaks(q)
      PROVE  <<q, b>> \in BreaksBefore(m, a) <=> (q < m \/ (q = m /\ b < a))
  <2>1. <<q, b>> \in Nat \X Nat /\ <<q, b>>[1] = q /\ <<q, b>>[2] = b
    BY <1>1
  <2> QED BY <1>2, <2>1 DEF BreaksBefore, Breaks
<1>4. ASSUME NEW x \in BreaksBefore(m, a)
      PROVE  x = <<x[1], x[2]>> /\ x[1] \in 1 .. Relas /\ x[2] \in Breaks(x[1])
  <2>1. x \in Nat \X Nat
    BY DEF BreaksBefore
  <2> QED BY <1>2, <2>1 DEF BreaksBefore, Breaks
<1> QED BY <1>3, <1>4

\* There are finitely many.
LEMMA BreaksFinite ==
    ASSUME obj \in Object, NEW m, NEW a
    PROVE  IsFiniteSet(BreaksBefore(m, a)) /\ Cardinality(BreaksBefore(m, a)) \in Nat
<1> DEFINE S == {{q} \X Breaks(q) : q \in 1 .. Relas}
           g == [q \in 1 .. Relas |-> {q} \X Breaks(q)]
<1>1. IsFiniteSet(1 .. Relas)
  BY RelasType, FS_Interval
<1>2. IsFiniteSet(S)
  <2>1. g \in Surjection(1 .. Relas, S)
    BY DEF Surjection
  <2> HIDE DEF g, S
  <2> QED BY <1>1, <2>1, FS_Surjection
<1>3. \A T \in S : IsFiniteSet(T)
  <2> SUFFICES ASSUME NEW q \in 1 .. Relas PROVE IsFiniteSet({q} \X Breaks(q))
    OBVIOUS
  <2>1. IsFiniteSet({q}) /\ IsFiniteSet(Breaks(q))
    BY FS_Singleton, BreaksRange
  <2> QED BY <2>1, FS_Product
<1>4. IsFiniteSet(UNION S)
  <2> HIDE DEF S
  <2> QED BY <1>2, <1>3, FS_UNION
<1>5. BreaksBefore(m, a) \in SUBSET (UNION S)
  <2> SUFFICES ASSUME NEW x \in BreaksBefore(m, a) PROVE x \in UNION S
    OBVIOUS
  <2>1. x = <<x[1], x[2]>> /\ x[1] \in 1 .. Relas /\ x[2] \in Breaks(x[1])
    BY BreaksMember
  <2>2. x \in {x[1]} \X Breaks(x[1])
    BY <2>1
  <2> QED BY <2>1, <2>2
<1>6. IsFiniteSet(BreaksBefore(m, a))
  <2> HIDE DEF S
  <2> QED BY <1>4, <1>5, FS_Subset
<1> QED BY <1>6, FS_CardinalityType

\* None at the start, all behind the last section, and none is forgotten.
LEMMA BreaksEnds ==
    ASSUME obj \in Object
    PROVE  /\ Cardinality(BreaksBefore(1, 1)) = 0
           /\ \A m, a : Cardinality(BreaksBefore(m, a))
                           <= Cardinality(BreaksBefore(Relas + 1, 1))
<1>1. BreaksBefore(1, 1) = {}
  <2> SUFFICES ASSUME NEW x \in BreaksBefore(1, 1) PROVE FALSE
    OBVIOUS
  <2>1. x[1] \in 1 .. Relas /\ x[2] \in 2 .. Len(obj.relas[x[1]])
    BY BreaksMember, BreaksRange
  <2>2. Relas \in Nat /\ Len(obj.relas[x[1]]) \in Nat
    BY <2>1, RelasType
  <2>3. x[1] < 1 \/ (x[1] = 1 /\ x[2] < 1)
    BY DEF BreaksBefore
  <2> QED BY <2>1, <2>2, <2>3
<1>2. ASSUME NEW m, NEW a
      PROVE  Cardinality(BreaksBefore(m, a)) <= Cardinality(BreaksBefore(Relas + 1, 1))
  <2>1. BreaksBefore(m, a) \in SUBSET BreaksBefore(Relas + 1, 1)
    <3> SUFFICES ASSUME NEW x \in BreaksBefore(m, a) PROVE x \in BreaksBefore(Relas + 1, 1)
      OBVIOUS
    <3>1. x = <<x[1], x[2]>> /\ x[1] \in 1 .. Relas /\ x[2] \in Breaks(x[1])
      BY BreaksMember
    <3>2. x[1] < Relas + 1
      BY <3>1, RelasType
    <3>3. <<x[1], x[2]>> \in BreaksBefore(Relas + 1, 1)
      BY <3>1, <3>2, BreaksMember
    <3> QED BY <3>1, <3>3
  <2> QED BY <2>1, BreaksFinite, FS_Subset
<1> QED BY <1>1, <1>2, FS_EmptySet

\* One relocation of the walk adds a header or none.
LEMMA BreaksStep ==
    ASSUME obj \in Object, NEW m \in 1 .. Relas, NEW a \in 1 .. Len(obj.relas[m])
    PROVE  Cardinality(BreaksBefore(m, a + 1)) =
              Cardinality(BreaksBefore(m, a)) + (IF a \in Breaks(m) THEN 1 ELSE 0)
<1> DEFINE B == BreaksBefore(m, a)
<1>1. m \in Nat /\ a \in Nat
  BY RelasType
<1>2. ASSUME NEW q \in 1 .. Relas, NEW b \in Breaks(q)
      PROVE  <<q, b>> \in BreaksBefore(m, a + 1) <=>
                <<q, b>> \in B \/ (q = m /\ b = a)
  <2>1. b \in Nat
    BY RelasType, BreaksRange
  <2>2. b < a + 1 <=> b < a \/ b = a
    BY <1>1, <2>1
  <2> QED BY <2>2, BreaksMember
<1>3. \A x \in BreaksBefore(m, a + 1) \cup B :
         x = <<x[1], x[2]>> /\ x[1] \in 1 .. Relas /\ x[2] \in Breaks(x[1])
  BY BreaksMember
<1>4. CASE a \in Breaks(m)
  <2>1. BreaksBefore(m, a + 1) = B \cup {<<m, a>>}
    <3>1. \A x \in BreaksBefore(m, a + 1) : x \in B \cup {<<m, a>>}
      BY <1>2, <1>3
    <3>2. \A x \in B : x \in BreaksBefore(m, a + 1)
      BY <1>2, <1>3
    <3>3. <<m, a>> \in BreaksBefore(m, a + 1)
      BY <1>2, <1>4
    <3> QED BY <3>1, <3>2, <3>3
  <2>2. <<m, a>> \notin B
    BY <1>1, <1>4, BreaksMember
  <2>3. IsFiniteSet(B)
    BY BreaksFinite
  <2> HIDE DEF B
  <2> QED BY <1>4, <2>1, <2>2, <2>3, FS_AddElement DEF B
<1>5. CASE a \notin Breaks(m)
  <2>1. BreaksBefore(m, a + 1) = B
    BY <1>2, <1>3, <1>5
  <2> QED BY <1>5, <2>1, BreaksFinite
<1> QED BY <1>4, <1>5

\* Behind a section's last relocation the walk is at the next section.
LEMMA BreaksNext ==
    ASSUME obj \in Object, NEW m \in 1 .. Relas, NEW a \in Nat, a > Len(obj.relas[m])
    PROVE  Cardinality(BreaksBefore(m + 1, 1)) = Cardinality(BreaksBefore(m, a))
<1>1. ASSUME NEW q \in 1 .. Relas, NEW b \in Breaks(q)
      PROVE  <<q, b>> \in BreaksBefore(m + 1, 1) <=> <<q, b>> \in BreaksBefore(m, a)
  <2>1. /\ m \in Nat /\ q \in Nat /\ Len(obj.relas[q]) \in Nat
        /\ b \in 2 .. Len(obj.relas[q])
    BY RelasType, BreaksRange
  <2>2. <<q, b>> \in BreaksBefore(m + 1, 1) <=> (q < m + 1 \/ (q = m + 1 /\ b < 1))
    BY BreaksMember
  <2>3. <<q, b>> \in BreaksBefore(m, a) <=> (q < m \/ (q = m /\ b < a))
    BY BreaksMember
  <2> QED BY <2>1, <2>2, <2>3
<1>2. \A x \in BreaksBefore(m + 1, 1) \cup BreaksBefore(m, a) :
         x = <<x[1], x[2]>> /\ x[1] \in 1 .. Relas /\ x[2] \in Breaks(x[1])
  BY BreaksMember
<1>3. \A x \in BreaksBefore(m + 1, 1) : x \in BreaksBefore(m, a)
  BY <1>1, <1>2
<1>4. \A x \in BreaksBefore(m, a) : x \in BreaksBefore(m + 1, 1)
  BY <1>1, <1>2
<1>5. BreaksBefore(m + 1, 1) = BreaksBefore(m, a)
  BY <1>3, <1>4
<1> QED BY <1>5

\* What countRelocGroups adds is what the walk of the section will take.
LEMMA BreaksCounted ==
    ASSUME obj \in Object, NEW m \in 1 .. Relas
    PROVE  Cardinality(BreaksBefore(m + 1, 1)) =
              Cardinality(BreaksBefore(m, 1)) + countRelocGroups(m)
<1> DEFINE B == BreaksBefore(m, 1)
           C == {m} \X Breaks(m)
<1>1. m \in Nat /\ Relas \in Nat
  BY RelasType
<1>2. ASSUME NEW q \in 1 .. Relas, NEW b \in Breaks(q)
      PROVE  /\ <<q, b>> \in BreaksBefore(m + 1, 1) <=> q < m \/ q = m
             /\ <<q, b>> \in B <=> q < m
  <2>1. q \in Nat /\ Len(obj.relas[q]) \in Nat /\ b \in 2 .. Len(obj.relas[q])
    BY RelasType, BreaksRange
  <2>2. <<q, b>> \in BreaksBefore(m + 1, 1) <=> (q < m + 1 \/ (q = m + 1 /\ b < 1))
    BY BreaksMember
  <2>3. <<q, b>> \in B <=> (q < m \/ (q = m /\ b < 1))
    BY BreaksMember
  <2> QED BY <1>1, <2>1, <2>2, <2>3
<1>3. \A x \in BreaksBefore(m + 1, 1) \cup B :
         x = <<x[1], x[2]>> /\ x[1] \in 1 .. Relas /\ x[2] \in Breaks(x[1])
  BY BreaksMember
<1>4. \A x \in C : x = <<m, x[2]>> /\ x[2] \in Breaks(m) /\ x[1] = m
  OBVIOUS
<1>5. \A b \in Breaks(m) : <<m, b>> \in C
  OBVIOUS
<1> HIDE DEF B, C
<1>6. BreaksBefore(m + 1, 1) = B \cup C
  <2>1. \A x \in BreaksBefore(m + 1, 1) : x \in B \cup C
    BY <1>2, <1>3, <1>5
  <2>2. \A x \in B : x \in BreaksBefore(m + 1, 1)
    BY <1>2, <1>3
  <2>3. \A x \in C : x \in BreaksBefore(m + 1, 1)
    BY <1>2, <1>4
  <2> QED BY <2>1, <2>2, <2>3
<1>7. B \cap C = {}
  <2> SUFFICES ASSUME NEW x \in B, x \in C PROVE FALSE
    OBVIOUS
  <2>1. x = <<x[1], x[2]>> /\ x[1] \in 1 .. Relas /\ x[2] \in Breaks(x[1]) /\ x[1] = m
    BY <1>3, <1>4
  <2>2. m < m
    BY <1>2, <2>1
  <2> QED BY <1>1, <2>2
<1>8. IsFiniteSet(B) /\ Cardinality(B) \in Nat
  BY BreaksFinite DEF B
<1>9. IsFiniteSet(Breaks(m)) /\ Cardinality(Breaks(m)) \in Nat
  BY BreaksRange, FS_CardinalityType
<1>10. IsFiniteSet(C) /\ Cardinality(C) = Cardinality(Breaks(m))
  <2>1. IsFiniteSet({m}) /\ Cardinality({m}) = 1
    BY FS_Singleton
  <2>2. IsFiniteSet(C) /\ Cardinality(C) = Cardinality({m}) * Cardinality(Breaks(m))
    BY <1>9, <2>1, FS_Product DEF C
  <2> QED BY <1>9, <2>1, <2>2
<1>11. Cardinality(B \cup C) = Cardinality(B) + Cardinality(C)
  <2>1. Cardinality(B \cup C) = Cardinality(B) + Cardinality(C) - Cardinality(B \cap C)
    BY <1>8, <1>10, FS_Union
  <2>2. Cardinality(B \cap C) = 0
    BY <1>7, FS_EmptySet
  <2> QED BY <1>8, <1>9, <1>10, <2>1, <2>2
<1>12. Cardinality(Breaks(m)) = countRelocGroups(m)
  <2>1. IsFiniteSet(GroupStarts(m)) /\ Cardinality(GroupStarts(m)) \in Nat
    BY BreaksRange, FS_CardinalityType
  <2>2. Cardinality(Breaks(m)) = IF 1 \in GroupStarts(m) THEN Cardinality(GroupStarts(m)) - 1
                                 ELSE Cardinality(GroupStarts(m))
    BY <2>1, FS_RemoveElement DEF Breaks
  <2>3. 1 \notin GroupStarts(m) => GroupStarts(m) = {}
    <3>1. Len(obj.relas[m]) \in Nat
      BY RelasType
    <3> QED BY <3>1, BreaksRange
  <2>4. Cardinality(GroupStarts(m)) = 0 <=> GroupStarts(m) = {}
    BY <2>1, FS_EmptySet
  <2> QED BY <2>2, <2>3, <2>4 DEF countRelocGroups
<1> QED BY <1>6, <1>10, <1>11, <1>12 DEF B

(***************************************************************************)
(* What stays when the object and the starts of the functions stay.        *)
(***************************************************************************)
LEMMA Frame ==
    ASSUME obj' = obj, DOMAIN funcs' = DOMAIN funcs, Len(funcs') = Len(funcs),
           \A a \in DOMAIN funcs : funcs'[a].start = funcs[a].start
    PROVE  /\ Relas' = Relas /\ Headers' = Headers
           /\ \A m, a : Owner(m, a)' = Owner(m, a)
           /\ \A m : GroupStarts(m)' = GroupStarts(m)
           /\ \A m : Breaks(m)' = Breaks(m)
           /\ \A m, a : BreaksBefore(m, a)' = BreaksBefore(m, a)
           /\ \A m, a : Room(m, a)' = Room(m, a)
           /\ \A a : TextPos(a)' = TextPos(a)
           /\ FuncSyms' = FuncSyms /\ Original' = Original
<1>1. \A off : functionForOffset(funcs', off) = functionForOffset(funcs, off)
  BY SameStarts
<1>2. \A m, a : Owner(m, a)' = Owner(m, a)
  BY <1>1 DEF Owner
<1>3. \A m : GroupStarts(m)' = GroupStarts(m)
  BY <1>1 DEF GroupStarts
<1>4. \A m : Breaks(m)' = Breaks(m)
  BY <1>3 DEF Breaks
<1>5. \A m, a : BreaksBefore(m, a)' = BreaksBefore(m, a)
  BY <1>3 DEF BreaksBefore
<1>6. \A m, a : Room(m, a)' = Room(m, a)
  BY <1>5 DEF Room
<1>7. Relas' = Relas /\ Headers' = Headers
  BY DEF Relas, Headers
<1>8. \A a : TextPos(a)' = TextPos(a)
  BY <1>7 DEF TextPos
<1>9. FuncSyms' = FuncSyms /\ Original' = Original
  BY DEF FuncSyms, Original
<1> QED BY <1>2, <1>3, <1>4, <1>5, <1>6, <1>7, <1>8, <1>9

(***************************************************************************)
(* The inductive invariant holds initially, and each action keeps it.      *)
(***************************************************************************)
\* Initially nothing was touched.
LEMMA InitInv == Init => IInv
<1> SUFFICES ASSUME Init PROVE IInv
  OBVIOUS
<1>1. obj \in Object
  BY ObjectAssumption DEF Init
<1>2. pc = "collect" /\ ~ After /\ Before
  BY DEF Init, After, Before
<1>3. Untouched /\ syms = Original
  BY DEF Init, Untouched, Original
<1> QED BY <1>1, <1>2, <1>3 DEF IInv, Counted

\* Declining leaves nothing to show.
LEMMA DeclineInv ==
    ASSUME IInv, Decline PROVE IInv'
<1>1. pc' = "done" /\ linked' = "original" /\ obj' = obj
  BY DEF Decline
<1>2. ~ After' /\ ~ Before'
  BY <1>1 DEF After, Before
<1>3. obj' \in Object
  BY <1>1 DEF IInv
<1> QED BY <1>1, <1>2, <1>3 DEF IInv, Counted

\* The list of functions is validated before anything changes.
LEMMA CollectInv ==
    ASSUME IInv, CollectAndValidate PROVE IInv'
<1>1. obj \in Object /\ Untouched /\ syms = Original /\ pc = "collect"
  BY DEF IInv, CollectAndValidate, Before
<1>2. CASE Decline
  BY <1>2, DeclineInv
<1>3. ASSUME NEW f \in SortedFunctions, ~ OutOfText, Len(f) > 1, validateFunctions(f),
             funcs' = f, extra' = Len(f) - 1, pc' = "reserve",
             UNCHANGED <<obj, shdrs, offs, syms, k, i, currentFunc, currentRela, linked>>
      PROVE  IInv'
  <2>1. FuncsOK(f) /\ Listed(f)
    BY <1>1, <1>3, ValidFunctions, EveryFunctionListed DEF Listed
  <2>2. FuncsOK(funcs)' /\ Listed(funcs)'
    BY <1>3, <2>1 DEF FuncsOK, Listed, FuncSyms
  <2>3. Untouched' /\ (syms = Original)' /\ k' = 1
    BY <1>1, <1>3 DEF Untouched, Original
  <2>4. Relas \in Nat /\ Relas' = Relas
    BY <1>1, <1>3, RelasType DEF Relas
  <2>5. BreaksBefore(1, 1)' = {}
    <3> SUFFICES ASSUME NEW x \in BreaksBefore(1, 1)' PROVE FALSE
      OBVIOUS
    <3>1. /\ x[1] \in DOMAIN obj.relas /\ x[2] \in DOMAIN obj.relas[x[1]]
          /\ x[1] < 1 \/ (x[1] = 1 /\ x[2] < 1)
      BY <1>3 DEF BreaksBefore, GroupStarts
    <3>2. /\ x[1] \in 1 .. Relas /\ x[2] \in 1 .. Len(obj.relas[x[1]])
          /\ Len(obj.relas[x[1]]) \in Nat
      BY <1>1, <3>1, RelasType
    <3> QED BY <2>4, <3>1, <3>2
  <2>6. Cardinality(BreaksBefore(1, 1)') = 0
    BY <2>5, FS_EmptySet
  <2>7. Len(f) \in Nat
    BY <2>1 DEF FuncsOK
  <2>8. extra' = Room(1, 1)'
    BY <1>3, <2>6, <2>7 DEF Room
  <2>9. Counted'
    BY <1>3, <2>3, <2>4, <2>8 DEF Counted, After
  <2> QED BY <1>1, <1>3, <2>2, <2>3, <2>9 DEF IInv, After, Before
<1> QED BY <1>2, <1>3 DEF CollectAndValidate

\* Each section adds what its walk will take.
LEMMA ReserveInv ==
    ASSUME IInv, Reserve PROVE IInv'
<1>1. /\ obj \in Object /\ Untouched /\ syms = Original /\ pc = "reserve"
      /\ FuncsOK(funcs) /\ Listed(funcs) /\ k \in 1 .. Relas + 1 /\ extra = Room(k, 1)
  BY DEF IInv, Reserve, Before, Counted
<1>2. UNCHANGED <<obj, funcs, shdrs, offs, syms, i, currentFunc, currentRela, linked>>
  BY DEF Reserve
<1>3. /\ Relas \in Nat /\ Relas' = Relas /\ Original' = Original
      /\ \A m, a : Room(m, a)' = Room(m, a)
  BY <1>1, <1>2, RelasType, Frame
<1>4. FuncsOK(funcs)' /\ Listed(funcs)'
  BY <1>1, <1>2 DEF FuncsOK, Listed, FuncSyms
<1>5. CASE k <= Relas
  <2>1. extra' = extra + countRelocGroups(k) /\ k' = k + 1 /\ pc' = pc
    BY <1>5 DEF Reserve, Relas
  <2>2. Cardinality(BreaksBefore(k + 1, 1)) =
           Cardinality(BreaksBefore(k, 1)) + countRelocGroups(k)
    BY <1>1, <1>3, <1>5, BreaksCounted
  <2>3. /\ Cardinality(BreaksBefore(k, 1)) \in Nat
        /\ Cardinality(BreaksBefore(k + 1, 1)) \in Nat /\ Len(funcs) \in Nat
        /\ countRelocGroups(k) \in Int
    <3>1. k \in 1 .. Relas
      BY <1>1, <1>3, <1>5
    <3>2. Cardinality(GroupStarts(k)) \in Nat
      BY <1>1, <3>1, BreaksRange, FS_CardinalityType
    <3>3. countRelocGroups(k) \in Int
      BY <3>2 DEF countRelocGroups
    <3> QED BY <1>1, <3>3, BreaksFinite DEF FuncsOK
  <2>4. extra' = Room(k + 1, 1)
    BY <1>1, <2>1, <2>2, <2>3 DEF Room
  <2>5. Counted'
    <3>0. Room(k, 1)' = Room(k + 1, 1)
      BY <1>2, <2>1 DEF Room, BreaksBefore, GroupStarts
    <3>1. k' \in 1 .. Relas' + 1 /\ extra' = Room(k, 1)'
      BY <1>1, <1>3, <1>5, <2>1, <2>4, <3>0
    <3> QED BY <1>1, <2>1, <3>1 DEF Counted, After
  <2>6. Untouched' /\ (syms = Original)'
    BY <1>1, <1>2, <1>3, <2>1 DEF Untouched
  <2> QED BY <1>1, <1>2, <1>4, <2>1, <2>5, <2>6 DEF IInv, Before, After
<1>6. CASE ~ (k <= Relas)
  <2>1. k' = 1 /\ pc' = "text" /\ extra' = extra /\ k = Relas + 1
    BY <1>1, <1>3, <1>6 DEF Reserve, Relas
  <2>2. Counted'
    BY <1>1, <1>3, <2>1 DEF Counted, After
  <2>3. Untouched' /\ (syms = Original)'
    BY <1>1, <1>2, <1>3, <2>1 DEF Untouched
  <2> QED BY <1>1, <1>2, <1>4, <2>1, <2>2, <2>3 DEF IInv, Before, After
<1> QED BY <1>5, <1>6

\* The header table once the text headers are in it.
LEMMA SplitTable ==
    ASSUME obj \in Object, FuncsOK(funcs), shdrs = InitialHeaders(obj), splitText
    PROVE  /\ Headers \in Nat /\ Headers = 1 + Relas + obj.others
           /\ shdrs' \in Seq(Header) /\ Len(shdrs') = Headers + Len(funcs) - 1
           /\ \A a \in DOMAIN funcs : /\ TextPos(a) \in DOMAIN shdrs'
                                      /\ shdrs'[TextPos(a)] = TextHeader(funcs[a])
           /\ \A h \in 2 .. Headers : h \in DOMAIN shdrs' /\ shdrs'[h] = shdrs[h]
           /\ \A h \in DOMAIN shdrs' : h \in 1 .. Headers \/ \E a \in DOMAIN funcs : h = TextPos(a)
<1> DEFINE n == Len(funcs) - 1
           A == [shdrs EXCEPT ![TextIndex] = TextHeader(funcs[1])]
           B == [a \in 1 .. n |-> TextHeader(funcs[a + 1])]
<1>1. /\ n \in Nat /\ Len(funcs) = n + 1 /\ funcs \in Seq(Func)
      /\ \A a \in 1 .. n + 1 : a \in DOMAIN funcs /\ funcs[a] \in Func
      /\ DOMAIN funcs = 1 .. n + 1
  BY DEF FuncsOK
<1>2. \A a \in 1 .. n + 1 : TextHeader(funcs[a]) \in Header
  BY <1>1 DEF TextHeader, Header, Func
<1>3. /\ Headers \in Nat /\ Headers = 1 + Relas + obj.others /\ Len(shdrs) = Headers
      /\ shdrs \in Seq(Header) /\ 1 \in 1 .. Headers
  <2>1. Relas \in Nat /\ obj.others \in Nat
    BY RelasType, ObjType
  <2> QED BY <2>1, InitialTable DEF Headers, Relas
<1>4. /\ A \in Seq(Header) /\ Len(A) = Headers /\ A[1] = TextHeader(funcs[1])
      /\ \A h \in 2 .. Headers : A[h] = shdrs[h]
  <2>1. TextHeader(funcs[1]) \in Header /\ TextIndex = 1
    BY <1>1, <1>2 DEF TextIndex
  <2> HIDE DEF n
  <2> QED BY <1>3, <2>1
<1>5. B \in Seq(Header) /\ Len(B) = n /\ \A a \in 1 .. n : B[a] = TextHeader(funcs[a + 1])
  <2>1. \A a \in 1 .. n : TextHeader(funcs[a + 1]) \in Header
    BY <1>1, <1>2
  <2>2. B \in [1 .. n -> Header]
    BY <2>1
  <2>3. \A a \in 1 .. n : B[a] = TextHeader(funcs[a + 1])
    OBVIOUS
  <2> HIDE DEF n, B
  <2> QED BY <1>1, <2>2, <2>3, FnSeq
<1>6. shdrs' = A \o B
  BY DEF splitText
<1> HIDE DEF A, B, n
<1>7. /\ A \o B \in Seq(Header) /\ Len(A \o B) = Len(A) + Len(B)
      /\ \A h \in 1 .. Len(A) + Len(B) :
            (A \o B)[h] = IF h <= Len(A) THEN A[h] ELSE B[h - Len(A)]
  BY <1>4, <1>5, Concat, Zenon
<1>8. /\ shdrs' \in Seq(Header) /\ Len(shdrs') = Headers + n
      /\ DOMAIN shdrs' = 1 .. Headers + n
      /\ \A h \in 1 .. Headers + n :
            shdrs'[h] = IF h <= Headers THEN A[h] ELSE B[h - Headers]
  <2>1. Len(shdrs') = Headers + n /\ shdrs' \in Seq(Header)
    BY <1>4, <1>5, <1>6, <1>7
  <2>2. DOMAIN shdrs' = 1 .. Headers + n
    BY <2>1
  <2>3. \A h \in 1 .. Headers + n :
            shdrs'[h] = IF h <= Headers THEN A[h] ELSE B[h - Headers]
    BY <1>4, <1>5, <1>6, <1>7
  <2> QED BY <2>1, <2>2, <2>3
<1>9. \A a \in DOMAIN funcs : /\ TextPos(a) \in DOMAIN shdrs'
                              /\ shdrs'[TextPos(a)] = TextHeader(funcs[a])
  <2> TAKE a \in DOMAIN funcs
  <2>1. CASE a = 1
    <3>1. TextPos(a) = 1 /\ 1 \in 1 .. Headers + n /\ 1 <= Headers
      BY <1>1, <1>3, <2>1 DEF TextPos, TextIndex
    <3> QED BY <1>4, <1>8, <2>1, <3>1
  <2>2. CASE a # 1
    <3>1. /\ TextPos(a) = Headers + a - 1 /\ TextPos(a) \in 1 .. Headers + n
          /\ ~ (TextPos(a) <= Headers) /\ TextPos(a) - Headers = a - 1
          /\ a - 1 \in 1 .. n /\ (a - 1) + 1 = a
      BY <1>1, <1>3, <2>2 DEF TextPos
    <3>2. shdrs'[TextPos(a)] = B[a - 1]
      BY <1>8, <3>1
    <3>3. B[a - 1] = TextHeader(funcs[a])
      BY <1>5, <3>1
    <3> QED BY <1>8, <3>1, <3>2, <3>3
  <2> QED BY <2>1, <2>2
<1>10. \A h \in 2 .. Headers : h \in DOMAIN shdrs' /\ shdrs'[h] = shdrs[h]
  BY <1>1, <1>3, <1>4, <1>8
<1>11. \A h \in DOMAIN shdrs' : h \in 1 .. Headers \/ \E a \in DOMAIN funcs : h = TextPos(a)
  <2> SUFFICES ASSUME NEW h \in 1 .. Headers + n, h \notin 1 .. Headers
               PROVE  \E a \in DOMAIN funcs : h = TextPos(a)
    BY <1>8
  <2>1. h \in Int /\ h > Headers /\ h <= Headers + n
    BY <1>1, <1>3
  <2> DEFINE a == (h - Headers) + 1
  <2>2. a \in 1 .. n + 1 /\ a # 1 /\ h = Headers + a - 1
    BY <1>1, <1>3, <2>1
  <2>3. a \in DOMAIN funcs /\ h = TextPos(a)
    BY <1>1, <2>2 DEF TextPos
  <2> QED BY <2>3
<1> QED BY <1>1, <1>3, <1>8, <1>9, <1>10, <1>11

\* The text headers take their places, the functions their indices.
LEMMA SplitTextInv ==
    ASSUME IInv, splitText PROVE IInv'
<1>1. /\ obj \in Object /\ Untouched /\ syms = Original /\ pc = "text" /\ k = 1 /\ i = 1
      /\ FuncsOK(funcs) /\ Listed(funcs) /\ extra = Room(Relas + 1, 1)
      /\ shdrs = InitialHeaders(obj) /\ offs = obj.relas
      /\ currentFunc = 0 /\ currentRela = 0
  BY DEF IInv, splitText, Before, Counted, Untouched
<1>2. /\ UNCHANGED <<obj, extra, offs, syms, k, i, currentFunc, currentRela, linked>>
      /\ pc' = "relocs"
  BY DEF splitText
<1>3. Len(shdrs) = Headers
  BY <1>1 DEF Headers
<1>4. /\ funcs \in Seq(Func) /\ Len(funcs) \in Nat /\ DOMAIN funcs = 1 .. Len(funcs)
      /\ Len(funcs) > 1
  BY <1>1 DEF FuncsOK
<1>5. \A a \in DOMAIN funcs : (IF a = 1 THEN TextIndex ELSE Appended(Len(shdrs) + a - 2)) \in Nat
  BY <1>1, <1>3, <1>4, ObjectAssumption, SplitTable DEF Appended, TextIndex
<1>6. /\ funcs' \in Seq(Func) /\ Len(funcs') = Len(funcs) /\ DOMAIN funcs' = DOMAIN funcs
      /\ \A a \in DOMAIN funcs :
            /\ funcs'[a].start = funcs[a].start /\ funcs'[a].size = funcs[a].size
            /\ funcs'[a].shndx = IF a = 1 THEN TextIndex ELSE Appended(Headers + a - 2)
  <2>1. funcs' = [a \in DOMAIN funcs |-> [funcs[a] EXCEPT !.shndx =
                        IF a = 1 THEN TextIndex ELSE Appended(Len(shdrs) + a - 2)]]
    BY DEF splitText
  <2>2. \A a \in DOMAIN funcs : funcs[a] \in Func
    BY <1>4
  <2>3. \A a \in DOMAIN funcs : funcs'[a] = [funcs[a] EXCEPT !.shndx =
                        IF a = 1 THEN TextIndex ELSE Appended(Len(shdrs) + a - 2)]
    BY <2>1
  <2>4. \A a \in DOMAIN funcs : funcs'[a] \in Func
    <3> TAKE a \in DOMAIN funcs
    <3> DEFINE x == IF a = 1 THEN TextIndex ELSE Appended(Len(shdrs) + a - 2)
    <3>1. x \in Nat /\ funcs[a] \in Func /\ funcs'[a] = [funcs[a] EXCEPT !.shndx = x]
      BY <1>5, <2>2, <2>3
    <3> HIDE DEF x
    <3> QED BY <3>1 DEF Func
  <2>5. funcs' \in [1 .. Len(funcs) -> Func]
    BY <1>4, <2>1, <2>4
  <2>6. \A a \in DOMAIN funcs :
            /\ funcs'[a].start = funcs[a].start /\ funcs'[a].size = funcs[a].size
            /\ funcs'[a].shndx = IF a = 1 THEN TextIndex ELSE Appended(Headers + a - 2)
    BY ZenonT(40), <1>3, <2>2, <2>3 DEF Func
  <2> QED BY <1>4, <2>5, <2>6, FnSeq
<1>7. /\ Relas' = Relas /\ Headers' = Headers /\ Original' = Original
      /\ \A m, a : Room(m, a)' = Room(m, a)
      /\ \A a : TextPos(a)' = TextPos(a)
      /\ FuncSyms' = FuncSyms
  BY <1>2, <1>6, Frame
<1>8. FuncsOK(funcs)'
  BY <1>1, <1>4, <1>6 DEF FuncsOK
<1>9. Listed(funcs)'
  BY <1>1, <1>2, <1>6, <1>7 DEF Listed
<1>10. /\ Headers \in Nat /\ Headers = 1 + Relas + obj.others /\ Relas \in Nat
       /\ obj.others \in Nat
       /\ shdrs' \in Seq(Header) /\ Len(shdrs') = Headers + Len(funcs) - 1
       /\ \A a \in DOMAIN funcs : /\ TextPos(a) \in DOMAIN shdrs'
                                  /\ shdrs'[TextPos(a)] = TextHeader(funcs[a])
       /\ \A h \in 2 .. Headers : h \in DOMAIN shdrs' /\ shdrs'[h] = shdrs[h]
       /\ \A h \in DOMAIN shdrs' : h \in 1 .. Headers \/ \E a \in DOMAIN funcs : h = TextPos(a)
  BY <1>1, SplitTable, RelasType, ObjType
<1>11. Counted'
  <2>1. Room(1, 1) = Len(funcs) - 1
    BY <1>1, <1>4, BreaksEnds DEF Room
  <2>2. Len(shdrs') = Headers' + Room(k, i)'
    <3>1. Room(k, i)' = Room(1, 1)
      <4>1. \A m : GroupStarts(m)' = GroupStarts(m)
        BY <1>2, <1>6, Frame
      <4>2. BreaksBefore(k, i)' = BreaksBefore(1, 1)
        BY <1>1, <1>2, <4>1 DEF BreaksBefore
      <4> QED BY <1>6, <4>2 DEF Room
    <3> QED BY <1>4, <1>7, <1>10, <2>1, <3>1
  <2>3. extra' = Room(Relas + 1, 1)'
    BY <1>1, <1>2, <1>7
  <2> QED BY <1>2, <2>2, <2>3 DEF Counted
<1>12. TextsInPlace'
  <2>1. ASSUME NEW a \in DOMAIN funcs
        PROVE  /\ shdrs'[TextPos(a)] = TextHeader(funcs'[a])
               /\ funcs'[a].shndx = IF a = 1 THEN TextIndex ELSE TextPos(a) % IndexRange
    <3>1. TextHeader(funcs'[a]) = TextHeader(funcs[a])
      BY <1>6 DEF TextHeader
    <3>2. a # 1 => Appended(Headers + a - 2) = TextPos(a) % IndexRange
      <4>1. a # 1 => Headers + a - 2 + 1 = TextPos(a)
        BY <1>4, <1>10 DEF TextPos
      <4> QED BY <4>1 DEF Appended
    <3> QED BY <1>6, <1>10, <3>1, <3>2
  <2>2. ASSUME NEW h \in DOMAIN shdrs', shdrs'[h].kind = "text"
        PROVE  \E a \in DOMAIN funcs : h = TextPos(a)
    <3>1. CASE h \in 1 .. Headers
      <4>1. h \in 2 .. Headers => shdrs[h].kind = "text" /\ h \in DOMAIN shdrs
        BY <1>10, <2>2, <1>1, <1>3, InitialTable
      <4>2. h \notin 2 .. Headers
        BY <1>1, <4>1, InitialTable
      <4>3. h = 1
        BY <1>10, <3>1, <4>2
      <4>4. 1 \in DOMAIN funcs /\ TextPos(1) = 1
        BY <1>4 DEF TextPos, TextIndex
      <4> QED BY <4>3, <4>4
    <3> QED BY <1>10, <3>1
  <2>3. Headers' + Len(funcs') - 1 <= Len(shdrs')
    BY <1>4, <1>6, <1>7, <1>10
  <2>4. \A a \in DOMAIN funcs' :
          /\ TextPos(a)' \in DOMAIN shdrs' /\ shdrs'[TextPos(a)'] = TextHeader(funcs'[a])
          /\ funcs'[a].shndx = IF a = 1 THEN TextIndex ELSE TextPos(a)' % IndexRange
    BY <1>6, <1>7, <1>10, <2>1
  <2>5. \A h \in TextSections' : \E a \in DOMAIN funcs' : h = TextPos(a)'
    BY <1>6, <1>7, <2>2 DEF TextSections
  <2> QED BY <1>10, <2>3, <2>4, <2>5 DEF TextsInPlace
<1>13. Grouped'
  <2>1. \A m \in 1 .. Relas :
          /\ 1 + m \in DOMAIN shdrs' /\ shdrs'[1 + m].kind = "rela"
          /\ shdrs'[1 + m].of = m /\ shdrs'[1 + m].off = 0
          /\ shdrs'[1 + m].size = Len(obj.relas[m])
    <3> TAKE m \in 1 .. Relas
    <3>1. 1 + m \in 2 .. Headers
      BY <1>10
    <3>2. shdrs[1 + m] = [kind |-> "rela", of |-> m, off |-> 0,
                          size |-> Len(obj.relas[m]), info |-> TextIndex]
      BY <1>1, InitialTable, RelasType
    <3>3. shdrs'[1 + m] = [kind |-> "rela", of |-> m, off |-> 0,
                           size |-> Len(obj.relas[m]), info |-> TextIndex]
      BY <1>10, <3>1, <3>2
    <3> QED BY <1>10, <3>1, <3>3
  <2>2. ASSUME NEW h \in DOMAIN shdrs', shdrs'[h].kind = "rela"
        PROVE  \E m \in 1 .. Relas : h = 1 + m
    <3>1. ~ \E a \in DOMAIN funcs : h = TextPos(a)
      <4>1. \A a \in DOMAIN funcs : TextHeader(funcs[a]).kind = "text"
        BY DEF TextHeader
      <4>2. \A a \in DOMAIN funcs : shdrs'[TextPos(a)].kind = "text"
        BY <1>10, <4>1
      <4> QED BY <2>2, <4>2
    <3>2. h \in 1 .. Headers /\ h # 1
      <4>1. 1 \in DOMAIN funcs /\ TextPos(1) = 1
        BY <1>4 DEF TextPos, TextIndex
      <4> QED BY <1>10, <3>1, <4>1
    <3>3. h \in 2 .. Headers /\ h \in DOMAIN shdrs
      BY <1>1, <1>3, <1>10, <3>2, InitialTable
    <3>4. shdrs[h].kind = "rela"
      BY <1>10, <2>2, <3>3
    <3> QED BY <1>1, <3>3, <3>4, InitialTable, RelasType
  <2>3. \A h \in RelaSections' :
          h \in DOMAIN shdrs' /\ \E m \in 1 .. Relas : h = 1 + m
    BY <2>2 DEF RelaSections
  <2>4. \A m \in Nat \ {0} : \A a \in Nat \ {0} : ~ Placed(m, a)'
    BY <1>1, <1>2 DEF Placed
  <2>5. Walk'
    BY <1>1, <1>2, <1>7, <1>10, RelasType DEF Walk
  <2>6. OffsetsSoFar'
    <3> SUFFICES ASSUME NEW m \in DOMAIN obj.relas, NEW a \in DOMAIN obj.relas[m]
                 PROVE  ~ Placed(m, a)'
      BY <1>1, <1>2 DEF OffsetsSoFar
    <3>1. m \in Nat \ {0} /\ a \in Nat \ {0}
      BY <1>1, RelasType
    <3> QED BY <2>4, <3>1
  <2>7. OwnHeaders'
    <3>1. \A m \in 1 .. Relas : /\ RelaIndex(m) \in RelaSections'
                                /\ shdrs'[RelaIndex(m)].of = m
                                /\ shdrs'[RelaIndex(m)].off = 0
      BY <2>1 DEF RelaIndex, RelaSections
    <3>2. \A h \in RelaSections' : h = RelaIndex(shdrs'[h].of)
      BY <2>1, <2>3 DEF RelaIndex
    <3> QED BY <1>1, <1>2, <3>1, <3>2, RelasType DEF OwnHeaders
  <2>8. HeadersTrue'
    <3> SUFFICES ASSUME NEW h \in RelaSections'
                 PROVE  /\ shdrs'[h].of \in DOMAIN obj.relas
                        /\ Ends(h)' <= Len(obj.relas[shdrs'[h].of])
                        /\ \A a \in shdrs'[h].off + 1 .. Ends(h)' : ~ Placed(shdrs[h].of, a)'
      BY <1>2 DEF HeadersTrue
    <3>1. PICK m \in 1 .. Relas : h = 1 + m
      BY <2>3
    <3>2. /\ shdrs'[h].of = m /\ shdrs'[h].off = 0
          /\ shdrs'[h].size = Len(obj.relas[m])
      BY <2>1, <3>1
    <3>3. Len(obj.relas[m]) \in Nat /\ m \in DOMAIN obj.relas
      BY <1>1, RelasType
    <3>4. Ends(h)' = Len(obj.relas[m])
      BY <3>2, <3>3 DEF Ends
    <3>5. ASSUME NEW a \in shdrs'[h].off + 1 .. Ends(h)' PROVE ~ Placed(shdrs[h].of, a)'
      <4>1. m \in Nat \ {0} /\ a \in Nat \ {0}
        BY <1>10, <3>2, <3>3, <3>4
      <4>2. k' = 1 /\ i' = 1
        BY <1>1, <1>2
      <4> QED BY <3>2, <4>1, <4>2 DEF Placed
    <3> QED BY <3>2, <3>3, <3>4, <3>5
  <2>9. HeadersApart'
    <3> SUFFICES ASSUME NEW g \in RelaSections', NEW h \in RelaSections',
                        shdrs'[g].of = shdrs'[h].of
                 PROVE  g = h
      BY DEF HeadersApart
    <3> QED BY <2>1, <2>3
  <2>10. Covered'
    <3> SUFFICES ASSUME NEW m \in DOMAIN obj.relas, NEW a \in DOMAIN obj.relas[m]
                 PROVE  ~ Placed(m, a)'
      BY <1>2 DEF Covered
    <3>1. m \in Nat \ {0} /\ a \in Nat \ {0}
      BY <1>1, RelasType
    <3> QED BY <2>4, <3>1
  <2>11. Current'
    BY <1>1, <1>2 DEF Current
  <2> QED BY <2>5, <2>6, <2>7, <2>8, <2>9, <2>10, <2>11 DEF Grouped
<1>14. (syms = Original)'
  BY <1>1, <1>2, <1>7
<1> QED BY <1>1, <1>2, <1>8, <1>9, <1>11, <1>12, <1>13, <1>14 DEF IInv, Before, After

\* The text headers stay when only relocation headers change.
LEMMA TextsKept ==
    ASSUME TextsInPlace, obj' = obj, funcs' = funcs, shdrs' \in Seq(Header),
           Len(shdrs) <= Len(shdrs'), FuncsOK(funcs), obj \in Object,
           \A h \in TextSections : h \in DOMAIN shdrs' /\ shdrs'[h] = shdrs[h],
           \A h \in DOMAIN shdrs' : shdrs'[h].kind = "text" => h \in TextSections
    PROVE  TextsInPlace'
<1>1. /\ Headers' = Headers /\ \A a : TextPos(a)' = TextPos(a)
  BY Frame
<1>2. Headers \in Nat /\ Len(funcs) \in Nat /\ Len(shdrs) \in Nat /\ Len(shdrs') \in Nat
  BY InitialTable DEF Headers, TextsInPlace, FuncsOK
<1>3. Headers' + Len(funcs') - 1 <= Len(shdrs')
  BY <1>1, <1>2 DEF TextsInPlace
<1>4. ASSUME NEW a \in DOMAIN funcs
      PROVE  /\ TextPos(a) \in DOMAIN shdrs' /\ shdrs'[TextPos(a)] = TextHeader(funcs[a])
             /\ funcs[a].shndx = IF a = 1 THEN TextIndex ELSE TextPos(a) % IndexRange
  <2>1. /\ TextPos(a) \in DOMAIN shdrs /\ shdrs[TextPos(a)] = TextHeader(funcs[a])
        /\ funcs[a].shndx = IF a = 1 THEN TextIndex ELSE TextPos(a) % IndexRange
    BY DEF TextsInPlace
  <2>2. TextHeader(funcs[a]).kind = "text"
    BY DEF TextHeader
  <2>3. TextPos(a) \in TextSections
    BY <2>1, <2>2 DEF TextSections
  <2> QED BY <2>1, <2>3
<1>5. \A a \in DOMAIN funcs' :
          /\ TextPos(a)' \in DOMAIN shdrs' /\ shdrs'[TextPos(a)'] = TextHeader(funcs'[a])
          /\ funcs'[a].shndx = IF a = 1 THEN TextIndex ELSE TextPos(a)' % IndexRange
  BY <1>1, <1>4
<1>6. \A h \in TextSections' : \E a \in DOMAIN funcs' : h = TextPos(a)'
  <2>1. \A h \in TextSections' : h \in TextSections
    BY DEF TextSections
  <2>2. \A h \in TextSections : \E a \in DOMAIN funcs : h = TextPos(a)
    BY DEF TextsInPlace
  <2> QED BY <1>1, <2>1, <2>2
<1> QED BY <1>3, <1>5, <1>6 DEF TextsInPlace

\* What the actions behind splitText start from.
LEMMA Afterwards ==
    ASSUME IInv, After
    PROVE  /\ obj \in Object /\ FuncsOK(funcs) /\ Listed(funcs) /\ TextsInPlace
           /\ Walk /\ OffsetsSoFar /\ OwnHeaders /\ HeadersTrue /\ HeadersApart
           /\ Covered /\ Current
           /\ extra = Room(Relas + 1, 1) /\ Len(shdrs) = Headers + Room(k, i)
           /\ Relas \in Nat /\ Headers \in Nat /\ Len(funcs) \in Nat
           /\ shdrs \in Seq(Header) /\ DOMAIN shdrs = 1 .. Len(shdrs) /\ Len(shdrs) \in Nat
           /\ \A h \in RelaSections : h \in DOMAIN shdrs /\ shdrs[h] \in RelaHeader
<1>1. /\ obj \in Object /\ FuncsOK(funcs) /\ Listed(funcs) /\ TextsInPlace
      /\ Walk /\ OffsetsSoFar /\ OwnHeaders /\ HeadersTrue /\ HeadersApart
      /\ Covered /\ Current
      /\ extra = Room(Relas + 1, 1) /\ Len(shdrs) = Headers + Room(k, i)
  BY DEF IInv, Grouped, Counted
<1>2. Relas \in Nat /\ Headers \in Nat /\ Len(funcs) \in Nat
  BY <1>1, RelasType, InitialTable DEF Headers, FuncsOK
<1>3. shdrs \in Seq(Header) /\ DOMAIN shdrs = 1 .. Len(shdrs) /\ Len(shdrs) \in Nat
  BY <1>1 DEF TextsInPlace
<1>4. \A h \in RelaSections : h \in DOMAIN shdrs /\ shdrs[h] \in RelaHeader
  <2> TAKE h \in RelaSections
  <2>1. h \in DOMAIN shdrs /\ shdrs[h].kind = "rela"
    BY DEF RelaSections
  <2>2. shdrs[h] \in Header
    BY <1>3, <2>1
  <2> QED BY <2>1, <2>2 DEF Header, RelaHeader
<1> QED BY <1>1, <1>2, <1>3, <1>4

\* A section is left with all its relocations placed.
LEMMA NextRelaInv ==
    ASSUME IInv, NextRelaSection PROVE IInv'
<1>0. After /\ pc = "relocs" /\ pc' = "relocs"
  BY DEF NextRelaSection, After
<1>1. /\ obj \in Object /\ FuncsOK(funcs) /\ Listed(funcs) /\ TextsInPlace
      /\ Walk /\ OffsetsSoFar /\ OwnHeaders /\ HeadersTrue /\ HeadersApart
      /\ Covered /\ Current
      /\ extra = Room(Relas + 1, 1) /\ Len(shdrs) = Headers + Room(k, i)
      /\ Relas \in Nat /\ Headers \in Nat /\ Len(funcs) \in Nat
      /\ shdrs \in Seq(Header) /\ DOMAIN shdrs = 1 .. Len(shdrs) /\ Len(shdrs) \in Nat
      /\ \A h \in RelaSections : h \in DOMAIN shdrs /\ shdrs[h] \in RelaHeader
  BY <1>0, Afterwards
<1>2. /\ obj' = obj /\ funcs' = funcs /\ extra' = extra /\ offs' = offs /\ syms' = syms
      /\ k' = k + 1 /\ i' = 1 /\ currentFunc' = 0 /\ currentRela' = 0
  BY DEF NextRelaSection
<1>3. /\ k \in 1 .. Relas /\ k \in Nat /\ i = Len(obj.relas[k]) + 1 /\ i \in Nat
      /\ Len(obj.relas[k]) \in Nat
  <2>1. k <= Relas /\ i > Len(obj.relas[k])
    BY DEF NextRelaSection, Relas
  <2>2. k \in 1 .. Relas /\ i \in Nat /\ i <= Len(obj.relas[k]) + 1
    BY <1>1, <2>1 DEF Walk
  <2>3. Len(obj.relas[k]) \in Nat
    BY <1>1, <2>2, RelasType
  <2> QED BY <1>1, <2>1, <2>2, <2>3
<1>4. /\ Relas' = Relas /\ Headers' = Headers /\ Original' = Original
      /\ \A m, a : Owner(m, a)' = Owner(m, a)
      /\ \A m : GroupStarts(m)' = GroupStarts(m)
  BY <1>2, Frame
<1>5. \A m \in 1 .. Relas : \A a \in 1 .. Len(obj.relas[m]) : Placed(m, a)' <=> Placed(m, a)
  <2> TAKE m \in 1 .. Relas
  <2> TAKE a \in 1 .. Len(obj.relas[m])
  <2>1. m \in Nat /\ a \in Nat /\ Len(obj.relas[m]) \in Nat /\ 1 <= a /\ a <= Len(obj.relas[m])
    BY <1>1, RelasType
  <2> QED BY <1>2, <1>3, <2>1 DEF Placed
<1>6. /\ shdrs' \in Seq(Header) /\ DOMAIN shdrs' = DOMAIN shdrs /\ Len(shdrs') = Len(shdrs)
      /\ \A h \in DOMAIN shdrs : h \notin RelaSections => shdrs'[h] = shdrs[h]
      /\ \A h \in RelaSections :
            /\ shdrs'[h].kind = "rela" /\ shdrs'[h].of = shdrs[h].of
            /\ shdrs'[h].off = shdrs[h].off /\ shdrs'[h].size = shdrs[h].size
            /\ shdrs[h].of # k \/ Len(obj.relas[k]) # 0 => shdrs'[h].info = shdrs[h].info
  <2>1. CASE obj.relas[k] = <<>>
    <3> DEFINE r == RelaIndex(k)
    <3>1. r \in RelaSections /\ shdrs[r].of = k /\ shdrs[r] \in RelaHeader /\ r \in DOMAIN shdrs
      BY <1>1, <1>3, RelasType DEF OwnHeaders
    <3>2. shdrs' = [shdrs EXCEPT ![r].info = funcs[1].shndx]
      BY <2>1 DEF NextRelaSection
    <3>3. funcs[1].shndx \in Nat
      <4>1. funcs[1] \in Func
        BY <1>1 DEF FuncsOK
      <4> QED BY <4>1 DEF Func
    <3> HIDE DEF r
    <3> DEFINE x == [shdrs[r] EXCEPT !.info = funcs[1].shndx]
    <3>4. /\ x \in RelaHeader /\ x.kind = "rela" /\ x.of = k /\ x.off = shdrs[r].off
          /\ x.size = shdrs[r].size
      BY <3>1, <3>3 DEF RelaHeader
    <3>5. x \in Header
      BY <3>4 DEF Header
    <3>6. shdrs' = [shdrs EXCEPT ![r] = x]
      BY <3>2
    <3> HIDE DEF x
    <3>7. /\ shdrs' \in Seq(Header) /\ DOMAIN shdrs' = DOMAIN shdrs /\ Len(shdrs') = Len(shdrs)
          /\ shdrs'[r] = x /\ \A h \in DOMAIN shdrs : h # r => shdrs'[h] = shdrs[h]
      BY <1>1, <3>1, <3>5, <3>6
    <3>8. \A h \in RelaSections : h \in DOMAIN shdrs /\ shdrs[h].kind = "rela"
      BY DEF RelaSections
    <3>9. Len(obj.relas[k]) = 0
      BY <2>1
    <3> QED BY <3>1, <3>4, <3>7, <3>8, <3>9
  <2>2. CASE obj.relas[k] # <<>>
    <3>1. shdrs' = shdrs
      BY <2>2 DEF NextRelaSection
    <3> QED BY <1>1, <3>1 DEF RelaSections
  <2> QED BY <2>1, <2>2
<1>7. RelaSections' = RelaSections /\ \A h \in RelaSections : Ends(h)' = Ends(h)
  <2>1. \A h \in DOMAIN shdrs : shdrs'[h].kind = shdrs[h].kind
    BY <1>6 DEF RelaSections
  <2>2. RelaSections' = RelaSections
    BY <1>6, <2>1 DEF RelaSections
  <2> QED BY <1>6, <2>2 DEF Ends
<1>8. TextsInPlace'
  <2>1. \A h \in TextSections : h \in DOMAIN shdrs' /\ shdrs'[h] = shdrs[h]
    BY <1>6 DEF TextSections, RelaSections
  <2>2. \A h \in DOMAIN shdrs' : shdrs'[h].kind = "text" => h \in TextSections
    BY <1>6 DEF TextSections, RelaSections
  <2> QED BY <1>1, <1>2, <1>6, <2>1, <2>2, TextsKept
<1>9. Counted'
  <2>1. Cardinality(BreaksBefore(k + 1, 1)) = Cardinality(BreaksBefore(k, i))
    BY SMTT(30), <1>1, <1>3, BreaksNext
  <2>2. BreaksBefore(k, i)' = BreaksBefore(k + 1, 1)
    BY <1>2, <1>4 DEF BreaksBefore
  <2>3. Room(k, i)' = Room(k, i)
    BY <1>2, <2>1, <2>2 DEF Room
  <2>4. Room(Relas + 1, 1)' = Room(Relas + 1, 1)
    BY <1>2, <1>4 DEF Room, BreaksBefore
  <2> QED BY <1>0, <1>1, <1>2, <1>4, <1>6, <2>3, <2>4 DEF Counted
<1>10. Walk'
  <2>1. k' \in 1 .. Relas' + 1 /\ i' \in Nat \ {0} /\ i' = 1
    BY <1>1, <1>2, <1>3, <1>4
  <2>2. k' <= Relas' => i' <= Len(obj'.relas[k']) + 1
    BY <1>1, <1>2, <1>4, <2>1, RelasType
  <2> QED BY <1>0, <2>1, <2>2 DEF Walk
<1>11. OffsetsSoFar'
  <2>1. \A m \in DOMAIN obj.relas : \A a \in DOMAIN obj.relas[m] : Placed(m, a)' <=> Placed(m, a)
    BY <1>1, <1>5, RelasType
  <2> QED BY <1>1, <1>2, <1>4, <2>1 DEF OffsetsSoFar
<1>12. OwnHeaders'
  <2>1. \A h \in RelaSections : ~ (Placed(shdrs[h].of, 1)') => ~ Placed(shdrs[h].of, 1)
    <3> TAKE h \in RelaSections
    <3>1. shdrs[h].of \in Nat /\ shdrs'[h].of = shdrs[h].of
      BY <1>1, <1>6 DEF RelaHeader
    <3> QED BY <1>2, <1>3, <3>1 DEF Placed
  <2>2. \A h \in RelaSections : ~ (Placed(shdrs[h].of, 1)') => h = RelaIndex(shdrs'[h].of)
    BY <1>1, <1>6, <2>1 DEF OwnHeaders
  <2>3. \A m \in DOMAIN obj.relas : /\ RelaIndex(m) \in RelaSections
                                    /\ shdrs'[RelaIndex(m)].of = m
                                    /\ shdrs'[RelaIndex(m)].off = 0
    BY <1>1, <1>6 DEF OwnHeaders
  <2> QED BY <1>2, <1>7, <2>2, <2>3 DEF OwnHeaders
<1>13. HeadersTrue'
  <2> SUFFICES ASSUME NEW h \in RelaSections
               PROVE  /\ shdrs[h].of \in DOMAIN obj.relas
                      /\ Ends(h) <= Len(obj.relas[shdrs[h].of])
                      /\ \A a \in shdrs[h].off + 1 .. Ends(h) :
                            Placed(shdrs[h].of, a)' =>
                                shdrs'[h].info = funcs[Owner(shdrs[h].of, a)].shndx
    <3>1. ASSUME NEW h \in RelaSections
          PROVE  /\ shdrs'[h].of = shdrs[h].of /\ shdrs'[h].off = shdrs[h].off
                 /\ Ends(h)' = Ends(h)
                 /\ \A a : Owner(shdrs[h].of, a)' = Owner(shdrs[h].of, a)
      BY <1>2, <1>6, <1>7 DEF Owner
    <3> QED BY <1>2, <1>7, <3>1 DEF HeadersTrue
  <2>1. /\ shdrs[h].of \in DOMAIN obj.relas /\ Ends(h) <= Len(obj.relas[shdrs[h].of])
        /\ shdrs[h] \in RelaHeader /\ shdrs[h].of \in 1 .. Relas
        /\ Len(obj.relas[shdrs[h].of]) \in Nat /\ shdrs'[h].of = shdrs[h].of
    BY <1>1, <1>6, RelasType DEF HeadersTrue
  <2>2. ASSUME NEW a \in shdrs[h].off + 1 .. Ends(h), Placed(shdrs[h].of, a)'
        PROVE  shdrs'[h].info = funcs[Owner(shdrs[h].of, a)].shndx
    <3>1. a \in 1 .. Len(obj.relas[shdrs[h].of])
      <4>1. shdrs[h].off \in Nat /\ shdrs[h].size \in Nat
        BY <2>1 DEF RelaHeader
      <4> HIDE DEF Ends
      <4> QED BY <2>1, <4>1 DEF Ends
    <3>2. Placed(shdrs[h].of, a)
      <4> DEFINE m == shdrs[h].of
      <4>1. m \in 1 .. Relas /\ (m < k' \/ (m = k' /\ a < i'))
        BY <2>1, <2>2 DEF Placed
      <4>2. m \in Nat /\ a \in Nat /\ a <= Len(obj.relas[m]) /\ 1 <= a
        BY <1>1, <2>1, <3>1
      <4> HIDE DEF m
      <4>3. m < k \/ (m = k /\ a < i)
        BY <1>2, <1>3, <4>1, <4>2
      <4> QED BY <4>3 DEF Placed, m
    <3>3. shdrs[h].info = funcs[Owner(shdrs[h].of, a)].shndx
      BY <1>1, <3>2 DEF HeadersTrue
    <3>4. shdrs[h].of # k \/ Len(obj.relas[k]) # 0
      BY <1>3, <3>1
    <3> QED BY <1>6, <3>3, <3>4
  <2> QED BY <2>1, <2>2
<1>14. HeadersApart'
  BY <1>1, <1>6, <1>7 DEF HeadersApart
<1>15. Covered'
  <2> SUFFICES ASSUME NEW m \in DOMAIN obj.relas, NEW a \in DOMAIN obj.relas[m],
                      Placed(m, a)'
               PROVE  \E h \in RelaSections : /\ shdrs'[h].of = m
                                              /\ shdrs'[h].off < a /\ a <= Ends(h)'
    BY <1>2, <1>7 DEF Covered
  <2>1. Placed(m, a)
    BY <1>1, <1>5, RelasType
  <2> QED BY <1>1, <1>6, <1>7, <2>1 DEF Covered
<1>16. Current'
  BY <1>2 DEF Current
<1>17. FuncsOK(funcs)' /\ Listed(funcs)'
  BY <1>1, <1>2 DEF FuncsOK, Listed, FuncSyms
<1>18. (syms = Original)'
  BY <1>0, <1>2, <1>4 DEF IInv
<1>19. Grouped'
  BY <1>10, <1>11, <1>12, <1>13, <1>14, <1>15, <1>16 DEF Grouped
<1> QED BY <1>0, <1>1, <1>2, <1>8, <1>9, <1>17, <1>18, <1>19 DEF IInv, Before, After

\* What one relocation does to the header table: header g takes it, which from
\* then on covers the relocations o + 1 .. i of section k.
LEMMA StepShape ==
    ASSUME IInv, SplitRelocation
    PROVE  LET f == Owner(k, i)
               g == Group(f)
           IN  \E o \in Nat :
               /\ o < i
               /\ shdrs' \in Seq(Header)
               /\ Len(shdrs') = Len(shdrs) + (IF i \in Breaks(k) THEN 1 ELSE 0)
               /\ g \in DOMAIN shdrs' /\ shdrs'[g] \in RelaHeader
               /\ shdrs'[g].of = k /\ shdrs'[g].off = o /\ shdrs'[g].size = i - o
               /\ shdrs'[g].info = funcs[f].shndx
               /\ \A h \in DOMAIN shdrs' : h # g => h \in DOMAIN shdrs /\ shdrs'[h] = shdrs[h]
               /\ \A h \in DOMAIN shdrs : h \in DOMAIN shdrs'
               /\ g \in DOMAIN shdrs => /\ g \in RelaSections /\ shdrs[g].of = k
                                        /\ shdrs[g].off = o
                                        /\ i > 1 => Ends(g) = i - 1
               /\ \A h \in RelaSections : h # g /\ shdrs[h].of = k => Ends(h) <= o
               /\ \A a \in o + 1 .. i : funcs[Owner(k, a)].shndx = funcs[f].shndx
               /\ currentFunc' = f /\ currentRela' = g
               /\ offs' = [offs EXCEPT ![k][i] = @ - funcs[f].start]
<1>0. After /\ pc = "relocs"
  BY DEF SplitRelocation, After
<1>1. /\ obj \in Object /\ FuncsOK(funcs) /\ TextsInPlace
      /\ Walk /\ OffsetsSoFar /\ OwnHeaders /\ HeadersTrue /\ HeadersApart /\ Current
      /\ Relas \in Nat /\ Headers \in Nat /\ Len(funcs) \in Nat
      /\ shdrs \in Seq(Header) /\ DOMAIN shdrs = 1 .. Len(shdrs) /\ Len(shdrs) \in Nat
      /\ \A h \in RelaSections : h \in DOMAIN shdrs /\ shdrs[h] \in RelaHeader
  BY <1>0, Afterwards
<1>2. /\ k \in 1 .. Relas /\ k \in Nat /\ i \in 1 .. Len(obj.relas[k]) /\ i \in Nat
      /\ Len(obj.relas[k]) \in Nat /\ obj.relas[k][i] \in Nat
      /\ k \in DOMAIN obj.relas /\ i \in DOMAIN obj.relas[k] /\ k <= Relas
  <2>1. k <= Relas /\ i <= Len(obj.relas[k])
    BY DEF SplitRelocation, Relas
  <2>2. k \in 1 .. Relas /\ i \in Nat \ {0}
    BY <1>1, <2>1 DEF Walk
  <2> QED BY <1>1, <2>1, <2>2, RelasType
<1> DEFINE f == Owner(k, i)
           g == Group(f)
<1>3. functionForOffset(funcs, offs[k][i]) = f
  <2>1. ~ Placed(k, i)
    BY <1>2 DEF Placed
  <2>2. offs[k][i] = obj.relas[k][i]
    BY <1>1, <1>2, <2>1 DEF OffsetsSoFar
  <2> QED BY <2>2 DEF Owner
<1>4. f \in DOMAIN funcs /\ f \in Nat \ {0} /\ funcs[f].shndx \in Nat
  <2>1. f \in DOMAIN funcs
    BY <1>1, <1>2, FunctionForOffset DEF Owner
  <2>2. funcs[f] \in Func /\ f \in Nat \ {0}
    BY <1>1, <2>1 DEF FuncsOK
  <2> QED BY <2>1, <2>2 DEF Func
<1>5. /\ shdrs' = [WithGroup(f) EXCEPT ![g].size = @ + 1]
      /\ currentFunc' = f /\ currentRela' = g
      /\ offs' = [offs EXCEPT ![k][i] = @ - funcs[f].start]
  BY <1>3 DEF SplitRelocation
<1>6. i \in Breaks(k) <=> i # 1 /\ f # Owner(k, i - 1)
  BY <1>1, <1>2, BreaksRange
<1>7. i > 1 => /\ currentFunc = Owner(k, i - 1)
               /\ currentRela \in RelaSections /\ shdrs[currentRela].of = k
               /\ shdrs[currentRela].off < i - 1 /\ Ends(currentRela) = i - 1
               /\ \A h \in RelaSections : shdrs[h].of = k /\ h # currentRela =>
                                          Ends(h) <= shdrs[currentRela].off
  BY <1>1, <1>2 DEF Current
<1>8. i = 1 => currentFunc = 0 /\ currentRela = 0
  BY <1>1 DEF Current
<1> HIDE DEF f
<1>9. CASE f = currentFunc
  <2>1. i > 1 /\ g = currentRela /\ WithGroup(f) = shdrs
    BY <1>2, <1>4, <1>8, <1>9 DEF Group, WithGroup
  <2>2. /\ g \in RelaSections /\ shdrs[g].of = k /\ shdrs[g].off < i - 1
        /\ Ends(g) = i - 1 /\ g \in DOMAIN shdrs /\ shdrs[g] \in RelaHeader
        /\ \A h \in RelaSections : shdrs[h].of = k /\ h # g => Ends(h) <= shdrs[g].off
    BY <1>1, <1>7, <2>1
  <2> HIDE DEF g
  <2> DEFINE o == shdrs[g].off
             x == [shdrs[g] EXCEPT !.size = @ + 1]
  <2>3. /\ o \in Nat /\ shdrs[g].size \in Nat /\ o < i - 1 /\ o < i
        /\ shdrs[g].size + 1 = i - o
    <3>1. shdrs[g].off \in Nat /\ shdrs[g].size \in Nat
      BY <2>2 DEF RelaHeader
    <3> QED BY SMTT(30), <1>2, <2>2, <3>1 DEF Ends
  <2>4. x \in RelaHeader /\ x.of = k /\ x.off = o /\ x.size = i - o /\ x.info = shdrs[g].info
    BY <2>2, <2>3 DEF RelaHeader
  <2>5. shdrs' = [shdrs EXCEPT ![g] = x]
    BY <1>5, <2>1
  <2>6. x \in Header
    BY <2>4 DEF Header
  <2> HIDE DEF x, o
  <2>7. /\ shdrs' \in Seq(Header) /\ Len(shdrs') = Len(shdrs) /\ DOMAIN shdrs' = DOMAIN shdrs
        /\ shdrs'[g] = x /\ \A h \in DOMAIN shdrs : h # g => shdrs'[h] = shdrs[h]
    BY <1>1, <2>2, <2>5, <2>6
  <2>8. i \notin Breaks(k)
    BY <1>6, <1>7, <1>9, <2>1
  <2>9. ASSUME NEW a \in o + 1 .. i PROVE funcs[Owner(k, a)].shndx = shdrs[g].info
    <3>1. CASE a = i
      <4>1. i - 1 \in shdrs[g].off + 1 .. Ends(g) /\ Placed(k, i - 1)
        BY <1>2, <2>2, <2>3 DEF Placed, o
      <4>2. shdrs[g].info = funcs[Owner(k, i - 1)].shndx
        BY <1>1, <2>2, <4>1 DEF HeadersTrue
      <4>3. Owner(k, i - 1) = Owner(k, i)
        BY <1>7, <1>9, <2>1 DEF f
      <4> QED BY <3>1, <4>2, <4>3
    <3>2. CASE a # i
      <4>1. a \in shdrs[g].off + 1 .. Ends(g) /\ a < i
        BY <1>2, <2>2, <2>3, <3>2 DEF o
      <4>2. Placed(k, a)
        BY <4>1 DEF Placed
      <4> QED BY <1>1, <2>2, <4>1, <4>2 DEF HeadersTrue
    <3> QED BY <3>1, <3>2
  <2>10. funcs[f].shndx = shdrs[g].info
    <3>1. i \in o + 1 .. i
      BY <1>2, <2>3
    <3> QED BY <2>9, <3>1 DEF f
  <2>11. /\ o < i /\ shdrs' \in Seq(Header)
         /\ Len(shdrs') = Len(shdrs) + (IF i \in Breaks(k) THEN 1 ELSE 0)
         /\ g \in DOMAIN shdrs' /\ shdrs'[g] \in RelaHeader
         /\ shdrs'[g].of = k /\ shdrs'[g].off = o /\ shdrs'[g].size = i - o
         /\ shdrs'[g].info = funcs[f].shndx
    BY <1>1, <2>2, <2>3, <2>4, <2>7, <2>8, <2>10
  <2>12. /\ \A h \in DOMAIN shdrs' : h # g => h \in DOMAIN shdrs /\ shdrs'[h] = shdrs[h]
         /\ \A h \in DOMAIN shdrs : h \in DOMAIN shdrs'
         /\ g \in DOMAIN shdrs => /\ g \in RelaSections /\ shdrs[g].of = k
                                  /\ shdrs[g].off = o
                                  /\ i > 1 => Ends(g) = i - 1
         /\ \A h \in RelaSections : h # g /\ shdrs[h].of = k => Ends(h) <= o
    BY <2>2, <2>7 DEF o
  <2>13. \A a \in o + 1 .. i : funcs[Owner(k, a)].shndx = funcs[f].shndx
    BY <2>9, <2>10
  <2>14. o \in Nat
    BY <2>3
  <2> QED BY <1>5, <2>11, <2>12, <2>13, <2>14 DEF f, g
<1>10. CASE f # currentFunc /\ currentRela = 0
  <2>1. i = 1
    <3>1. i > 1 => currentRela \in DOMAIN shdrs
      BY <1>1, <1>7
    <3> QED BY <1>1, <1>2, <1>10, <3>1
  <2> DEFINE r == RelaIndex(k)
  <2>2. /\ r \in RelaSections /\ shdrs[r].of = k /\ shdrs[r].off = 0 /\ r \in DOMAIN shdrs
        /\ shdrs[r] \in RelaHeader
    BY <1>1, <1>2 DEF OwnHeaders
  <2>3. g = r /\ WithGroup(f) = [shdrs EXCEPT ![r].size = 0, ![r].info = funcs[f].shndx]
    BY <1>10 DEF Group, WithGroup
  <2> HIDE DEF g, r
  <2> DEFINE x == [kind |-> "rela", of |-> k, off |-> 0, size |-> 1, info |-> funcs[f].shndx]
             y == [[shdrs[r] EXCEPT !.size = 0] EXCEPT !.info = funcs[f].shndx]
  <2>4. WithGroup(f) = [shdrs EXCEPT ![r] = y]
    BY <1>1, <2>2, <2>3
  <2>5. y \in RelaHeader /\ [y EXCEPT !.size = @ + 1] = x
    <3>1. shdrs[r] = [kind |-> "rela", of |-> k, off |-> 0, size |-> shdrs[r].size,
                      info |-> shdrs[r].info]
      BY <2>2 DEF RelaHeader
    <3>2. y = [kind |-> "rela", of |-> k, off |-> 0, size |-> 0, info |-> funcs[f].shndx]
      <4> DEFINE u == shdrs[r].size
                 v == shdrs[r].info
      <4>1. shdrs[r] = [kind |-> "rela", of |-> k, off |-> 0, size |-> u, info |-> v]
        BY <3>1
      <4>2. y = [[[kind |-> "rela", of |-> k, off |-> 0, size |-> u, info |-> v]
                     EXCEPT !.size = 0] EXCEPT !.info = funcs[f].shndx]
        BY <4>1
      <4> HIDE DEF u, v, y
      <4> QED BY <4>2
    <3>3. y \in RelaHeader
      <4> HIDE DEF y
      <4> QED BY <1>2, <1>4, <3>2 DEF RelaHeader
    <3>4. [y EXCEPT !.size = @ + 1] = x
      <4> HIDE DEF y
      <4> QED BY <3>2
    <3> QED BY <3>3, <3>4
  <2>6. x \in RelaHeader /\ x \in Header
    BY <1>2, <1>4 DEF RelaHeader, Header
  <2>7. x.of = k /\ x.off = 0 /\ x.size = i - 0 /\ x.info = funcs[f].shndx
    BY <2>1
  <2> HIDE DEF x, y
  <2>8. shdrs' = [shdrs EXCEPT ![r] = x]
    <3>1. shdrs' = [[shdrs EXCEPT ![r] = y] EXCEPT ![r].size = @ + 1]
      BY <1>5, <2>3, <2>4
    <3> QED BY <1>1, <2>2, <2>5, <3>1
  <2>9. /\ shdrs' \in Seq(Header) /\ Len(shdrs') = Len(shdrs) /\ DOMAIN shdrs' = DOMAIN shdrs
        /\ shdrs'[r] = x /\ \A h \in DOMAIN shdrs : h # r => shdrs'[h] = shdrs[h]
    BY <1>1, <2>2, <2>6, <2>8
  <2>10. i \notin Breaks(k)
    BY <1>6, <2>1
  <2>11. \A h \in RelaSections : shdrs[h].of = k => h = r
    <3>1. ~ Placed(k, 1)
      BY <1>2, <2>1 DEF Placed
    <3> QED BY <1>1, <3>1 DEF OwnHeaders, r
  <2>12. /\ 0 < i /\ shdrs' \in Seq(Header)
         /\ Len(shdrs') = Len(shdrs) + (IF i \in Breaks(k) THEN 1 ELSE 0)
         /\ g \in DOMAIN shdrs' /\ shdrs'[g] \in RelaHeader
         /\ shdrs'[g].of = k /\ shdrs'[g].off = 0 /\ shdrs'[g].size = i - 0
         /\ shdrs'[g].info = funcs[f].shndx
    BY <1>1, <2>1, <2>2, <2>3, <2>6, <2>7, <2>9, <2>10
  <2>13. /\ \A h \in DOMAIN shdrs' : h # g => h \in DOMAIN shdrs /\ shdrs'[h] = shdrs[h]
         /\ \A h \in DOMAIN shdrs : h \in DOMAIN shdrs'
         /\ g \in DOMAIN shdrs => /\ g \in RelaSections /\ shdrs[g].of = k
                                  /\ shdrs[g].off = 0
                                  /\ i > 1 => Ends(g) = i - 1
         /\ \A h \in RelaSections : h # g /\ shdrs[h].of = k => Ends(h) <= 0
    BY <2>1, <2>2, <2>3, <2>9, <2>11
  <2>14. \A a \in 0 + 1 .. i : funcs[Owner(k, a)].shndx = funcs[f].shndx
    BY <2>1 DEF f
  <2> QED BY <1>5, <2>12, <2>13, <2>14 DEF f, g
<1>11. CASE f # currentFunc /\ currentRela # 0
  <2> DEFINE L == Len(shdrs)
             hd == [kind |-> "rela", of |-> k, off |-> i - 1, size |-> 0,
                    info |-> funcs[f].shndx]
             x == [kind |-> "rela", of |-> k, off |-> i - 1, size |-> 1,
                   info |-> funcs[f].shndx]
  <2>1. i > 1 /\ i - 1 \in Nat
    BY <1>2, <1>8, <1>11
  <2>2. g = L + 1 /\ WithGroup(f) = Append(shdrs, hd)
    BY <1>11 DEF Group, WithGroup
  <2>3. i \in Breaks(k)
    BY <1>6, <1>7, <1>11, <2>1
  <2>4. hd \in Header /\ x \in Header /\ x \in RelaHeader /\ [hd EXCEPT !.size = @ + 1] = x
    BY <1>2, <1>4, <2>1 DEF RelaHeader, Header
  <2>5. x.of = k /\ x.off = i - 1 /\ x.size = i - (i - 1) /\ x.info = funcs[f].shndx
    BY <1>2
  <2> HIDE DEF hd, x, g
  <2> DEFINE A == Append(shdrs, hd)
  <2>6. /\ A \in Seq(Header) /\ Len(A) = L + 1 /\ DOMAIN A = 1 .. L + 1 /\ A[L + 1] = hd
        /\ \A h \in 1 .. L : A[h] = shdrs[h]
    BY <1>1, <2>4
  <2> HIDE DEF A
  <2>7. shdrs' = [A EXCEPT ![L + 1] = x]
    <3>1. shdrs' = [A EXCEPT ![L + 1].size = @ + 1]
      BY <1>5, <2>2 DEF A
    <3> QED BY <1>1, <2>4, <2>6, <3>1
  <2>8. /\ shdrs' \in Seq(Header) /\ Len(shdrs') = L + 1 /\ DOMAIN shdrs' = 1 .. L + 1
        /\ shdrs'[L + 1] = x /\ \A h \in 1 .. L : shdrs'[h] = shdrs[h]
    BY <1>1, <2>4, <2>6, <2>7
  <2>9. ASSUME NEW h \in RelaSections, shdrs[h].of = k PROVE Ends(h) <= i - 1
    <3>1. /\ Ends(currentRela) = i - 1 /\ shdrs[currentRela].off < i - 1
          /\ shdrs[currentRela].off \in Nat
      BY <1>1, <1>7, <2>1 DEF RelaHeader
    <3>2. h # currentRela => Ends(h) <= shdrs[currentRela].off
      BY <1>7, <2>1, <2>9
    <3>3. Ends(h) \in Nat
      BY <1>1 DEF Ends, RelaHeader
    <3> QED BY <2>1, <3>1, <3>2, <3>3
  <2>10. /\ i - 1 < i /\ shdrs' \in Seq(Header)
         /\ Len(shdrs') = Len(shdrs) + (IF i \in Breaks(k) THEN 1 ELSE 0)
         /\ g \in DOMAIN shdrs' /\ shdrs'[g] \in RelaHeader
         /\ shdrs'[g].of = k /\ shdrs'[g].off = i - 1 /\ shdrs'[g].size = i - (i - 1)
         /\ shdrs'[g].info = funcs[f].shndx
    BY <1>1, <1>2, <2>2, <2>3, <2>4, <2>5, <2>8
  <2>11. /\ \A h \in DOMAIN shdrs' : h # g => h \in DOMAIN shdrs /\ shdrs'[h] = shdrs[h]
         /\ \A h \in DOMAIN shdrs : h \in DOMAIN shdrs'
         /\ g \notin DOMAIN shdrs
         /\ \A h \in RelaSections : h # g /\ shdrs[h].of = k => Ends(h) <= i - 1
    BY <1>1, <2>2, <2>8, <2>9
  <2>12. \A a \in (i - 1) + 1 .. i : funcs[Owner(k, a)].shndx = funcs[f].shndx
    BY <1>2 DEF f
  <2> QED BY <1>5, <2>1, <2>10, <2>11, <2>12 DEF f, g
<1> QED BY <1>9, <1>10, <1>11

\* One relocation is placed in the header StepShape describes.
LEMMA SplitRelocationInv ==
    ASSUME IInv, SplitRelocation PROVE IInv'
<1>0. After /\ pc = "relocs" /\ pc' = "relocs"
  BY DEF SplitRelocation, After
<1>1. /\ obj \in Object /\ FuncsOK(funcs) /\ Listed(funcs) /\ TextsInPlace
      /\ Walk /\ OffsetsSoFar /\ OwnHeaders /\ HeadersTrue /\ HeadersApart
      /\ Covered /\ Current
      /\ extra = Room(Relas + 1, 1) /\ Len(shdrs) = Headers + Room(k, i)
      /\ Relas \in Nat /\ Headers \in Nat /\ Len(funcs) \in Nat
      /\ shdrs \in Seq(Header) /\ DOMAIN shdrs = 1 .. Len(shdrs) /\ Len(shdrs) \in Nat
      /\ \A h \in RelaSections : h \in DOMAIN shdrs /\ shdrs[h] \in RelaHeader
  BY <1>0, Afterwards
<1>2. /\ obj' = obj /\ funcs' = funcs /\ extra' = extra /\ syms' = syms
      /\ k' = k /\ i' = i + 1
  BY DEF SplitRelocation
<1>3. /\ k \in 1 .. Relas /\ k \in Nat /\ i \in 1 .. Len(obj.relas[k]) /\ i \in Nat
      /\ Len(obj.relas[k]) \in Nat /\ obj.relas[k][i] \in Nat
      /\ k \in DOMAIN obj.relas /\ i \in DOMAIN obj.relas[k] /\ k <= Relas
  <2>1. k <= Relas /\ i <= Len(obj.relas[k])
    BY DEF SplitRelocation, Relas
  <2>2. k \in 1 .. Relas /\ i \in Nat \ {0}
    BY <1>1, <2>1 DEF Walk
  <2> QED BY <1>1, <2>1, <2>2, RelasType
<1>4. /\ Relas' = Relas /\ Headers' = Headers /\ Original' = Original
      /\ \A m, a : Owner(m, a)' = Owner(m, a)
      /\ \A m : GroupStarts(m)' = GroupStarts(m)
  BY <1>2, Frame
<1>5. \A m \in Nat : \A a \in Nat :
         Placed(m, a)' <=> Placed(m, a) \/ (m = k /\ a = i)
  BY <1>2, <1>3 DEF Placed
<1> DEFINE f == Owner(k, i)
<1>g. PICK g : g = Group(f)
  OBVIOUS
<1>6. PICK o \in Nat :
         /\ o < i
         /\ shdrs' \in Seq(Header)
         /\ Len(shdrs') = Len(shdrs) + (IF i \in Breaks(k) THEN 1 ELSE 0)
         /\ g \in DOMAIN shdrs' /\ shdrs'[g] \in RelaHeader
         /\ shdrs'[g].of = k /\ shdrs'[g].off = o /\ shdrs'[g].size = i - o
         /\ shdrs'[g].info = funcs[f].shndx
         /\ \A h \in DOMAIN shdrs' : h # g => h \in DOMAIN shdrs /\ shdrs'[h] = shdrs[h]
         /\ \A h \in DOMAIN shdrs : h \in DOMAIN shdrs'
         /\ g \in DOMAIN shdrs => /\ g \in RelaSections /\ shdrs[g].of = k
                                  /\ shdrs[g].off = o
                                  /\ i > 1 => Ends(g) = i - 1
         /\ \A h \in RelaSections : h # g /\ shdrs[h].of = k => Ends(h) <= o
         /\ \A a \in o + 1 .. i : funcs[Owner(k, a)].shndx = funcs[f].shndx
         /\ currentFunc' = f /\ currentRela' = g
         /\ offs' = [offs EXCEPT ![k][i] = @ - funcs[f].start]
  BY <1>g, StepShape
<1> HIDE DEF f
<1>7. /\ g \in RelaSections' /\ Ends(g)' = i
      /\ \A h \in RelaSections' : h # g => /\ h \in RelaSections /\ shdrs'[h] = shdrs[h]
                                           /\ Ends(h)' = Ends(h)
      /\ \A h \in RelaSections : h \in RelaSections'
  <2>1. shdrs'[g].kind = "rela"
    BY <1>6 DEF RelaHeader
  <2>2. g \in RelaSections'
    BY <1>6, <2>1 DEF RelaSections
  <2>3. Ends(g)' = i
    <3>1. shdrs'[g].off + shdrs'[g].size = i
      BY <1>3, <1>6
    <3>2. Ends(g)' = shdrs'[g].off + shdrs'[g].size
      BY DEF Ends
    <3> QED BY <3>1, <3>2
  <2>4. ASSUME NEW h \in RelaSections', h # g
        PROVE  /\ h \in RelaSections /\ shdrs'[h] = shdrs[h] /\ Ends(h)' = Ends(h)
    BY <1>6, <2>4 DEF RelaSections, Ends
  <2>5. \A h \in RelaSections : h \in RelaSections'
    BY <1>6, <2>1 DEF RelaSections
  <2> QED BY <2>2, <2>3, <2>4, <2>5
<1>8. TextsInPlace'
  <2>1. \A h \in TextSections : h \in DOMAIN shdrs' /\ shdrs'[h] = shdrs[h]
    <3> TAKE h \in TextSections
    <3>1. h \in DOMAIN shdrs /\ h \notin RelaSections
      BY DEF TextSections, RelaSections
    <3>2. h # g /\ h \in DOMAIN shdrs'
      BY <1>6, <3>1
    <3> QED BY <1>6, <3>2
  <2>2. \A h \in DOMAIN shdrs' : shdrs'[h].kind = "text" => h \in TextSections
    <3> SUFFICES ASSUME NEW h \in DOMAIN shdrs', shdrs'[h].kind = "text"
                 PROVE  h \in TextSections
      OBVIOUS
    <3>1. h # g
      BY <1>6 DEF RelaHeader
    <3> QED BY <1>6, <3>1 DEF TextSections
  <2>3. Len(shdrs) <= Len(shdrs')
    BY <1>1, <1>6
  <2> QED BY <1>1, <1>2, <1>6, <2>1, <2>2, <2>3, TextsKept
<1>9. Counted'
  <2>1. Cardinality(BreaksBefore(k, i + 1)) =
           Cardinality(BreaksBefore(k, i)) + (IF i \in Breaks(k) THEN 1 ELSE 0)
    BY <1>1, <1>3, BreaksStep
  <2>2. BreaksBefore(k, i)' = BreaksBefore(k, i + 1)
    BY <1>2, <1>4 DEF BreaksBefore
  <2>3. Room(k, i)' = Room(k, i) + (IF i \in Breaks(k) THEN 1 ELSE 0)
    <3>1. /\ Cardinality(BreaksBefore(k, i)) \in Nat
          /\ Cardinality(BreaksBefore(k, i + 1)) \in Nat
      BY <1>1, BreaksFinite
    <3>2. Room(k, i)' = Len(funcs) - 1 + Cardinality(BreaksBefore(k, i + 1))
      BY <1>2, <2>2 DEF Room
    <3> QED BY SMTT(30), <1>1, <2>1, <3>1, <3>2 DEF Room
  <2>4. Room(k, i) \in Int
    BY <1>1, BreaksFinite DEF Room
  <2>5. Room(Relas + 1, 1)' = Room(Relas + 1, 1)
    BY <1>2, <1>4 DEF Room, BreaksBefore
  <2>6. Len(shdrs') = Headers' + Room(k, i)'
    BY <1>1, <1>4, <1>6, <2>3, <2>4
  <2> QED BY <1>0, <1>1, <1>2, <2>5, <2>6 DEF Counted
<1>10. Walk'
  BY SMTT(30), <1>0, <1>1, <1>2, <1>3, <1>4 DEF Walk
<1>11. OffsetsSoFar'
  <2> SUFFICES ASSUME NEW m \in DOMAIN obj.relas
               PROVE  /\ DOMAIN offs' = DOMAIN obj.relas
                      /\ DOMAIN offs'[m] = DOMAIN obj.relas[m]
                      /\ \A a \in DOMAIN obj.relas[m] :
                            offs'[m][a] = IF Placed(m, a)'
                                          THEN obj.relas[m][a] - funcs[Owner(m, a)].start
                                          ELSE obj.relas[m][a]
    <3>1. k \in DOMAIN obj.relas
      BY <1>3
    <3> QED BY <1>2, <1>4, <3>1 DEF OffsetsSoFar
  <2>1. /\ DOMAIN offs = DOMAIN obj.relas /\ DOMAIN offs[m] = DOMAIN obj.relas[m]
        /\ \A a \in DOMAIN obj.relas[m] :
              offs[m][a] = IF Placed(m, a)
                           THEN obj.relas[m][a] - funcs[Owner(m, a)].start
                           ELSE obj.relas[m][a]
    BY <1>1 DEF OffsetsSoFar
  <2>2. DOMAIN offs' = DOMAIN obj.relas /\ DOMAIN offs'[m] = DOMAIN obj.relas[m]
    BY <1>6, <2>1
  <2>3. ASSUME NEW a \in DOMAIN obj.relas[m]
        PROVE  offs'[m][a] = IF Placed(m, a)' THEN obj.relas[m][a] - funcs[Owner(m, a)].start
                             ELSE obj.relas[m][a]
    <3>1. m \in Nat /\ a \in Nat
      BY <1>1, RelasType
    <3>2. CASE m = k /\ a = i
      <4>1. ~ Placed(m, a) /\ Placed(m, a)'
        BY <1>3, <1>5, <3>1, <3>2 DEF Placed
      <4>2. offs'[m][a] = offs[m][a] - funcs[f].start
        BY <1>6, <2>1, <3>2
      <4> QED BY <2>1, <3>2, <4>1, <4>2 DEF f
    <3>3. CASE ~ (m = k /\ a = i)
      <4>1. Placed(m, a)' <=> Placed(m, a)
        BY <1>5, <3>1, <3>3
      <4>2. offs'[m][a] = offs[m][a]
        BY <1>6, <2>1, <3>3
      <4> QED BY <2>1, <4>1, <4>2
    <3> QED BY <3>2, <3>3
  <2> QED BY <2>2, <2>3
<1>12. OwnHeaders'
  <2>1. ASSUME NEW m \in DOMAIN obj.relas
        PROVE  /\ RelaIndex(m) \in RelaSections'
               /\ shdrs'[RelaIndex(m)].of = m /\ shdrs'[RelaIndex(m)].off = 0
    <3>1. /\ RelaIndex(m) \in RelaSections /\ RelaIndex(m) \in DOMAIN shdrs
          /\ shdrs[RelaIndex(m)].of = m /\ shdrs[RelaIndex(m)].off = 0
      BY <1>1 DEF OwnHeaders
    <3>2. CASE RelaIndex(m) = g
      BY <1>6, <1>7, <3>1, <3>2
    <3>3. CASE RelaIndex(m) # g
      BY <1>7, <3>1, <3>3
    <3> QED BY <3>2, <3>3
  <2>2. ASSUME NEW h \in RelaSections', ~ (Placed(shdrs[h].of, 1)')
        PROVE  h = RelaIndex(shdrs'[h].of)
    <3>1. k < k' \/ (k = k' /\ 1 < i')
      BY <1>2, <1>3
    <3>2. h # g
      BY <1>6, <2>2, <3>1 DEF Placed
    <3>3. h \in RelaSections /\ shdrs'[h] = shdrs[h] /\ shdrs[h].of \in Nat
      BY <1>1, <1>7, <3>2 DEF RelaHeader
    <3>4. ~ Placed(shdrs[h].of, 1)
      BY <1>2, <1>3, <2>2, <3>3 DEF Placed
    <3> QED BY <1>1, <3>3, <3>4 DEF OwnHeaders
  <2> QED BY <1>2, <2>1, <2>2 DEF OwnHeaders
<1>13. HeadersTrue'
  <2> SUFFICES ASSUME NEW h \in RelaSections'
               PROVE  /\ shdrs'[h].of \in DOMAIN obj.relas
                      /\ Ends(h)' <= Len(obj.relas[shdrs'[h].of])
                      /\ \A a \in shdrs'[h].off + 1 .. Ends(h)' :
                            Placed(shdrs[h].of, a)' =>
                                shdrs'[h].info = funcs[Owner(shdrs'[h].of, a)].shndx
    <3>1. \A h \in RelaSections' : \A a : Owner(shdrs[h].of, a)' = Owner(shdrs'[h].of, a)
      BY <1>2 DEF Owner
    <3> QED BY <1>2, <3>1 DEF HeadersTrue
  <2>1. CASE h = g
    <3>1. shdrs'[h].of = k /\ Ends(h)' = i /\ shdrs'[h].off = o
      BY <1>6, <1>7, <2>1
    <3>2. shdrs'[h].info = funcs[f].shndx
      BY <1>6, <2>1
    <3>3. \A a \in o + 1 .. i : funcs[Owner(k, a)].shndx = funcs[f].shndx
      BY <1>6
    <3> QED BY <1>3, <3>1, <3>2, <3>3
  <2>2. CASE h # g
    <3>1. h \in RelaSections /\ shdrs'[h] = shdrs[h] /\ Ends(h)' = Ends(h)
      BY <1>7, <2>2
    <3>2. /\ shdrs[h].of \in DOMAIN obj.relas /\ Ends(h) <= Len(obj.relas[shdrs[h].of])
          /\ shdrs[h] \in RelaHeader
      BY <1>1, <3>1 DEF HeadersTrue
    <3>3. ASSUME NEW a \in shdrs[h].off + 1 .. Ends(h), Placed(shdrs[h].of, a)'
          PROVE  shdrs[h].info = funcs[Owner(shdrs[h].of, a)].shndx
      <4>1. /\ shdrs[h].of \in Nat /\ shdrs[h].off \in Nat /\ shdrs[h].size \in Nat
            /\ Ends(h) \in Nat /\ a \in Nat /\ a <= Ends(h)
        BY <3>2 DEF RelaHeader, Ends
      <4>2. ~ (shdrs[h].of = k /\ a = i)
        <5>1. shdrs[h].of = k => Ends(h) <= o
          BY <1>6, <2>2, <3>1
        <5> QED BY <1>3, <1>6, <4>1, <5>1
      <4>3. Placed(shdrs[h].of, a)
        <5> DEFINE m == shdrs[h].of
        <5>1. m \in Nat /\ ~ (m = k /\ a = i)
          BY <4>1, <4>2
        <5>2. m < k' \/ (m = k' /\ a < i')
          BY <3>1, <3>3 DEF Placed
        <5> HIDE DEF m
        <5>3. m < k \/ (m = k /\ a < i)
          BY <1>2, <1>3, <4>1, <5>1, <5>2
        <5> QED BY <5>3 DEF Placed, m
      <4> QED BY <1>1, <3>1, <4>3 DEF HeadersTrue
    <3> QED BY <3>1, <3>2, <3>3
  <2> QED BY <2>1, <2>2
<1>14. HeadersApart'
  <2> SUFFICES ASSUME NEW p \in RelaSections', NEW h \in RelaSections',
                      p # h, shdrs'[p].of = shdrs'[h].of
               PROVE  Ends(p)' <= shdrs'[h].off \/ Ends(h)' <= shdrs'[p].off
    BY DEF HeadersApart
  <2>1. CASE p = g
    BY <1>6, <1>7, <2>1
  <2>2. CASE h = g
    BY <1>6, <1>7, <2>2
  <2>3. CASE p # g /\ h # g
    BY <1>1, <1>7, <2>3 DEF HeadersApart
  <2> QED BY <2>1, <2>2, <2>3
<1>15. Covered'
  <2> SUFFICES ASSUME NEW m \in DOMAIN obj.relas, NEW a \in DOMAIN obj.relas[m],
                      Placed(m, a)'
               PROVE  \E h \in RelaSections' : /\ shdrs'[h].of = m
                                               /\ shdrs'[h].off < a /\ a <= Ends(h)'
    BY <1>2 DEF Covered
  <2>1. m \in Nat /\ a \in Nat
    BY <1>1, RelasType
  <2>2. CASE m = k /\ a = i
    BY <1>3, <1>6, <1>7, <2>2
  <2>3. CASE ~ (m = k /\ a = i)
    <3>1. Placed(m, a)
      BY <1>5, <2>1, <2>3
    <3>2. PICK h \in RelaSections : shdrs[h].of = m /\ shdrs[h].off < a /\ a <= Ends(h)
      BY <1>1, <3>1 DEF Covered
    <3>3. CASE h # g
      BY <1>7, <3>2, <3>3
    <3>4. CASE h = g
      <4>1. m = k /\ shdrs[g].off = o
        BY <1>1, <1>6, <3>2, <3>4
      <4>2. a < i
        BY <1>3, <3>1, <4>1 DEF Placed
      <4> QED BY <1>3, <1>6, <1>7, <2>1, <3>2, <3>4, <4>1, <4>2
    <3> QED BY <3>3, <3>4
  <2> QED BY <2>2, <2>3
<1>16. Current'
  <2>1. i' # 1 /\ i' - 1 = i
    BY <1>2, <1>3
  <2>2. currentFunc' = Owner(k, i' - 1)
    BY <1>6, <2>1 DEF f
  <2>3. currentFunc' = Owner(k, i - 1)'
    BY <1>2, <2>2 DEF Owner
  <2>4. /\ currentRela' \in RelaSections' /\ shdrs'[currentRela'].of = k'
        /\ shdrs'[currentRela'].off < i' - 1 /\ Ends(currentRela)' = i' - 1
    <3>1. Ends(currentRela)' = shdrs'[currentRela'].off + shdrs'[currentRela'].size
      BY DEF Ends
    <3> QED BY <1>2, <1>3, <1>6, <1>7, <2>1, <3>1
  <2>5. \A h \in RelaSections' : shdrs'[h].of = k' /\ h # currentRela' =>
                                     Ends(h)' <= shdrs'[currentRela'].off
    BY <1>2, <1>6, <1>7
  <2> QED BY <2>1, <2>3, <2>4, <2>5 DEF Current
<1>17. FuncsOK(funcs)' /\ Listed(funcs)'
  BY <1>1, <1>2 DEF FuncsOK, Listed, FuncSyms
<1>18. (syms = Original)'
  BY <1>0, <1>2, <1>4 DEF IInv
<1>19. Grouped'
  BY <1>10, <1>11, <1>12, <1>13, <1>14, <1>15, <1>16 DEF Grouped
<1> QED BY <1>0, <1>1, <1>2, <1>8, <1>9, <1>17, <1>18, <1>19 DEF IInv, Before, After

\* The actions behind the walk leave the table as it is.
LEMMA TableStays ==
    ASSUME obj \in Object, FuncsOK(funcs), Listed(funcs), TextsInPlace, Grouped,
           k > Relas, extra = Room(Relas + 1, 1), Len(shdrs) = Headers + Room(k, i),
           UNCHANGED <<obj, funcs, extra, shdrs, offs, k, i, currentFunc, currentRela>>
    PROVE  /\ obj' \in Object /\ FuncsOK(funcs)' /\ Listed(funcs)' /\ TextsInPlace' /\ Grouped'
           /\ extra' = Room(Relas + 1, 1)' /\ (Len(shdrs) = Headers + Room(k, i))'
           /\ Original' = Original /\ MovedSymbols' = MovedSymbols
<1>1. /\ Relas' = Relas /\ Headers' = Headers
      /\ \A m, a : Owner(m, a)' = Owner(m, a)
      /\ \A m : GroupStarts(m)' = GroupStarts(m)
      /\ \A a : TextPos(a)' = TextPos(a) /\ Original' = Original
      /\ FuncSyms' = FuncSyms
  BY Frame
<1>2. TextsInPlace'
  BY <1>1 DEF TextsInPlace, TextSections
<1>3. RelaSections' = RelaSections /\ \A h : Ends(h)' = Ends(h)
  BY DEF RelaSections, Ends
<1>4. \A m, a : Placed(m, a)' <=> Placed(m, a)
  BY DEF Placed
<1>5. Walk' /\ Current'
  <2>1. Walk'
    BY <1>1 DEF Walk, Grouped
  <2>2. Current'
    BY DEF Current, Grouped, Owner, RelaSections, Ends, Relas
  <2> QED BY <2>1, <2>2
<1>6. OffsetsSoFar'
  BY <1>1, <1>4 DEF OffsetsSoFar, Grouped
<1>7. OwnHeaders'
  BY <1>3 DEF OwnHeaders, Grouped, Placed
<1>8. HeadersTrue'
  BY <1>3 DEF HeadersTrue, Grouped, Owner, Placed
<1>9. HeadersApart' /\ Covered'
  BY <1>3, <1>4 DEF HeadersApart, Covered, Grouped
<1>10. FuncsOK(funcs)' /\ Listed(funcs)'
  BY <1>1 DEF FuncsOK, Listed
<1>11. Room(Relas + 1, 1)' = Room(Relas + 1, 1) /\ Room(k, i)' = Room(k, i)
  BY <1>1 DEF Room, BreaksBefore
<1>12. MovedSymbols' = MovedSymbols
  BY DEF MovedSymbols
<1> QED BY <1>1, <1>2, <1>5, <1>6, <1>7, <1>8, <1>9, <1>10, <1>11, <1>12 DEF Grouped

\* The walk ends behind the last section.
LEMMA RelocationsDoneInv ==
    ASSUME IInv, RelocationsDone PROVE IInv'
<1>1. /\ After /\ After' /\ pc = "relocs" /\ pc' = "symbols" /\ k > Relas /\ syms' = syms
      /\ UNCHANGED <<obj, funcs, extra, shdrs, offs, k, i, currentFunc, currentRela>>
  BY DEF RelocationsDone, After, Relas
<1>2. /\ obj \in Object /\ FuncsOK(funcs) /\ Listed(funcs) /\ TextsInPlace /\ Grouped
      /\ extra = Room(Relas + 1, 1) /\ Len(shdrs) = Headers + Room(k, i)
      /\ syms = Original
  BY <1>1, Afterwards DEF IInv
<1> QED BY <1>1, <1>2, TableStays DEF IInv, Counted, Before, After

\* Every symbol moves with the byte it names.
LEMMA UpdateSymbolsInv ==
    ASSUME IInv, updateSymbols PROVE IInv'
<1>1. /\ After /\ After' /\ pc = "symbols" /\ pc' = "write"
      /\ UNCHANGED <<obj, funcs, extra, shdrs, offs, k, i, currentFunc, currentRela>>
  BY DEF updateSymbols, After
<1>2. /\ obj \in Object /\ FuncsOK(funcs) /\ Listed(funcs) /\ TextsInPlace /\ Grouped
      /\ extra = Room(Relas + 1, 1) /\ Len(shdrs) = Headers + Room(k, i)
      /\ syms = Original /\ k > Relas
  BY <1>1, Afterwards DEF IInv, Walk
<1>3. syms' = MovedSymbols
  <2>1. DOMAIN syms = DOMAIN obj.syms
    BY <1>2 DEF Original
  <2>2. \A s \in DOMAIN obj.syms : syms[s] = [value |-> obj.syms[s].value, shndx |-> TextIndex]
    BY <1>2 DEF Original
  <2>3. \A s \in DOMAIN obj.syms : syms[s].value = obj.syms[s].value
    BY <1>2 DEF Original
  <2> QED BY <2>1, <2>2, <2>3 DEF updateSymbols, MovedSymbol, MovedSymbols
<1> QED BY <1>1, <1>2, <1>3, TableStays DEF IInv, Counted, Before, After

\* Writing changes the decision only.
LEMMA WriteInv ==
    ASSUME IInv, WriteObject PROVE IInv'
<1>1. /\ After /\ pc = "write" /\ pc' = "done" /\ linked' \in {"split", "original"}
      /\ syms' = syms
      /\ UNCHANGED <<obj, funcs, extra, shdrs, offs, k, i, currentFunc, currentRela>>
  BY DEF WriteObject, After
<1>2. /\ obj \in Object /\ FuncsOK(funcs) /\ Listed(funcs) /\ TextsInPlace /\ Grouped
      /\ extra = Room(Relas + 1, 1) /\ Len(shdrs) = Headers + Room(k, i)
      /\ syms = MovedSymbols /\ k > Relas
  BY <1>1, Afterwards DEF IInv, Walk
<1> QED BY <1>1, <1>2, TableStays DEF IInv, Counted, Before, After

\* Nothing changes.
LEMMA StutterInv ==
    ASSUME IInv, UNCHANGED vars PROVE IInv'
<1>1. /\ obj' = obj /\ pc' = pc /\ funcs' = funcs /\ extra' = extra /\ shdrs' = shdrs
      /\ offs' = offs /\ syms' = syms /\ k' = k /\ i' = i /\ currentFunc' = currentFunc
      /\ currentRela' = currentRela /\ linked' = linked
  BY DEF vars
<1>2. (Before' <=> Before) /\ (After' <=> After) /\ (Untouched' <=> Untouched)
  <2>1. (Before' <=> Before) /\ (After' <=> After)
    BY <1>1 DEF Before, After
  <2>2. Untouched' <=> Untouched
    BY <1>1, Zenon DEF Untouched
  <2> QED BY <2>1, <2>2
<1>3. Original' = Original /\ MovedSymbols' = MovedSymbols
  BY <1>1 DEF Original, MovedSymbols
<1>4. (FuncsOK(funcs)' <=> FuncsOK(funcs)) /\ (Listed(funcs)' <=> Listed(funcs))
  BY <1>1 DEF FuncsOK, Listed, FuncSyms
<1>5. Counted' <=> Counted
  <2>1. /\ Room(k, i)' = Room(k, i) /\ Room(k, 1)' = Room(k, 1)
        /\ Room(Relas + 1, 1)' = Room(Relas + 1, 1) /\ Relas' = Relas
    BY <1>1 DEF Room, BreaksBefore, GroupStarts, Relas
  <2>2. Headers' = Headers
    BY <1>1 DEF Headers
  <2> QED BY <1>1, <1>2, <2>1, <2>2, Zenon DEF Counted
<1>6. TextsInPlace' <=> TextsInPlace
  BY <1>1 DEF TextsInPlace, TextPos, TextSections, Headers
<1>7. Grouped' <=> Grouped
  BY <1>1 DEF Grouped, Walk, OffsetsSoFar, OwnHeaders, HeadersTrue, HeadersApart, Covered,
              Current, RelaSections, Ends, Placed, Owner, Room, BreaksBefore, GroupStarts,
              Relas, Headers, TextPos, TextSections, Original
<1> QED BY <1>1, <1>2, <1>3, <1>4, <1>5, <1>6, <1>7 DEF IInv

\* The inductive invariant of the splitter.
THEOREM IInvHolds == Spec => []IInv
<1>1. IInv /\ [Next]_vars => IInv'
  <2> SUFFICES ASSUME IInv, [Next]_vars PROVE IInv'
    OBVIOUS
  <2>1. CASE CollectAndValidate BY <2>1, CollectInv
  <2>2. CASE Reserve BY <2>2, ReserveInv
  <2>3. CASE splitText BY <2>3, SplitTextInv
  <2>4. CASE NextRelaSection BY <2>4, NextRelaInv
  <2>5. CASE SplitRelocation BY <2>5, SplitRelocationInv
  <2>6. CASE RelocationsDone BY <2>6, RelocationsDoneInv
  <2>7. CASE updateSymbols BY <2>7, UpdateSymbolsInv
  <2>8. CASE WriteObject BY <2>8, WriteInv
  <2>9. CASE UNCHANGED vars BY <2>9, StutterInv
  <2> QED BY <2>1, <2>2, <2>3, <2>4, <2>5, <2>6, <2>7, <2>8, <2>9 DEF Next, Done
<1> QED BY InitInv, <1>1, PTL DEF Spec

\* An index that fits is not truncated.
LEMMA ModSmall ==
    ASSUME NEW x \in Nat, NEW d \in Nat \ {0}, x < d
    PROVE  x % d = x
  OBVIOUS

\* When the indices fit, neither they nor their number is truncated.
LEMMA IndicesSmall ==
    ASSUME IndicesFit, Len(shdrs) \in Nat
    PROVE  /\ Reserved \in Nat /\ IndexRange \in Nat \ {0} /\ Len(shdrs) < Reserved
           /\ Reserved < IndexRange /\ e_shnum = Len(shdrs) + 1
<1>1. /\ Reserved \in Nat /\ IndexRange \in Nat /\ Reserved < IndexRange
      /\ Len(shdrs) < Reserved
  BY ObjectAssumption DEF IndicesFit
<1>2. (Len(shdrs) + 1) % IndexRange = Len(shdrs) + 1
  <2>1. Len(shdrs) + 1 \in Nat /\ IndexRange \in Nat \ {0} /\ Len(shdrs) + 1 < IndexRange
    BY <1>1
  <2> QED BY <2>1, ModSmall
<1> QED BY <1>1, <1>2 DEF e_shnum

\* The section of the function that takes an offset: no other one holds the byte
\* there, and its index may stand in a symbol and is below the number that is read.
LEMMA Taken ==
    ASSUME IInv, After, IndicesFit, NEW v \in Nat
    PROVE  LET a == functionForOffset(funcs, v)
           IN  /\ a \in DOMAIN funcs /\ funcs[a] \in Func /\ funcs[a].start <= v
               /\ funcs[a].shndx = TextPos(a) /\ shdrs[TextPos(a)] = TextHeader(funcs[a])
               /\ TextPos(a) \in TextSections
               /\ TextPos(a) < e_shnum /\ TextPos(a) < Reserved
               /\ shdrs[TextPos(a)].off = funcs[a].start
               /\ shdrs[TextPos(a)].size = funcs[a].size
               /\ \A g \in TextSections : v \in Bytes(g) => g = TextPos(a)
<1> DEFINE a == functionForOffset(funcs, v)
<1>1. /\ FuncsOK(funcs) /\ TextsInPlace /\ Headers \in Nat /\ Len(shdrs) \in Nat
      /\ DOMAIN shdrs = 1 .. Len(shdrs)
  BY Afterwards
<1>2. /\ a \in DOMAIN funcs /\ funcs[a].start <= v
      /\ \A b \in DOMAIN funcs : funcs[b].start <= v => b <= a
  BY <1>1, FunctionForOffset
<1> HIDE DEF a
<1>3. /\ \A b \in DOMAIN funcs : b \in Nat /\ funcs[b] \in Func
      /\ \A b \in DOMAIN funcs : funcs[b].start \in Nat /\ funcs[b].size \in Nat
  <2>1. \A b \in DOMAIN funcs : b \in Nat /\ funcs[b] \in Func
    BY <1>1 DEF FuncsOK
  <2> QED BY <2>1 DEF Func
<1>4. /\ TextPos(a) \in DOMAIN shdrs /\ shdrs[TextPos(a)] = TextHeader(funcs[a])
      /\ funcs[a].shndx = IF a = 1 THEN TextIndex ELSE TextPos(a) % IndexRange
  BY <1>1, <1>2 DEF TextsInPlace
<1>5. funcs[a].shndx = TextPos(a)
  <2>1. CASE a = 1
    BY <1>4, <2>1 DEF TextPos
  <2>2. CASE a # 1
    <3>1. TextPos(a) \in Nat /\ TextPos(a) < IndexRange /\ IndexRange \in Nat \ {0}
      BY <1>1, <1>4, IndicesSmall
    <3>2. TextPos(a) % IndexRange = TextPos(a)
      BY <3>1, ModSmall
    <3> QED BY <1>4, <2>2, <3>2
  <2> QED BY <2>1, <2>2
<1>6. \A b \in DOMAIN funcs : /\ TextHeader(funcs[b]).kind = "text"
                              /\ TextHeader(funcs[b]).off = funcs[b].start
                              /\ TextHeader(funcs[b]).size = funcs[b].size
  BY DEF TextHeader
<1>7. /\ TextPos(a) \in TextSections /\ shdrs[TextPos(a)].off = funcs[a].start
      /\ shdrs[TextPos(a)].size = funcs[a].size
  BY <1>2, <1>4, <1>6 DEF TextSections
<1>8. ASSUME NEW g \in TextSections, v \in Bytes(g) PROVE g = TextPos(a)
  <2>1. PICK b \in DOMAIN funcs : g = TextPos(b)
    BY <1>1 DEF TextsInPlace
  <2>2. shdrs[g] = TextHeader(funcs[b])
    BY <1>1, <2>1 DEF TextsInPlace
  <2>3. funcs[b].start <= v /\ v < funcs[b].start + funcs[b].size
    BY <1>6, <1>8, <2>2 DEF Bytes
  <2>4. functionForOffset(funcs, v) = b
    BY <1>1, <2>3, OffsetInside
  <2> QED BY <2>1, <2>4 DEF a
<1>9. TextPos(a) < e_shnum /\ TextPos(a) < Reserved
  <2>1. TextPos(a) \in Nat /\ TextPos(a) <= Len(shdrs)
    BY <1>1, <1>4
  <2>2. e_shnum = Len(shdrs) + 1 /\ Len(shdrs) < Reserved /\ Reserved \in Nat
    BY <1>1, IndicesSmall
  <2> QED BY <1>1, <2>1, <2>2
<1> QED BY <1>2, <1>3, <1>4, <1>5, <1>7, <1>8, <1>9 DEF a

\* An offset in a function is inside the one that takes it.
LEMMA Inside ==
    ASSUME IInv, After, NEW v \in Nat, InFunction(v)
    PROVE  LET a == functionForOffset(funcs, v)
           IN  a \in DOMAIN funcs /\ funcs[a].start <= v /\ v < funcs[a].start + funcs[a].size
<1>1. FuncsOK(funcs)
  BY Afterwards
<1>2. PICK b \in DOMAIN funcs : funcs[b].start <= v /\ v < funcs[b].start + funcs[b].size
  BY DEF InFunction
<1>3. functionForOffset(funcs, v) = b
  BY <1>1, <1>2, OffsetInside
<1> QED BY <1>2, <1>3

\* It names the byte there, in its own section.
LEMMA Named ==
    ASSUME IInv, After, IndicesFit, NEW v \in Nat, InFunction(v)
    PROVE  LET a == functionForOffset(funcs, v)
           IN  Names(funcs[a].shndx, v - funcs[a].start, v)
<1> DEFINE a == functionForOffset(funcs, v)
<1>1. /\ funcs[a] \in Func /\ funcs[a].start <= v /\ v < funcs[a].start + funcs[a].size
      /\ funcs[a].shndx = TextPos(a) /\ TextPos(a) \in TextSections
      /\ TextPos(a) < e_shnum
      /\ shdrs[TextPos(a)].off = funcs[a].start /\ shdrs[TextPos(a)].size = funcs[a].size
      /\ \A g \in TextSections : v \in Bytes(g) => g = TextPos(a)
  BY Taken, Inside
<1> HIDE DEF a
<1>2. funcs[a].start \in Nat /\ funcs[a].size \in Nat
  BY <1>1 DEF Func
<1>3. funcs[a].start + (v - funcs[a].start) = v /\ v - funcs[a].start < funcs[a].size
  BY <1>1, <1>2
<1>4. Names(TextPos(a), v - funcs[a].start, v)
  BY <1>1, <1>3 DEF Names
<1> QED BY <1>1, <1>4 DEF a

\* The end of a function that is in no function is taken by that one.
LEMMA EndTaken ==
    ASSUME IInv, After, IndicesFit, NEW v \in Nat, v > 0, ~InFunction(v), InFunction(v - 1)
    PROVE  LET a == functionForOffset(funcs, v)
           IN  EndsIn(funcs[a].shndx, v - funcs[a].start, v)
<1> DEFINE a == functionForOffset(funcs, v)
<1>1. /\ FuncsOK(funcs) /\ a \in DOMAIN funcs /\ funcs[a] \in Func
      /\ funcs[a].start <= v /\ funcs[a].shndx = TextPos(a) /\ TextPos(a) \in TextSections
      /\ shdrs[TextPos(a)].off = funcs[a].start /\ shdrs[TextPos(a)].size = funcs[a].size
  BY Taken, Afterwards
<1>2. \A c \in DOMAIN funcs : funcs[c].start <= v => c <= a
  BY <1>1, FunctionForOffset
<1> HIDE DEF a
<1>3. \A c \in DOMAIN funcs : /\ c \in Nat /\ funcs[c] \in Func
                              /\ funcs[c].start \in Nat /\ funcs[c].size \in Nat \ {0}
  <2>1. \A c \in DOMAIN funcs : c \in Nat /\ funcs[c] \in Func
    BY <1>1 DEF FuncsOK
  <2> QED BY <2>1 DEF Func
<1>4. PICK b \in DOMAIN funcs : /\ funcs[b].start <= v - 1
                                /\ v - 1 < funcs[b].start + funcs[b].size
  BY DEF InFunction
<1>5. ~(v < funcs[a].start + funcs[a].size) /\ ~(v < funcs[b].start + funcs[b].size)
  <2>1. funcs[b].start <= v
    BY <1>3, <1>4
  <2> QED BY <1>1, <1>4, <2>1 DEF InFunction
<1>6. v = funcs[b].start + funcs[b].size /\ b <= a
  BY <1>2, <1>3, <1>4, <1>5
<1>7. a = b
  <2>1. b < a => funcs[b].start + funcs[b].size <= funcs[a].start
    BY <1>1, <1>4 DEF FuncsOK
  <2>2. ~(b < a)
    <3> SUFFICES ASSUME b < a PROVE FALSE
      OBVIOUS
    <3>1. funcs[a].start = v
      BY <1>1, <1>3, <1>6, <2>1
    <3> QED BY <1>1, <1>3, <1>5, <3>1
  <2> QED BY <1>1, <1>3, <1>6, <2>2
<1>8. funcs[a].start + (v - funcs[a].start) = v /\ v - funcs[a].start = funcs[a].size
  BY <1>1, <1>3, <1>6, <1>7
<1>9. EndsIn(TextPos(a), v - funcs[a].start, v)
  BY <1>1, <1>8 DEF EndsIn
<1> QED BY <1>1, <1>9 DEF a

\* When the object was rewritten every relocation has its header.
LEMMA AtEnd ==
    ASSUME IInv, Rewritten
    PROVE  /\ After /\ syms = MovedSymbols
           /\ \A m \in DOMAIN obj.relas : \A a \in DOMAIN obj.relas[m] : Placed(m, a)
<1>1. After /\ pc \in {"write", "done"}
  BY DEF IInv, Rewritten, After
<1>2. syms = MovedSymbols
  BY <1>1 DEF IInv
<1>3. Walk /\ Relas \in Nat /\ DOMAIN obj.relas = 1 .. Relas
  BY <1>1, Afterwards, RelasType
<1>4. ASSUME NEW m \in DOMAIN obj.relas, NEW a PROVE Placed(m, a)
  BY <1>1, <1>3 DEF Walk, Placed
<1> QED BY <1>1, <1>2, <1>4

(***************************************************************************)
(* The headers appended stay within the room that the first walk over the  *)
(* relocations reserved, and fill it, for every object.                    *)
(***************************************************************************)
THEOREM HeadersFit == Spec => []HeadersFitBuffer
<1>1. IInv => HeadersFitBuffer
  <2> SUFFICES ASSUME IInv, pc \in {"relocs", "symbols", "write"}
               PROVE  /\ Len(shdrs) - Headers <= extra
                      /\ pc # "relocs" => Len(shdrs) - Headers = extra
    BY DEF HeadersFitBuffer
  <2>1. After
    BY DEF After
  <2>2. /\ obj \in Object /\ Walk /\ extra = Room(Relas + 1, 1)
        /\ Len(shdrs) = Headers + Room(k, i) /\ Relas \in Nat /\ Headers \in Nat
        /\ Len(funcs) \in Nat
    BY <2>1, Afterwards
  <2>3. /\ Cardinality(BreaksBefore(k, i)) \in Nat
        /\ Cardinality(BreaksBefore(Relas + 1, 1)) \in Nat
        /\ Cardinality(BreaksBefore(k, i)) <= Cardinality(BreaksBefore(Relas + 1, 1))
    BY <2>2, BreaksFinite, BreaksEnds
  <2>4. Len(shdrs) - Headers = Room(k, i) /\ Room(k, i) <= Room(Relas + 1, 1)
    <3>1. /\ Room(k, i) = Len(funcs) - 1 + Cardinality(BreaksBefore(k, i))
          /\ Room(Relas + 1, 1)
                = Len(funcs) - 1 + Cardinality(BreaksBefore(Relas + 1, 1))
      BY DEF Room
    <3>2. Room(k, i) \in Int
      BY <2>2, <2>3, <3>1
    <3> QED BY <2>2, <2>3, <3>1, <3>2
  <2>5. pc # "relocs" => k = Relas + 1 /\ i = 1
    BY <2>2 DEF Walk
  <2> QED BY <2>2, <2>4, <2>5
<1> QED BY IInvHolds, <1>1, PTL

(***************************************************************************)
(* Every symbol in a function of .text still names the byte it named, and  *)
(* one at the end of a function stays there, for every object whose        *)
(* section indices stay below SHN_LORESERVE.                               *)
(***************************************************************************)
THEOREM SymbolsSafe == Spec => []SymbolsKept
<1>1. IInv => SymbolsKept
  <2> SUFFICES ASSUME IInv, Rewritten, IndicesFit,
                      NEW s \in DOMAIN obj.syms, obj.syms[s].text
               PROVE  LET old == obj.syms[s].value
                      IN  /\ syms[s].shndx < Reserved
                          /\ InFunction(old) => Names(syms[s].shndx, syms[s].value, old)
                          /\ ~InFunction(old) /\ (old > 0 /\ InFunction(old - 1)) =>
                                EndsIn(syms[s].shndx, syms[s].value, old)
    BY DEF SymbolsKept
  <2>1. After /\ syms = MovedSymbols
    BY AtEnd
  <2>2. obj.syms[s].value \in Nat
    <3>1. obj.syms[s] \in Sym
      BY ObjType DEF IInv
    <3> QED BY <3>1 DEF Sym
  <2> DEFINE old == obj.syms[s].value
             a == functionForOffset(funcs, old)
  <2>3. syms[s].value = old - funcs[a].start /\ syms[s].shndx = funcs[a].shndx
    BY <2>1 DEF MovedSymbols
  <2>4. funcs[a].shndx < Reserved
    BY <2>1, <2>2, Taken
  <2>5. InFunction(old) => Names(funcs[a].shndx, old - funcs[a].start, old)
    BY <2>1, <2>2, Named
  <2>6. ~InFunction(old) /\ (old > 0 /\ InFunction(old - 1)) =>
           EndsIn(funcs[a].shndx, old - funcs[a].start, old)
    BY <2>1, <2>2, EndTaken
  <2> QED BY <2>3, <2>4, <2>5, <2>6
<1> QED BY IInvHolds, <1>1, PTL

(***************************************************************************)
(* The sections share no byte and each function symbol lies with all its   *)
(* bytes in the section it is moved to, for every object whose section     *)
(* indices stay below SHN_LORESERVE.                                       *)
(***************************************************************************)
THEOREM FunctionsSafe == Spec => []FunctionsWhole
<1>1. IInv => FunctionsWhole
  <2> SUFFICES ASSUME IInv, Rewritten, IndicesFit PROVE FunctionsWhole
    BY DEF FunctionsWhole
  <2>1. /\ After /\ syms = MovedSymbols /\ obj \in Object /\ FuncsOK(funcs)
        /\ Listed(funcs) /\ TextsInPlace
    BY AtEnd, Afterwards
  <2>2. \A b \in DOMAIN funcs : /\ TextHeader(funcs[b]).off = funcs[b].start
                                /\ TextHeader(funcs[b]).size = funcs[b].size
    BY DEF TextHeader
  <2>3. ASSUME NEW g \in TextSections, NEW h \in TextSections, g # h,
               NEW v \in Bytes(g), v \in Bytes(h)
        PROVE  FALSE
    <3>1. v \in Nat
      BY ObjType, <2>1 DEF Bytes
    <3>2. \A x \in TextSections : v \in Bytes(x) => x = TextPos(functionForOffset(funcs, v))
      BY <2>1, <3>1, Taken
    <3> QED BY <2>3, <3>2
  <2>4. ASSUME NEW s \in FuncSyms
        PROVE  syms[s].value + obj.syms[s].size <= shdrs[syms[s].shndx].size
    <3>1. /\ s \in DOMAIN obj.syms /\ obj.syms[s].text /\ obj.syms[s].value \in Nat
          /\ obj.syms[s].size \in Nat \ {0}
      BY <2>1, StartsFinite DEF FuncSyms
    <3>2. PICK b \in DOMAIN funcs : funcs[b].start = obj.syms[s].value
                                    /\ obj.syms[s].size <= funcs[b].size
      BY <2>1 DEF Listed
    <3>3. funcs[b] \in Func
      BY <2>1 DEF FuncsOK
    <3>4. functionForOffset(funcs, obj.syms[s].value) = b
      <4>1. funcs[b].start <= obj.syms[s].value
            /\ obj.syms[s].value < funcs[b].start + funcs[b].size
        BY <3>1, <3>2, <3>3 DEF Func
      <4> QED BY <2>1, <3>1, <4>1, OffsetInside
    <3>5. syms[s].value = obj.syms[s].value - funcs[b].start /\ syms[s].shndx = funcs[b].shndx
      BY <2>1, <3>1, <3>4 DEF MovedSymbols
    <3>6. funcs[b].shndx = TextPos(b) /\ shdrs[TextPos(b)] = TextHeader(funcs[b])
      BY <2>1, <3>1, <3>4, Taken
    <3>7. shdrs[syms[s].shndx].size = funcs[b].size
      BY <2>2, <3>5, <3>6
    <3> QED BY <3>1, <3>2, <3>3, <3>5, <3>7 DEF Func
  <2> QED BY <2>3, <2>4 DEF FunctionsWhole
<1> QED BY IInvHolds, <1>1, PTL

(***************************************************************************)
(* Every relocation is in exactly one relocation section, and one of a     *)
(* byte of a function still applies to that byte, for every object whose   *)
(* section indices stay below SHN_LORESERVE.                               *)
(***************************************************************************)
THEOREM RelocationsSafe == Spec => []RelocationsKept
<1>1. IInv => RelocationsKept
  <2> SUFFICES ASSUME IInv, Rewritten, IndicesFit, NEW m \in DOMAIN obj.relas,
                      NEW a \in DOMAIN obj.relas[m]
               PROVE  \E h \in DOMAIN shdrs :
                        /\ {g \in DOMAIN shdrs :
                              /\ shdrs[g].kind = "rela" /\ shdrs[g].of = m
                              /\ shdrs[g].off < a /\ a <= shdrs[g].off + shdrs[g].size} = {h}
                        /\ InFunction(obj.relas[m][a]) =>
                              Names(shdrs[h].info, offs[m][a], obj.relas[m][a])
    BY DEF RelocationsKept
  <2>1. /\ After /\ obj \in Object /\ OffsetsSoFar /\ HeadersTrue /\ HeadersApart /\ Covered
        /\ Placed(m, a)
        /\ \A h \in RelaSections : h \in DOMAIN shdrs /\ shdrs[h] \in RelaHeader
    BY AtEnd, Afterwards
  <2>2. PICK h \in RelaSections : shdrs[h].of = m /\ shdrs[h].off < a /\ a <= Ends(h)
    BY <2>1 DEF Covered
  <2>3. a \in Nat /\ obj.relas[m][a] \in Nat
    BY <2>1, RelasType
  <2>4. ASSUME NEW g \in DOMAIN shdrs, shdrs[g].kind = "rela", shdrs[g].of = m,
               shdrs[g].off < a, a <= shdrs[g].off + shdrs[g].size
        PROVE  g = h
    <3>1. g \in RelaSections /\ a <= Ends(g)
      BY <2>4 DEF RelaSections, Ends
    <3>2. /\ shdrs[g].off \in Nat /\ shdrs[h].off \in Nat /\ Ends(g) \in Nat
          /\ Ends(h) \in Nat
      BY <2>1, <3>1 DEF RelaHeader, Ends
    <3>3. g # h => Ends(g) <= shdrs[h].off \/ Ends(h) <= shdrs[g].off
      BY <2>1, <2>2, <2>4, <3>1 DEF HeadersApart
    <3> QED BY <2>2, <2>3, <2>4, <3>1, <3>2, <3>3
  <2>5. {g \in DOMAIN shdrs :
            /\ shdrs[g].kind = "rela" /\ shdrs[g].of = m
            /\ shdrs[g].off < a /\ a <= shdrs[g].off + shdrs[g].size} = {h}
    <3>1. /\ h \in DOMAIN shdrs /\ shdrs[h].kind = "rela" /\ shdrs[h].of = m
          /\ shdrs[h].off < a /\ a <= shdrs[h].off + shdrs[h].size
      BY <2>1, <2>2 DEF RelaSections, Ends
    <3> QED BY <2>4, <3>1
  <2>6. shdrs[h].info = funcs[Owner(m, a)].shndx
    <3>1. a \in shdrs[h].off + 1 .. Ends(h)
      <4>1. shdrs[h].off \in Nat /\ shdrs[h].size \in Nat
        BY <2>1 DEF RelaHeader
      <4> QED BY <2>2, <2>3, <4>1 DEF Ends
    <3> QED BY <2>1, <2>2, <3>1 DEF HeadersTrue
  <2>7. offs[m][a] = obj.relas[m][a] - funcs[Owner(m, a)].start
    BY <2>1 DEF OffsetsSoFar
  <2>8. InFunction(obj.relas[m][a]) =>
           Names(shdrs[h].info, offs[m][a], obj.relas[m][a])
    BY <2>1, <2>3, <2>6, <2>7, Named DEF Owner
  <2> QED BY <2>1, <2>5, <2>8
<1> QED BY IInvHolds, <1>1, PTL

(***************************************************************************)
(* When the functions cover .text no byte is lost and every relocation of  *)
(* a byte of .text lies inside its section, for every object whose section *)
(* indices stay below SHN_LORESERVE.                                       *)
(***************************************************************************)
THEOREM TiledTextSafe == Spec => []TiledTextKept
<1>1. IInv => TiledTextKept
  <2> SUFFICES ASSUME IInv, Rewritten, IndicesFit, Tiled
               PROVE  /\ UNION {Bytes(h) : h \in TextSections} = 0 .. obj.size - 1
                      /\ RelocationsInside
    BY DEF TiledTextKept
  <2>1. /\ After /\ obj \in Object /\ obj.size \in Nat /\ FuncsOK(funcs) /\ TextsInPlace
        /\ OffsetsSoFar /\ HeadersTrue
        /\ \A m \in DOMAIN obj.relas : \A a \in DOMAIN obj.relas[m] : Placed(m, a)
        /\ \A h \in RelaSections : h \in DOMAIN shdrs /\ shdrs[h] \in RelaHeader
    BY AtEnd, Afterwards, ObjType
  <2>2. \A b \in DOMAIN funcs : /\ TextHeader(funcs[b]).kind = "text"
                                /\ TextHeader(funcs[b]).off = funcs[b].start
                                /\ TextHeader(funcs[b]).size = funcs[b].size
    BY DEF TextHeader
  <2>3. ASSUME NEW v \in 0 .. obj.size - 1
        PROVE  \E h \in TextSections : v \in Bytes(h)
    <3>1. PICK b \in DOMAIN funcs : funcs[b].start <= v /\ v < funcs[b].start + funcs[b].size
      BY DEF Tiled, InFunction
    <3>2. TextPos(b) \in DOMAIN shdrs /\ shdrs[TextPos(b)] = TextHeader(funcs[b])
      BY <2>1 DEF TextsInPlace
    <3>3. TextPos(b) \in TextSections
      BY <2>2, <3>2 DEF TextSections
    <3>4. v \in Bytes(TextPos(b))
      BY <2>2, <3>1, <3>2 DEF Bytes
    <3> QED BY <3>3, <3>4
  <2>4. UNION {Bytes(h) : h \in TextSections} = 0 .. obj.size - 1
    <3>1. \A h \in TextSections : Bytes(h) \in SUBSET (0 .. obj.size - 1)
      BY DEF Bytes
    <3> QED BY <2>3, <3>1
  <2>5. ASSUME NEW h \in DOMAIN shdrs, shdrs[h].kind = "rela",
               NEW a \in shdrs[h].off + 1 .. shdrs[h].off + shdrs[h].size,
               obj.relas[shdrs[h].of][a] < obj.size
        PROVE  offs[shdrs[h].of][a] < shdrs[shdrs[h].info].size
    <3> DEFINE m == shdrs[h].of
               v == obj.relas[m][a]
    <3>1. h \in RelaSections /\ a \in shdrs[h].off + 1 .. Ends(h)
      BY <2>5 DEF RelaSections, Ends
    <3>2. m \in DOMAIN obj.relas /\ a \in DOMAIN obj.relas[m]
      <4>1. m \in DOMAIN obj.relas /\ Ends(h) <= Len(obj.relas[m])
        BY <2>1, <3>1 DEF HeadersTrue
      <4>2. DOMAIN obj.relas[m] = 1 .. Len(obj.relas[m]) /\ Len(obj.relas[m]) \in Nat
        BY <2>1, <4>1, RelasType
      <4>3. shdrs[h].off \in Nat /\ Ends(h) \in Nat
        BY <2>1, <3>1 DEF RelaHeader, Ends
      <4> QED BY <3>1, <4>1, <4>2, <4>3
    <3>3. v \in Nat
      BY <2>1, <3>2, RelasType
    <3>4. shdrs[h].info = funcs[Owner(m, a)].shndx
      BY <2>1, <3>1, <3>2 DEF HeadersTrue
    <3>5. offs[m][a] = v - funcs[Owner(m, a)].start
      BY <2>1, <3>2 DEF OffsetsSoFar
    <3>6. v \in 0 .. obj.size - 1
      BY <2>1, <2>5, <3>3
    <3>7. PICK b \in DOMAIN funcs : funcs[b].start <= v /\ v < funcs[b].start + funcs[b].size
      BY <3>6 DEF Tiled, InFunction
    <3>8. Owner(m, a) = b
      BY <2>1, <3>3, <3>7, OffsetInside DEF Owner
    <3>9. /\ funcs[b] \in Func /\ funcs[b].shndx = TextPos(b)
          /\ shdrs[TextPos(b)] = TextHeader(funcs[b])
      BY <2>1, <3>3, <3>8, Taken DEF Owner
    <3>10. shdrs[shdrs[h].info].size = funcs[b].size
      BY <2>2, <3>4, <3>8, <3>9
    <3>11. funcs[b].start \in Nat /\ funcs[b].size \in Nat
      BY <3>9 DEF Func
    <3> HIDE DEF v, m
    <3>12. v - funcs[b].start < funcs[b].size
      BY <3>3, <3>7, <3>11
    <3> QED BY <3>5, <3>8, <3>10, <3>12 DEF m
  <2> QED BY <2>4, <2>5 DEF RelocationsInside
<1> QED BY IInvHolds, <1>1, PTL
=============================================================================
