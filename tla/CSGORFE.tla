------------------------------ MODULE CSGORFE ------------------------------
(***************************************************************************)
(* The object splitter of lld/ELF/CSGORFE.h: LinkerDriver::addFile hands   *)
(* it every input path, and a relocatable object with one .text is         *)
(* rewritten, in place in a buffer, into one section per function.  The    *)
(* new section headers are appended behind the section table, in room that *)
(* is reserved before the relocations are walked a second time.            *)
(*                                                                         *)
(* Offsets count from the start of .text; a section header is one record.  *)
(***************************************************************************)
EXTENDS Integers, Sequences, FiniteSets

CONSTANTS Objects,    \* the objects that may be read
          IndexRange, \* 2^16: section indices and their number have 16 bits
          Reserved    \* SHN_LORESERVE, 0xff00: from here on no symbol's section

Sym == [func : BOOLEAN,  \* STT_FUNC
        text : BOOLEAN,  \* st_shndx = textIndex
        value : Nat, size : Nat]

\* relas: the r_offsets of each SHT_RELA section whose sh_info is .text.
Object == [named : BOOLEAN,      \* the name filter of splitRiscv32ObjectFunctions
           valid : BOOLEAN,      \* load, validateHeader, findCoreSections
           tableLast : BOOLEAN,  \* sectionTableEnd() = currentSize
           size : Nat, syms : Seq(Sym), relas : Seq(Seq(Nat)), others : Nat]

ASSUME ObjectAssumption ==
    /\ Objects \subseteq Object /\ IndexRange \in Nat
    /\ Reserved \in Nat \ {0} /\ Reserved < IndexRange

VARIABLES obj,      \* the object as read
          pc,
          funcs,    \* FunctionInfo
          extra,    \* extraHeaders
          shdrs,    \* section headers; the null header is not in the list
          offs,     \* the r_offset fields
          syms,     \* the symbols' new value and section
          k, i,     \* relocation section and relocation
          currentFunc, currentRela,
          linked    \* what addFile goes on to read

vars == <<obj, pc, funcs, extra, shdrs, offs, syms, k, i, currentFunc,
          currentRela, linked>>

TextIndex == 1
RelaIndex(m) == 1 + m

InitialHeaders(o) ==
    << [kind |-> "text", off |-> 0, size |-> o.size] >>
    \o [m \in DOMAIN o.relas |-> [kind |-> "rela", of |-> m, off |-> 0,
                                  size |-> Len(o.relas[m]), info |-> TextIndex]]
    \o [m \in 1 .. o.others |-> [kind |-> "other"]]

Init ==
    /\ obj \in Objects
    /\ pc = "collect" /\ funcs = <<>> /\ extra = 0
    /\ shdrs = InitialHeaders(obj) /\ offs = obj.relas
    /\ syms = [s \in DOMAIN obj.syms |-> [value |-> obj.syms[s].value,
                                          shndx |-> TextIndex]]
    /\ k = 1 /\ i = 1 /\ currentFunc = 0 /\ currentRela = 0
    /\ linked = "undecided"

\* return false, at any point before the buffer is changed.
Decline ==
    /\ linked' = "original" /\ pc' = "done"
    /\ UNCHANGED <<obj, funcs, extra, shdrs, offs, syms, k, i,
                   currentFunc, currentRela>>

-----------------------------------------------------------------------------
FuncSyms == {s \in DOMAIN obj.syms : /\ obj.syms[s].func /\ obj.syms[s].text
                                     /\ obj.syms[s].size > 0}

Starts == {obj.syms[s].value : s \in FuncSyms}

OutOfText == \E s \in FuncSyms :
    obj.syms[s].value + obj.syms[s].size > obj.size

\* Seeded fault: the first symbol of a start wins, not the largest.
LargestFirst(v) ==
    obj.syms[CHOOSE s \in FuncSyms : /\ obj.syms[s].value = v
        /\ \A t \in FuncSyms : obj.syms[t].value = v => s <= t].size

\* The size the sorted and merged list keeps for a start.
Largest(v) == CHOOSE n \in {obj.syms[s].size : s \in FuncSyms} :
    /\ \E s \in FuncSyms : obj.syms[s].value = v /\ obj.syms[s].size = n
    /\ \A s \in FuncSyms : obj.syms[s].value = v => obj.syms[s].size <= n

\* The list sorted by start, one entry per start.
SortedFunctions ==
    {f \in [1 .. Cardinality(Starts) ->
               {[start |-> v, size |-> Largest(v), shndx |-> 0] : v \in Starts}] :
        \A a, b \in DOMAIN f : a < b => f[a].start < f[b].start}

validateFunctions(f) ==
    /\ f[1].start = 0
    /\ \A a \in DOMAIN f :
          /\ f[a].start + f[a].size <= obj.size
          /\ a # Len(f) => f[a].start + f[a].size <= f[a + 1].start

validateRelocations ==
    \A m \in DOMAIN obj.relas : \A a \in DOMAIN obj.relas[m] :
        a > 1 => obj.relas[m][a - 1] <= obj.relas[m][a]

\* The first half of run: everything that may decline.
CollectAndValidate ==
    /\ pc = "collect"
    /\ \/ (~obj.named \/ ~obj.valid \/ OutOfText) /\ Decline
       \/ /\ obj.named /\ obj.valid /\ ~OutOfText
          /\ \E f \in SortedFunctions :
                IF /\ Len(f) > 1 /\ validateFunctions(f)
                   /\ validateRelocations /\ obj.tableLast
                THEN /\ funcs' = f /\ extra' = Len(f) - 1 /\ pc' = "reserve"
                     /\ UNCHANGED <<obj, shdrs, offs, syms, k, i, currentFunc,
                                    currentRela, linked>>
                ELSE Decline

\* Seeded fault: a function's first byte belongs to the function before it.
functionForOffsetLate(f, off) ==
    LET below == {a \in DOMAIN f : f[a].start < off}
    IN  IF below = {} THEN 1 ELSE CHOOSE a \in below : \A b \in below : b <= a

\* upper_bound - 1, or the first function.
functionForOffset(f, off) ==
    LET below == {a \in DOMAIN f : f[a].start <= off}
    IN  IF below = {} THEN 1 ELSE CHOOSE a \in below : \A b \in below : b <= a

\* The relocations at which a new group begins.
GroupStarts(m) ==
    {a \in DOMAIN obj.relas[m] :
        a = 1 \/ functionForOffset(funcs, obj.relas[m][a])
                 # functionForOffset(funcs, obj.relas[m][a - 1])}

\* Seeded fault: lastFunc starts as the first function.
countRelocGroupsShort(m) ==
    LET groups == Cardinality({a \in GroupStarts(m) :
                    a = 1 => functionForOffset(funcs, obj.relas[m][1]) # 1})
    IN  IF groups = 0 THEN 0 ELSE groups - 1

countRelocGroups(m) ==
    LET groups == Cardinality(GroupStarts(m)) IN IF groups = 0 THEN 0 ELSE groups - 1

\* One relocation section is counted; behind the last one the buffer grows.
Reserve ==
    /\ pc = "reserve"
    /\ IF k <= Len(obj.relas)
       THEN /\ extra' = extra + countRelocGroups(k) /\ k' = k + 1 /\ pc' = pc
       ELSE k' = 1 /\ pc' = "text" /\ extra' = extra
    /\ UNCHANGED <<obj, funcs, shdrs, offs, syms, i, currentFunc, currentRela, linked>>

-----------------------------------------------------------------------------
\* Index of the header that appendSectionHeader adds behind n headers.
Appended(n) == (n + 1) % IndexRange

TextHeader(f) == [kind |-> "text", off |-> f.start, size |-> f.size]

splitText ==
    /\ pc = "text"
    /\ shdrs' = [shdrs EXCEPT ![TextIndex] = TextHeader(funcs[1])]
                \o [a \in 1 .. Len(funcs) - 1 |-> TextHeader(funcs[a + 1])]
    /\ funcs' = [a \in DOMAIN funcs |->
                    [funcs[a] EXCEPT !.shndx =
                        IF a = 1 THEN TextIndex ELSE Appended(Len(shdrs) + a - 2)]]
    /\ pc' = "relocs"
    /\ UNCHANGED <<obj, extra, offs, syms, k, i, currentFunc, currentRela,
                   linked>>

\* A relocation section without relocations, or the end of one.
NextRelaSection ==
    /\ pc = "relocs" /\ k <= Len(obj.relas) /\ i > Len(obj.relas[k])
    /\ shdrs' = IF obj.relas[k] = <<>>
                THEN [shdrs EXCEPT ![RelaIndex(k)].info = funcs[1].shndx]
                ELSE shdrs
    /\ k' = k + 1 /\ i' = 1 /\ currentFunc' = 0 /\ currentRela' = 0
    /\ UNCHANGED <<obj, pc, funcs, extra, offs, syms, linked>>

\* The header that takes relocation i, and the header table with it.
Group(f) ==
    IF f = currentFunc THEN currentRela
    ELSE IF currentRela = 0 THEN RelaIndex(k) ELSE Len(shdrs) + 1

\* Seeded fault: a new group starts where the section starts.
WithGroupAtStart(f) ==
    IF f = currentFunc THEN shdrs
    ELSE IF currentRela = 0
    THEN [shdrs EXCEPT ![RelaIndex(k)].size = 0,
                       ![RelaIndex(k)].info = funcs[f].shndx]
    ELSE Append(shdrs, [kind |-> "rela", of |-> k, off |-> 0, size |-> 0,
                        info |-> funcs[f].shndx])

WithGroup(f) ==
    IF f = currentFunc THEN shdrs
    ELSE IF currentRela = 0
    THEN [shdrs EXCEPT ![RelaIndex(k)].size = 0,
                       ![RelaIndex(k)].info = funcs[f].shndx]
    ELSE Append(shdrs, [kind |-> "rela", of |-> k, off |-> i - 1, size |-> 0,
                        info |-> funcs[f].shndx])

\* One relocation of splitRelocations.
SplitRelocation ==
    /\ pc = "relocs" /\ k <= Len(obj.relas) /\ i <= Len(obj.relas[k])
    /\ LET f == functionForOffset(funcs, offs[k][i])
       IN  /\ shdrs' = [WithGroup(f) EXCEPT ![Group(f)].size = @ + 1]
           /\ currentFunc' = f /\ currentRela' = Group(f)
           /\ offs' = [offs EXCEPT ![k][i] = @ - funcs[f].start]
    /\ i' = i + 1
    /\ UNCHANGED <<obj, pc, funcs, extra, syms, k, linked>>

RelocationsDone ==
    /\ pc = "relocs" /\ k > Len(obj.relas)
    /\ pc' = "symbols"
    /\ UNCHANGED <<obj, funcs, extra, shdrs, offs, syms, k, i, currentFunc,
                   currentRela, linked>>

\* Seeded fault: only functions are moved.
MovedSymbolFuncs(s) == obj.syms[s].text /\ obj.syms[s].func

MovedSymbol(s) == obj.syms[s].text

updateSymbols ==
    /\ pc = "symbols"
    /\ syms' = [s \in DOMAIN syms |->
          LET f == functionForOffset(funcs, syms[s].value)
          IN  IF MovedSymbol(s)
              THEN [value |-> syms[s].value - funcs[f].start,
                    shndx |-> funcs[f].shndx]
              ELSE syms[s]]
    /\ pc' = "write"
    /\ UNCHANGED <<obj, funcs, extra, shdrs, offs, k, i, currentFunc,
                   currentRela, linked>>

\* The new object is written; when the file cannot be opened or the write is
\* seen to fail, addFile reads the original.
WriteObject ==
    /\ pc = "write"
    /\ linked' \in {"split", "original"}
    /\ pc' = "done"
    /\ UNCHANGED <<obj, funcs, extra, shdrs, offs, syms, k, i,
                   currentFunc, currentRela>>

Done == pc = "done" /\ UNCHANGED vars

Next == \/ CollectAndValidate \/ Reserve \/ splitText \/ NextRelaSection
        \/ SplitRelocation \/ RelocationsDone \/ updateSymbols \/ WriteObject
        \/ Done

Spec == Init /\ [][Next]_vars
-----------------------------------------------------------------------------
Headers == Len(InitialHeaders(obj))

(***************************************************************************)
(* The headers appended stay within the room reserved for them by the      *)
(* first walk over the relocations, and fill it when the object is         *)
(* written: data.resize and currentSize agree.                             *)
(***************************************************************************)
HeadersFitBuffer ==
    /\ pc = "relocs" => Len(shdrs) - Headers <= extra
    /\ pc \in {"symbols", "write"} => Len(shdrs) - Headers = extra

\* The number of sections in the header that is written, the null one included.
e_shnum == (Len(shdrs) + 1) % IndexRange

\* Every section index may stand in a symbol.  With more sections indices are
\* taken for reserved ones or truncated, and with IndexRange of them none is read.
IndicesFit == Len(shdrs) < Reserved

Rewritten == pc \in {"write", "done"} /\ linked # "original"

TextSections == {h \in DOMAIN shdrs : shdrs[h].kind = "text"}
Bytes(h) == {b \in 0 .. obj.size - 1 : /\ shdrs[h].off <= b
                                       /\ b < shdrs[h].off + shdrs[h].size}

\* Offset v of section h, which a reader of the object finds, is the byte that was
\* at offset old; no other section holds it.
Names(h, v, old) ==
    /\ h \in TextSections /\ h < e_shnum
    /\ shdrs[h].off + v = old /\ v < shdrs[h].size
    /\ \A g \in TextSections : old \in Bytes(g) => g = h

\* The offsets that lie in a function; the rest of .text is in no new section.
InFunction(b) == \E a \in DOMAIN funcs :
                    funcs[a].start <= b /\ b < funcs[a].start + funcs[a].size

(***************************************************************************)
(* Every relocation is in exactly one of the relocation sections that came *)
(* out of its own, and one that is applied to a byte of a function is      *)
(* applied to that byte, inside the section that holds it.  One between    *)
(* the functions is lost: no section holds its byte.                       *)
(***************************************************************************)
RelocationsKept ==
    Rewritten /\ IndicesFit =>
        \A m \in DOMAIN obj.relas : \A a \in DOMAIN obj.relas[m] :
            \E h \in DOMAIN shdrs :
                /\ {g \in DOMAIN shdrs :
                       /\ shdrs[g].kind = "rela" /\ shdrs[g].of = m
                       /\ shdrs[g].off < a /\ a <= shdrs[g].off + shdrs[g].size} = {h}
                /\ InFunction(obj.relas[m][a]) =>
                      Names(shdrs[h].info, offs[m][a], obj.relas[m][a])

\* The symbol at the last byte's end stays at the end of its function's section.
EndsIn(h, v, old) == /\ h \in TextSections /\ shdrs[h].off + v = old
                     /\ v = shdrs[h].size

(***************************************************************************)
(* Every symbol in a function still names the byte it named, whatever its  *)
(* type and whether or not it starts a function, inside the section that   *)
(* it keeps alive; one at a function's end that is not in the next one     *)
(* stays at that end.                                                      *)
(***************************************************************************)
SymbolsKept ==
    Rewritten /\ IndicesFit =>
        \A s \in DOMAIN obj.syms : obj.syms[s].text =>
            LET old == obj.syms[s].value
            IN  /\ syms[s].shndx < Reserved
                /\ InFunction(old) => Names(syms[s].shndx, syms[s].value, old)
                /\ ~InFunction(old) /\ (old > 0 /\ InFunction(old - 1)) =>
                      EndsIn(syms[s].shndx, syms[s].value, old)

(***************************************************************************)
(* The sections share no byte, so a function that is discarded takes       *)
(* nothing of another with it, and each function symbol, aliases included, *)
(* lies with all its bytes in the section it is moved to.                  *)
(***************************************************************************)
FunctionsWhole ==
    Rewritten /\ IndicesFit =>
        /\ \A g, h \in TextSections : g # h => Bytes(g) \cap Bytes(h) = {}
        /\ \A s \in FuncSyms :
              syms[s].value + obj.syms[s].size <= shdrs[syms[s].shndx].size

\* The functions leave no gap.
Tiled == \A b \in 0 .. obj.size - 1 : InFunction(b)

\* Every relocation of a byte of .text lies inside the section its header names.
RelocationsInside ==
    \A h \in DOMAIN shdrs : shdrs[h].kind = "rela" =>
        \A a \in shdrs[h].off + 1 .. shdrs[h].off + shdrs[h].size :
            obj.relas[shdrs[h].of][a] < obj.size =>
                offs[shdrs[h].of][a] < shdrs[shdrs[h].info].size

(***************************************************************************)
(* When the functions cover .text, no byte is lost, and every relocation   *)
(* of a byte of .text lies inside the section it is applied to.            *)
(***************************************************************************)
TiledTextKept ==
    Rewritten /\ IndicesFit /\ Tiled =>
        /\ UNION {Bytes(h) : h \in TextSections} = 0 .. obj.size - 1
        /\ RelocationsInside
=============================================================================
