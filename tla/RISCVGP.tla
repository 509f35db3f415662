------------------------------ MODULE RISCVGP ------------------------------
(***************************************************************************)
(* calculateRISCVGP (lld/ELF/RISCVGP.cpp): where __global_pointer$ is put. *)
(* The default is Half above .sdata (or the first data section); a window  *)
(* slides over the sorted addresses of the HI20/LO12 references to data,   *)
(* and the fullest window replaces the default when it covers more and its *)
(* middle lies in a data section.                                          *)
(***************************************************************************)
EXTENDS Integers, Sequences, FiniteSets

CONSTANTS Half,     \* 0x800: what a signed 12-bit offset reaches below gp
          Layouts,  \* the lists of output sections, in address order
          RefLists  \* the lists of relocations of the live input sections

Name == {".text", ".data", ".sdata", ".sbss", ".bss"}
Section == [name : Name, addr : Nat, size : Nat]

\* addr is sym->getVA(addend); sec is the output section of the symbol, 0 for
\* a symbol that is not defined in one.
Ref == [type : {"HI20", "LO12_I", "LO12_S", "other"}, sec : Nat, addr : Nat]

ASSUME GPAssumption ==
    /\ Half \in Nat \ {0}
    /\ Layouts \subseteq Seq(Section)
    /\ RefLists \subseteq Seq(Ref)

\* 0xfff, the width the while loop compares with.
Window == 2 * Half - 1

isRISCVGPDataSection(sec) == sec.name \in {".data", ".sdata", ".sbss", ".bss"}

\* llvm::isInt<12>(addr - gpVA)
InReach(addr, gpVA) == addr - gpVA \in -Half .. Half - 1

Covered(xs, gpVA) == {i \in DOMAIN xs : InReach(xs[i], gpVA)}

countCoveredRefs(xs, gpVA) == Cardinality(Covered(xs, gpVA))

VARIABLES outputSections, refs,  \* the input
          addrs,                 \* sorted addresses of the data references
          l, r, bestL, bestCount,
          gp,                    \* the placement as an address
          score, pc

vars == <<outputSections, refs, addrs, l, r, bestL, bestCount, gp, score, pc>>
inputs == <<outputSections, refs>>

DataSections == {i \in DOMAIN outputSections :
                    isRISCVGPDataSection(outputSections[i])}

\* The last .sdata, or else the first data section.
DefaultSec ==
    LET sdata == {i \in DataSections : outputSections[i].name = ".sdata"}
    IN  IF sdata # {} THEN CHOOSE i \in sdata : \A j \in sdata : j <= i
        ELSE CHOOSE i \in DataSections : \A j \in DataSections : i <= j

DefaultGpVA == outputSections[DefaultSec].addr + Half

\* The references whose address is collected.
Counted == {i \in DOMAIN refs : /\ refs[i].type # "other"
                               /\ refs[i].sec \in DataSections}

Sorted(xs) == \A i, j \in DOMAIN xs : i < j => xs[i] <= xs[j]

\* What llvm::sort makes of the collected addresses.
SortedAddrs ==
    LET found == {refs[i].addr : i \in Counted}
    IN  {xs \in [1 .. Cardinality(Counted) -> found] :
            /\ Sorted(xs)
            /\ \A a \in found : Cardinality({i \in DOMAIN xs : xs[i] = a})
                 = Cardinality({i \in Counted : refs[i].addr = a})}

\* An empty placement has no section and value 0x800.
Init ==
    /\ outputSections \in Layouts /\ refs \in RefLists
    /\ addrs = <<>> /\ l = 1 /\ r = 1 /\ bestL = 1 /\ bestCount = 0
    /\ gp = Half /\ score = 0 /\ pc = "collect"

\* Everything before the window: without a data section, or without a
\* reference to one, the function returns early.
Collect ==
    /\ pc = "collect"
    /\ \/ DataSections = {} /\ pc' = "done" /\ UNCHANGED <<addrs, gp, score>>
       \/ /\ DataSections # {}
          /\ addrs' \in SortedAddrs
          /\ gp' = DefaultGpVA
          /\ score' = IF addrs' = <<>> THEN 0
                      ELSE countCoveredRefs(addrs', DefaultGpVA)
          /\ pc' = IF addrs' = <<>> THEN "done" ELSE "window"
    /\ UNCHANGED <<inputs, l, r, bestL, bestCount>>

TooWide == addrs[r] - addrs[l] > Window

\* while (addrs[r] - addrs[l] > 0xfff) ++l
Shrink ==
    /\ pc = "window" /\ TooWide
    /\ l' = l + 1
    /\ UNCHANGED <<inputs, addrs, r, bestL, bestCount, gp, score, pc>>

\* Seeded fault: the count forgets the right end.
CountShort == r - l

\* Seeded fault: the count is one too many.
CountLong == r - l + 2

Count == r - l + 1

\* The rest of the loop body, and ++r.
Grow ==
    /\ pc = "window" /\ ~TooWide
    /\ IF Count > bestCount THEN bestCount' = Count /\ bestL' = l
       ELSE UNCHANGED <<bestCount, bestL>>
    /\ r' = r + 1
    /\ pc' = IF r = Len(addrs) THEN "choose" ELSE "window"
    /\ UNCHANGED <<inputs, addrs, l, gp, score>>

\* Seeded fault: the pointer is one too high for the start of its window.
BestGpVAHigh == addrs[bestL] + Half + 1

BestGpVA == addrs[bestL] + Half

InSection(va) == \E i \in DataSections :
    /\ outputSections[i].addr <= va
    /\ va < outputSections[i].addr + outputSections[i].size

Worthwhile == bestCount > score /\ InSection(BestGpVA)

Choose ==
    /\ pc = "choose"
    /\ IF Worthwhile THEN gp' = BestGpVA /\ score' = bestCount
       ELSE UNCHANGED <<gp, score>>
    /\ pc' = "done"
    /\ UNCHANGED <<inputs, addrs, l, r, bestL, bestCount>>

Done == pc = "done" /\ UNCHANGED vars

Next == Collect \/ Shrink \/ Grow \/ Choose \/ Done

Spec == Init /\ [][Next]_vars
-----------------------------------------------------------------------------
TypeOK ==
    /\ outputSections \in Seq(Section) /\ refs \in Seq(Ref)
    /\ addrs \in Seq(Nat)
    /\ l \in Nat \ {0} /\ r \in Nat \ {0} /\ bestL \in Nat \ {0}
    /\ bestCount \in Nat /\ gp \in Nat /\ score \in Nat
    /\ pc \in {"collect", "window", "choose", "done"}

(***************************************************************************)
(* The two indices never leave the vector: the inner loop stops at the     *)
(* right end at the latest, and the best window lies in what was seen.     *)
(***************************************************************************)
IndicesInRange ==
    /\ pc = "window" => 1 <= l /\ l <= r /\ r <= Len(addrs)
    /\ bestCount > 0 => bestL + bestCount <= r

(***************************************************************************)
(* What the sliding window has established when it reaches r: no run of    *)
(* references to the left of r that fits a signed 12-bit range is longer   *)
(* than bestCount.                                                         *)
(***************************************************************************)
WindowsSeen ==
    pc \in {"window", "choose"} =>
        \A i, j \in DOMAIN addrs :
            i <= j /\ j < r /\ addrs[j] - addrs[i] <= Window
                => j - i + 1 <= bestCount

(***************************************************************************)
(* The result reaches at least as many references as the default does, and *)
(* at least as many as the reported score says.                            *)
(***************************************************************************)
NoWorseThanDefault ==
    pc = "done" /\ DataSections # {} =>
        /\ countCoveredRefs(addrs, gp) >= score
        /\ countCoveredRefs(addrs, gp) >= countCoveredRefs(addrs, DefaultGpVA)

BestOf(pointers) ==
    pc = "done" /\ DataSections # {} /\ gp # DefaultGpVA =>
        \A g \in pointers :
            countCoveredRefs(addrs, g) <= countCoveredRefs(addrs, gp)

\* The pointers that reach a reference at all.
Useful == UNION {a - (Half - 1) .. a + Half : a \in {addrs[i] : i \in DOMAIN addrs}}

(***************************************************************************)
(* A moved pointer is the best one: no address at all reaches more         *)
(* references, although only windows that start at a reference were tried. *)
(***************************************************************************)
MovedIsBest == BestOf(Useful)
=============================================================================
