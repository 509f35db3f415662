--------------------------- MODULE ConstLUIReuse ---------------------------
(***************************************************************************)
(* The pass riscv-const-lui-reuse                                          *)
(* (bolt/lib/Passes/RISCV/RISCVConstLUIReuse.cpp): it walks a block with a *)
(* map from registers to the constants they are known to hold, and         *)
(* rewrites LUI+ADDI pairs, LUI+load/store pairs and single LUIs so that   *)
(* they start from a register that already holds a near value.             *)
(*                                                                         *)
(* A block is a vector: erasing the LUI of a pair moves every later        *)
(* instruction one place down, under the iterators that are kept.          *)
(* An instruction BB stands for the boundary between two blocks joined by  *)
(* a single edge, across which the map is carried.                         *)
(***************************************************************************)
EXTENDS RVMachine, SequencesExt

CONSTANTS Blocks,     \* the input blocks
          ShortImm    \* the range of isInt<6>

VARIABLES code,    \* the block being rewritten
          ii,      \* the iterator II, as an index
          values,  \* RegValueMap
          orig     \* the input, for the properties

vars == <<code, ii, values, orig>>

Unknown == <<"unknown">>

Clear == [r \in Reg |-> IF r = 0 THEN Abs(0) ELSE Unknown]

isInt12(d) == d >= -(Page \div 2) /\ d < Page \div 2

\* sub32: the difference of two words as a signed number.
sub32(a, b) == ((a - b + Word \div 2) % Word) - Word \div 2

\* Calls, JAL and JALR by their opcodes because their descriptions are not marked
\* as calls, and branches.  The description of C_JR has none of the flags tested.
isBarrier(i) == i.op \in Calls \cup {"BEQ"}

isIFormatMemorySink(i) == i.op \in {"LW", "LB"}
isSFormatMemorySink(i) == i.op \in {"SW", "SB"}
isMemorySink(i) == isIFormatMemorySink(i) \/ isSFormatMemorySink(i)

\* getStableDiff and canUseFixedDiff: both absolute, or the same symbol.
FixedDiffs(base, target) ==
    CASE base[1] = "abs" /\ target[1] = "abs" -> {sub32(target[2], base[2])}
      [] base[1] = "sym" /\ target[1] = "sym" /\ base[2] = target[2]
            -> {target[3] - base[3]}
      [] OTHER -> {}

Distance(d) == IF d < 0 THEN -d ELSE d

\* findReusableBase: the <<register, difference>> with the smallest distance,
\* the first in map order on a tie; the empty set when there is none.
findReusableBase(target) ==
    LET found == {b \in {<<r, d>> : r \in Reg, d \in -Page .. Page} :
                    /\ b[2] \in FixedDiffs(values[b[1]], target)
                    /\ isInt12(b[2])}
    IN  {b \in found : \A c \in found :
            \/ Distance(b[2]) < Distance(c[2])
            \/ Distance(b[2]) = Distance(c[2]) /\ b[1] <= c[1]}

\* Seeded fault: a later definition is enough, whatever reads the register.
RedefinedLater(r, k) == \E n \in k .. Len(code) : r \in Defs(code[n])

\* isRegRedefinedBeforeUse from position k, inside the block.
RedefinedBeforeUse(r, k) ==
    \E n \in k .. Len(code) :
        /\ r \in Defs(code[n]) \ Uses(code[n])
        /\ \A j \in k .. (n - 1) : r \notin Uses(code[j]) /\ code[j].op # "BB"

canDeleteLUI(sink, r) ==
    r \in Defs(code[sink]) \/ RedefinedBeforeUse(r, sink + 1)

\* The value LUI and a sink with the immediate of s compute, if it is known:
\* both immediate, or %hi and %lo of the same symbol and addend.
PairTarget(l, s) ==
    CASE l.sym = 0 /\ s.sym = 0 -> Abs(Page * l.imm + s.imm)
      [] l.sym # 0 /\ l.sym = s.sym /\ l.imm = s.imm -> <<"sym", l.sym, l.imm>>
      [] OTHER -> Unknown

\* A pair at II whose sink uses the LUI's register.
IsPair == /\ ii < Len(code)
          /\ code[ii].op = "LUI"
          /\ code[ii + 1].rs = code[ii].rd
          /\ PairTarget(code[ii], code[ii + 1]) # Unknown

IsMaterializedPair == IsPair /\ code[ii + 1].op = "ADDI"

IsMemoryPair == /\ IsPair /\ isMemorySink(code[ii + 1])
                /\ ~(isSFormatMemorySink(code[ii + 1]) /\ code[ii + 1].rt = code[ii].rd)

Target == PairTarget(code[ii], code[ii + 1])

setKnownValue(vs, r, v) == IF r = 0 THEN vs ELSE [vs EXCEPT ![r] = v]

\* The register the LUI of an unchanged pair leaves behind.
LearnHigh(vs) ==
    setKnownValue(vs, code[ii].rd,
                  IF code[ii].sym = 0 THEN Abs(Page * code[ii].imm) ELSE Unknown)

IsAbs(v) == v[1] = "abs"

\* Seeded fault: a definition of unknown value does not forget the old one.
learnSimpleValueNoForget(vs, i) ==
    CASE isBarrier(i) -> Clear
      [] i.op \in {"LUI", "C_LUI"} /\ i.sym = 0 ->
            setKnownValue(vs, i.rd, Abs(Page * i.imm))
      [] i.op = "ADDI" /\ i.sym = 0 /\ IsAbs(vs[i.rs]) ->
            setKnownValue(vs, i.rd, AddImm(vs[i.rs], i.imm))
      [] OTHER -> vs

\* The map after an instruction that is not rewritten (forgetDefs, then the
\* value the opcode lets the pass compute).
learnSimpleValue(vs, i) ==
    CASE isBarrier(i) -> Clear
      [] i.op \in {"LUI", "C_LUI"} /\ i.sym = 0 ->
            setKnownValue(vs, i.rd, Abs(Page * i.imm))
      [] i.op = "ADDI" /\ i.sym = 0 /\ IsAbs(vs[i.rs]) ->
            setKnownValue(vs, i.rd, AddImm(vs[i.rs], i.imm))
      [] i.op = "ADD" /\ IsAbs(vs[i.rs]) /\ IsAbs(vs[i.rt]) ->
            setKnownValue(vs, i.rd, Add(vs[i.rs], vs[i.rt]))
      [] i.op = "C_LI" -> setKnownValue(vs, i.rd, Abs(i.imm))
      [] i.op = "C_MV" -> setKnownValue(vs, i.rd, vs[i.rs])
      [] OTHER -> [r \in Reg |-> IF r \in Defs(i) \ {0} THEN Unknown ELSE vs[r]]

-----------------------------------------------------------------------------
Init == /\ orig \in Blocks
        /\ code = orig /\ ii = 1 /\ values = Clear

Here == ii <= Len(code)

Barrier ==
    /\ Here /\ isBarrier(code[ii])
    /\ values' = Clear /\ ii' = ii + 1
    /\ UNCHANGED <<code, orig>>

CanReuseMaterialized ==
    /\ code[ii + 1].rd # 0
    /\ canDeleteLUI(ii + 1, code[ii].rd)
    /\ findReusableBase(Target) # {}

\* The sink becomes ADDI dst, base, diff and the LUI is erased.
ReuseMaterialized ==
    /\ Here /\ ~isBarrier(code[ii]) /\ IsMaterializedPair /\ CanReuseMaterialized
    /\ \E b \in findReusableBase(Target) :
          code' = RemoveAt([code EXCEPT ![ii + 1] = ADDI(@.rd, b[1], b[2])], ii)
    /\ values' = setKnownValue(values, code[ii + 1].rd, Target)
    /\ ii' = ii + 1
    /\ UNCHANGED orig

\* learnMaterializedPair.
KeepMaterialized ==
    /\ Here /\ ~isBarrier(code[ii]) /\ IsMaterializedPair /\ ~CanReuseMaterialized
    /\ values' = setKnownValue(LearnHigh(values), code[ii + 1].rd, Target)
    /\ ii' = ii + 2
    /\ UNCHANGED <<code, orig>>

CanReuseMemory == /\ canDeleteLUI(ii + 1, code[ii].rd)
                  /\ findReusableBase(Target) # {}

(***************************************************************************)
(* The sink gets the new base and offset and the LUI is erased; MemPair.   *)
(* Sink then designates what moved into the sink's old place, and that is  *)
(* the instruction learnSimpleValue is given.  Behind the last instruction *)
(* of a block it finds the emptied slot, which defines nothing.            *)
(***************************************************************************)
ReuseMemory ==
    /\ Here /\ ~isBarrier(code[ii]) /\ ~IsMaterializedPair /\ IsMemoryPair
    /\ CanReuseMemory
    /\ \E b \in findReusableBase(Target) :
          code' = RemoveAt([code EXCEPT ![ii + 1] =
                       [@ EXCEPT !.rs = b[1], !.imm = b[2], !.sym = 0]], ii)
    /\ values' = IF ii + 1 <= Len(code') /\ code'[ii + 1].op # "BB"
                 THEN learnSimpleValue(values, code'[ii + 1]) ELSE values
    /\ ii' = ii + 1
    /\ UNCHANGED orig

\* learnMemoryPair: the LUI's register only.
KeepMemory ==
    /\ Here /\ ~isBarrier(code[ii]) /\ ~IsMaterializedPair /\ IsMemoryPair
    /\ ~CanReuseMemory
    /\ values' = LearnHigh(values) /\ ii' = ii + 2
    /\ UNCHANGED <<code, orig>>

\* A base for a single LUI: itself with a short difference, or a copy.
LUIBases ==
    {b \in findReusableBase(Abs(Page * code[ii].imm)) :
        \/ b[1] = code[ii].rd /\ b[2] \in ShortImm
        \/ b[2] = 0 /\ b[1] # 0}

SingleLUI == /\ ~isBarrier(code[ii]) /\ ~IsMaterializedPair /\ ~IsMemoryPair
             /\ code[ii].op = "LUI" /\ code[ii].sym = 0 /\ code[ii].rd # 0

ReuseLUI ==
    /\ Here /\ SingleLUI
    /\ \E b \in LUIBases : code' = [code EXCEPT ![ii] = ADDI(@.rd, b[1], b[2])]
    /\ values' = setKnownValue(values, code[ii].rd, Abs(Page * code[ii].imm))
    /\ ii' = ii + 1
    /\ UNCHANGED orig

LearnSimple ==
    /\ Here /\ ~isBarrier(code[ii]) /\ ~IsMaterializedPair /\ ~IsMemoryPair
    /\ ~(SingleLUI /\ LUIBases # {})
    /\ values' = learnSimpleValue(values, code[ii])
    /\ ii' = ii + 1
    /\ UNCHANGED <<code, orig>>

Done == ~Here /\ UNCHANGED vars

Next == \/ Barrier \/ ReuseMaterialized \/ KeepMaterialized \/ ReuseMemory
        \/ KeepMemory \/ ReuseLUI \/ LearnSimple \/ Done

Spec == Init /\ [][Next]_vars
-----------------------------------------------------------------------------
(***************************************************************************)
(* Blocks the pass handles right.  What Tame leaves out are known defects: *)
(* an instruction behind a rewritten load or store is learned before it    *)
(* has run, the result of a load is not forgotten, and a call is not seen  *)
(* to read its arguments.                                                  *)
(***************************************************************************)
Opcode == {"LUI", "C_LUI", "ADDI", "C_LI", "C_MV", "ADD", "SUB", "LW", "C_LW", "LB",
           "SW", "SB", "JAL", "C_JAL", "JALR", "BB", "C_JR", "BEQ"}

Instr == [op : Opcode, rd : Reg, rs : Reg, rt : Reg, imm : Int, sym : Int]

\* LUI does not write x0.
ResultsExist(b) == \A k \in DOMAIN b : b[k].op = "LUI" => b[k].rd # 0

\* A load or store at k + 1 whose address the LUI at k and it compute.
MemoryPairAt(b, k) ==
    /\ b[k].op = "LUI" /\ isMemorySink(b[k + 1]) /\ b[k + 1].rs = b[k].rd
    /\ PairTarget(b[k], b[k + 1]) # Unknown

\* Some instruction before k, behind the last barrier, has the result r.
DefinedBefore(b, k, r) ==
    \E j \in 1 .. (k - 1) : /\ r \in Defs(b[j])
                            /\ \A n \in j .. (k - 1) : ~isBarrier(b[n])

\* What follows a load or store of a pair is not learned, and the register
\* loaded has no known value.
PairsTame(b) ==
    \A k \in 1 .. (Len(b) - 1) : MemoryPairAt(b, k) =>
        /\ k + 2 \in DOMAIN b =>
              b[k + 2].op \notin {"LUI", "C_LUI", "ADDI", "ADD", "C_LI", "C_MV"}
        /\ isIFormatMemorySink(b[k + 1]) /\ b[k + 1].rd # 0 =>
              /\ ~DefinedBefore(b, k, b[k + 1].rd)
              /\ b[k + 1].rd = b[k].rd => b[k].sym # 0

\* No call reads what a LUI left.
CallsTame(b) ==
    \A j, k \in DOMAIN b : b[j].op = "LUI" /\ b[k].op \in Calls => b[j].rd \notin ArgReg

Tame(b) == b \in Seq(Instr) /\ ResultsExist(b) /\ PairsTame(b) /\ CallsTame(b)
-----------------------------------------------------------------------------
(***************************************************************************)
(* The map is true: at the iterator every register holds the value the     *)
(* pass has recorded for it.                                               *)
(***************************************************************************)
KnownValuesTrue ==
    LET m == Run(SubSeq(code, 1, ii - 1))
    IN  \A r \in Reg : values[r] # Unknown => m.regs[r] = values[r]

(***************************************************************************)
(* The rewritten block does what the input block did: the same calls,      *)
(* stores and final registers, for every initial state.                    *)
(***************************************************************************)
SameBehaviour == ~Here => Run(code) = Run(orig)
=============================================================================
