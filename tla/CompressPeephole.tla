-------------------------- MODULE CompressPeephole --------------------------
(***************************************************************************)
(* The pass riscv-compress-peephole                                        *)
(* (bolt/lib/Passes/RISCV/RISCVCompressPeephole.cpp) on one function: each *)
(* instruction is replaced by its RVC form if it has one, then rounds over *)
(* the function, each with the offsets laid out at its start, turn local   *)
(* jumps within reach into C.J, until a round changes nothing.             *)
(*                                                                         *)
(* The function is its instructions in order, those of CompressInst with   *)
(* size and target: the position of the first instruction of the block     *)
(* jumped to, 0 when the target is no block of the function.               *)
(***************************************************************************)
EXTENDS CompressInst

CONSTANTS Functions,  \* the functions the pass is run on
          Reach       \* 2048: C.J reaches -Reach .. Reach - 2

ASSUME ReachAssumption == Reach \in Nat /\ Reach % 2 = 0

\* The forms compressInst gives.
RVC == {"C_NOP", "C_ADDI16SP", "C_ADDI4SPN", "C_LI", "C_ADDI", "C_MV", "C_LUI", "C_SLLI",
        "C_SRLI", "C_SRAI", "C_ANDI", "C_ADD", "C_SUB", "C_XOR", "C_OR", "C_AND", "C_LWSP",
        "C_SWSP", "C_LW", "C_SW", "C_JR", "C_EBREAK"}

\* The opcodes the pass tells apart; "other" is any it does not know.
Opcode == {"ADD", "SUB", "XOR", "OR", "AND", "ADDI", "ANDI", "SLLI", "SRLI", "SRAI", "LUI",
           "LW", "SW", "JALR", "EBREAK", "JAL", "C_J", "other"} \cup RVC

Instruction == [op : Opcode, regs : Seq(0 .. 31), imm : Int, sym : BOOLEAN,
                size : {2, 4}, target : Nat]

\* The operands an instruction that compressInst looks at is disassembled to.
WellFormed(i) ==
    /\ i.op \in {"ADD", "SUB", "XOR", "OR", "AND"} => Len(i.regs) = 3
    /\ i.op \in {"ADDI", "ANDI", "SLLI", "SRLI", "SRAI", "LW", "SW", "JALR"} =>
          Len(i.regs) = 2
    /\ i.op = "LUI" => Len(i.regs) = 1 /\ i.imm \in 0 .. 2 ^ 20 - 1

VARIABLES input,    \* the function before the pass, for the properties
          insts,    \* the instructions
          phase,    \* "single": runOnFunction's own loop, then "jumps"
          offsets,  \* LabelOffsets and InstructionOffsets of this round
          pos,      \* the instruction looked at, 0 between rounds
          round,    \* ChangedThisRound
          done,
          dryRun    \* the option riscv-compress-peephole-dry-run

vars == <<input, insts, phase, offsets, pos, round, done, dryRun>>

\* computeInstructionSize added up from the start of the function.
LayOut(s) ==
    LET at[k \in 1 .. Len(s)] == IF k = 1 THEN 0 ELSE at[k - 1] + s[k - 1].size
    IN  at

isCJOffset(d) == d >= -Reach /\ d <= Reach - 2 /\ d % 2 = 0

\* Blocks are jumped to by position, and the C.J of the input reach their blocks.
ASSUME FunctionsAssumption ==
    \A f \in Functions :
        /\ f \in Seq(Instruction)
        /\ \A i \in DOMAIN f :
              /\ WellFormed(f[i]) /\ f[i].target \in 0 .. Len(f)
              /\ f[i].op = "C_J" /\ f[i].target # 0 =>
                    isCJOffset(LayOut(f)[f[i].target] - LayOut(f)[i])

Init == /\ input \in Functions /\ insts = input
        /\ dryRun \in BOOLEAN
        /\ phase = "single" /\ offsets = LayOut(insts)
        /\ pos = 1 /\ round = 0 /\ done = FALSE

\* *II = Compressed; the target stays with an instruction that has one.
Compressed(i) ==
    LET f == Head(compressInst(i))
    IN  [i EXCEPT !.op = f.op, !.regs = f.regs, !.imm = f.imm, !.sym = f.sym, !.size = 2]

\* One iteration of the loop over the instructions of the function.
CompressSingle ==
    /\ phase = "single" /\ pos \in 1 .. Len(insts)
    /\ insts' = IF compressInst(insts[pos]) # <<>> /\ ~dryRun
                THEN [insts EXCEPT ![pos] = Compressed(@)] ELSE insts
    /\ pos' = pos + 1
    /\ UNCHANGED <<input, phase, offsets, round, done, dryRun>>

StartJumps ==
    /\ phase = "single" /\ pos = Len(insts) + 1
    /\ phase' = "jumps" /\ pos' = 0
    /\ UNCHANGED <<input, insts, offsets, round, done, dryRun>>

StartRound ==
    /\ phase = "jumps" /\ ~done /\ pos = 0
    /\ offsets' = LayOut(insts)
    /\ pos' = 1 /\ round' = 0
    /\ UNCHANGED <<input, insts, phase, done, dryRun>>

\* JAL X0
IsJump(i) == i.op = "JAL" /\ i.regs = <<0>>

\* Seeded fault: the distance is taken from the end of the jump.
FitsFromNext(i) == /\ IsJump(insts[i]) /\ insts[i].target # 0
                   /\ isCJOffset(offsets[insts[i].target] - offsets[i] - 4)

\* Seeded fault: the opcode is not looked at again.
FitsAny(i) == /\ insts[i].target # 0
              /\ isCJOffset(offsets[insts[i].target] - offsets[i])

\* A JAL X0 to a block of this function, near enough in the round's layout.
Fits(i) == /\ IsJump(insts[i]) /\ insts[i].target # 0
           /\ isCJOffset(offsets[insts[i].target] - offsets[i])

C_J(i) == [i EXCEPT !.op = "C_J", !.regs = <<>>, !.size = 2]

Visit ==
    /\ phase = "jumps" /\ ~done /\ pos \in 1 .. Len(insts)
    /\ round' = IF Fits(pos) THEN round + 1 ELSE round
    /\ insts' = IF Fits(pos) /\ ~dryRun
                THEN [insts EXCEPT ![pos] = C_J(@)] ELSE insts
    /\ pos' = pos + 1
    /\ UNCHANGED <<input, phase, offsets, done, dryRun>>

\* Seeded fault: one round is taken to be enough.
EndRoundOnce ==
    /\ phase = "jumps" /\ ~done /\ pos = Len(insts) + 1
    /\ done' = TRUE /\ pos' = 0
    /\ UNCHANGED <<input, insts, phase, offsets, round, dryRun>>

EndRound ==
    /\ phase = "jumps" /\ ~done /\ pos = Len(insts) + 1
    /\ done' = (dryRun \/ round = 0)
    /\ pos' = 0
    /\ UNCHANGED <<input, insts, phase, offsets, round, dryRun>>

Done == done /\ UNCHANGED vars

Next == CompressSingle \/ StartJumps \/ StartRound \/ Visit \/ EndRound \/ Done

\* A loop of one thread.
Spec == Init /\ [][Next]_vars /\ WF_vars(Next)
-----------------------------------------------------------------------------
Local == {i \in DOMAIN insts : insts[i].target # 0}

(***************************************************************************)
(* "Shrinking a jump can only bring other local jumps closer to their      *)
(* target": a jump made a C.J on the offsets of the start of its round is  *)
(* within reach in the layout as it is now, and in every later one.        *)
(***************************************************************************)
CompressedInReach ==
    LET now == LayOut(insts)
    IN  \A i \in Local : insts[i].op = "C_J" =>
            isCJOffset(now[insts[i].target] - now[i])

(***************************************************************************)
(* The rounds go on "until no further C.J forms fit".                      *)
(***************************************************************************)
NoFurtherFits ==
    done /\ ~dryRun =>
        LET now == LayOut(insts)
        IN  \A i \in Local : IsJump(insts[i]) =>
                ~isCJOffset(now[insts[i].target] - now[i])

RVCForms == {i \in DOMAIN insts : /\ insts[i].op # input[i].op
                                  /\ insts[i].op # "C_J"}

(***************************************************************************)
(* An instruction that was given an RVC form executes what it did before,  *)
(* once the form has gone through the fields of its 16-bit encoding: no    *)
(* immediate is cut, no register is renamed, no encoding means another     *)
(* instruction, sources are swapped only where that does not matter.       *)
(***************************************************************************)
FormsExecuteSame ==
    \A i \in RVCForms : Effect(Expand(insts[i])) = Effect(input[i])

(***************************************************************************)
(* "compress eligible RISC-V instructions to RVC forms": what the pass     *)
(* puts into the function has the operands of the form, which the encoder  *)
(* reads by their positions.                                               *)
(***************************************************************************)
FormsComplete == \A i \in RVCForms : Given(insts[i]) = Operands(insts[i].op)

\* Every round but the last shrinks some jump, so the rounds come to an end.
Terminates == <>done
=============================================================================
