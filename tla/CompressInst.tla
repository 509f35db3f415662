---------------------------- MODULE CompressInst ----------------------------
(***************************************************************************)
(* compressInst of riscv-compress-peephole                                 *)
(* (bolt/lib/Passes/RISCV/RISCVCompressPeephole.cpp), the table from an    *)
(* instruction to its RVC form, and the reference it is compared with:     *)
(* what the 16-bit encodings of RISC-V can hold and what they execute.     *)
(*                                                                         *)
(* An instruction is [op, regs, imm, sym]: its register operands in order, *)
(* its immediate, and whether that is an expression instead of a number.   *)
(***************************************************************************)
EXTENDS Integers, Sequences

isX0(r) == r = 0
isSP(r) == r = 2
isNonZeroGPR(r) == r # 0
isGPRC(r) == r \in 8 .. 15

\* Seeded fault: six bits taken to be unsigned at the top.
isSImm6Wide(n) == n >= -32 /\ n <= 32

isSImm6(n) == n >= -32 /\ n <= 31
isUImmScaled(n, max, scale) == n >= 0 /\ n <= max /\ n % scale = 0
isCAddi16SPImm(n) == n # 0 /\ n >= -512 /\ n <= 496 /\ n % 16 = 0

\* make0, makeReg, makeRegImm, makeRegReg and makeRegRegImm
Make(op, regs, imm) == [op |-> op, regs |-> regs, imm |-> imm, sym |-> FALSE]

\* One "if": the form it gives, or nothing.  The first of a list is taken.
When(c, form) == IF c THEN <<form>> ELSE <<>>

compressADDI(rd, rs1, imm) ==
    When(isX0(rd) /\ isX0(rs1) /\ imm = 0, Make("C_NOP", <<>>, 0))
    \o When(isSP(rd) /\ isSP(rs1) /\ isCAddi16SPImm(imm), Make("C_ADDI16SP", <<rd>>, imm))
    \o When(isGPRC(rd) /\ isSP(rs1) /\ isUImmScaled(imm, 1020, 4) /\ imm # 0,
            Make("C_ADDI4SPN", <<rd, rs1>>, imm))
    \o When(isNonZeroGPR(rd) /\ isX0(rs1) /\ isSImm6(imm), Make("C_LI", <<rd>>, imm))
    \o When(isNonZeroGPR(rd) /\ rd = rs1 /\ imm # 0 /\ isSImm6(imm),
            Make("C_ADDI", <<rd>>, imm))
    \o When(isNonZeroGPR(rd) /\ isNonZeroGPR(rs1) /\ imm = 0,
            Make("C_MV", <<rd, rs1>>, 0))

compressLUI(rd, imm) ==
    When(rd \notin {0, 2} /\ imm # 0 /\ isSImm6(imm), Make("C_LUI", <<rd>>, imm))

compressShiftOrAndI(op, rd, rs1, imm) ==
    When(rd = rs1 /\ op = "SLLI" /\ isNonZeroGPR(rd) /\ imm \in 1 .. 31,
         Make("C_SLLI", <<rd>>, imm))
    \o When(rd = rs1 /\ op = "SRLI" /\ isGPRC(rd) /\ imm \in 1 .. 31,
            Make("C_SRLI", <<rd>>, imm))
    \o When(rd = rs1 /\ op = "SRAI" /\ isGPRC(rd) /\ imm \in 1 .. 31,
            Make("C_SRAI", <<rd>>, imm))
    \o When(rd = rs1 /\ op = "ANDI" /\ isGPRC(rd) /\ isSImm6(imm),
            Make("C_ANDI", <<rd>>, imm))

TryCA(op, commutative, rd, rs1, rs2) ==
    When(isGPRC(rd) /\ rd = rs1 /\ isGPRC(rs2), Make(op, <<rd, rs2>>, 0))
    \o When(commutative /\ isGPRC(rd) /\ rd = rs2 /\ isGPRC(rs1),
            Make(op, <<rd, rs1>>, 0))

compressALU(op, rd, rs1, rs2) ==
    CASE op = "ADD" ->
           When(isNonZeroGPR(rd) /\ isX0(rs1) /\ isX0(rs2), Make("C_LI", <<rd>>, 0))
           \o When(isNonZeroGPR(rd) /\ isX0(rs1) /\ isNonZeroGPR(rs2),
                   Make("C_MV", <<rd, rs2>>, 0))
           \o When(isNonZeroGPR(rd) /\ isNonZeroGPR(rs1) /\ isX0(rs2),
                   Make("C_MV", <<rd, rs1>>, 0))
           \o When(isNonZeroGPR(rd) /\ rd = rs1 /\ isNonZeroGPR(rs2),
                   Make("C_ADD", <<rd, rs2>>, 0))
           \o When(isNonZeroGPR(rd) /\ rd = rs2 /\ isNonZeroGPR(rs1),
                   Make("C_ADD", <<rd, rs1>>, 0))
      [] op = "SUB" -> TryCA("C_SUB", FALSE, rd, rs1, rs2)
      [] op = "XOR" -> TryCA("C_XOR", TRUE, rd, rs1, rs2)
      [] op = "OR" -> TryCA("C_OR", TRUE, rd, rs1, rs2)
      [] op = "AND" -> TryCA("C_AND", TRUE, rd, rs1, rs2)

compressLoadStore(op, r, base, imm) ==
    When(op = "LW" /\ isNonZeroGPR(r) /\ isSP(base) /\ isUImmScaled(imm, 252, 4),
         Make("C_LWSP", <<r, base>>, imm))
    \o When(op = "SW" /\ isSP(base) /\ isUImmScaled(imm, 252, 4),
            Make("C_SWSP", <<r, base>>, imm))
    \o When(isGPRC(r) /\ isGPRC(base) /\ isUImmScaled(imm, 124, 4),
            Make(IF op = "LW" THEN "C_LW" ELSE "C_SW", <<r, base>>, imm))

compressJALR(rd, rs1, imm) ==
    When(imm = 0 /\ isNonZeroGPR(rs1) /\ rd = 0, Make("C_JR", <<rs1>>, 0))

\* The forms in the order they are tried; an expression is not an immediate.
compressInst(i) ==
    LET a == i.regs[1]
        b == i.regs[2]
    IN  CASE i.op = "EBREAK" -> <<Make("C_EBREAK", <<>>, 0)>>
          [] i.op \in {"ADD", "SUB", "XOR", "OR", "AND"} ->
                compressALU(i.op, a, b, i.regs[3])
          [] i.op = "ADDI" /\ ~i.sym -> compressADDI(a, b, i.imm)
          [] i.op = "LUI" /\ ~i.sym -> compressLUI(a, i.imm)
          [] i.op \in {"SLLI", "SRLI", "SRAI", "ANDI"} /\ ~i.sym ->
                compressShiftOrAndI(i.op, a, b, i.imm)
          [] i.op \in {"LW", "SW"} /\ ~i.sym -> compressLoadStore(i.op, a, b, i.imm)
          [] i.op = "JALR" /\ ~i.sym -> compressJALR(a, b, i.imm)
          [] OTHER -> <<>>

-----------------------------------------------------------------------------
(***************************************************************************)
(* The reference.  A form is encoded into its fields and decoded again:    *)
(* immediates lose the bits the field does not have, three-bit registers   *)
(* become x8 to x15, and some encodings mean something else or nothing.    *)
(***************************************************************************)
ZExt(n, bits) == n % 2 ^ bits
SExt(n, bits) == ((n + 2 ^ (bits - 1)) % 2 ^ bits) - 2 ^ (bits - 1)
CReg(r) == 8 + (r % 8)

Illegal == Make("illegal", <<>>, 0)

\* The instruction that the encoded form executes.
Expand(f) ==
    LET a == f.regs[1]
        b == f.regs[2]
        n == f.imm
    IN  CASE f.op = "C_NOP" -> Make("ADDI", <<0, 0>>, 0)
          [] f.op = "C_ADDI16SP" ->
                IF n = 0 THEN Illegal
                ELSE Make("ADDI", <<2, 2>>, 16 * SExt(n \div 16, 6))
          [] f.op = "C_ADDI4SPN" ->
                IF n = 0 THEN Illegal
                ELSE Make("ADDI", <<CReg(a), 2>>, 4 * ZExt(n \div 4, 8))
          [] f.op = "C_LI" -> Make("ADDI", <<a, 0>>, SExt(n, 6))
          [] f.op = "C_ADDI" -> Make("ADDI", <<a, a>>, SExt(n, 6))
          [] f.op = "C_MV" -> IF b = 0 THEN Make("JALR", <<0, a>>, 0)
                              ELSE Make("ADD", <<a, 0, b>>, 0)
          [] f.op = "C_LUI" ->
                IF n = 0 THEN Illegal
                ELSE IF a = 2 THEN Make("ADDI", <<2, 2>>, 16 * SExt(n, 6))
                ELSE Make("LUI", <<a>>, SExt(n, 6) % 2 ^ 20)
          [] f.op = "C_SLLI" -> Make("SLLI", <<a, a>>, ZExt(n, 5))
          [] f.op = "C_SRLI" -> Make("SRLI", <<CReg(a), CReg(a)>>, ZExt(n, 5))
          [] f.op = "C_SRAI" -> Make("SRAI", <<CReg(a), CReg(a)>>, ZExt(n, 5))
          [] f.op = "C_ANDI" -> Make("ANDI", <<CReg(a), CReg(a)>>, SExt(n, 6))
          [] f.op = "C_ADD" -> IF b = 0 THEN Make("JALR", <<1, a>>, 0)
                               ELSE Make("ADD", <<a, a, b>>, 0)
          [] f.op = "C_SUB" -> Make("SUB", <<CReg(a), CReg(a), CReg(b)>>, 0)
          [] f.op = "C_XOR" -> Make("XOR", <<CReg(a), CReg(a), CReg(b)>>, 0)
          [] f.op = "C_OR" -> Make("OR", <<CReg(a), CReg(a), CReg(b)>>, 0)
          [] f.op = "C_AND" -> Make("AND", <<CReg(a), CReg(a), CReg(b)>>, 0)
          [] f.op = "C_LWSP" -> IF a = 0 THEN Illegal
                                ELSE Make("LW", <<a, 2>>, 4 * ZExt(n \div 4, 6))
          [] f.op = "C_SWSP" -> Make("SW", <<a, 2>>, 4 * ZExt(n \div 4, 6))
          [] f.op = "C_LW" -> Make("LW", <<CReg(a), CReg(b)>>, 4 * ZExt(n \div 4, 5))
          [] f.op = "C_SW" -> Make("SW", <<CReg(a), CReg(b)>>, 4 * ZExt(n \div 4, 5))
          [] f.op = "C_JR" -> Make("JALR", <<0, a>>, 0)
          [] f.op = "C_EBREAK" -> Make("EBREAK", <<>>, 0)

\* x times register r, as coefficients; x0 contributes nothing.
Times(x, r) == [q \in 1 .. 31 |-> IF q = r THEN x ELSE 0]
Plus(f, g) == [q \in 1 .. 31 |-> f[q] + g[q]]

\* What an instruction computes, such that equal effects are the same effect.
Value(i) ==
    CASE i.op = "ADDI" -> <<"sum", Times(1, i.regs[2]), i.imm>>
      [] i.op = "ADD" -> <<"sum", Plus(Times(1, i.regs[2]), Times(1, i.regs[3])), 0>>
      [] i.op = "SUB" -> <<"sum", Plus(Times(1, i.regs[2]), Times(-1, i.regs[3])), 0>>
      [] i.op \in {"XOR", "OR", "AND"} -> <<i.op, {i.regs[2], i.regs[3]}>>
      [] OTHER -> <<i.op, Tail(i.regs), i.imm>>

Effect(i) ==
    CASE i.op \in {"SW", "JALR"} -> <<i.op, i.regs, i.imm>>
      [] i.op \in {"EBREAK", "illegal"} -> <<i.op>>
      [] i.op = "LW" -> <<i.regs[1], Value(i)>>   \* a load of x0 still loads
      [] OTHER -> IF i.regs[1] = 0 THEN <<"nothing">> ELSE <<i.regs[1], Value(i)>>

\* The number of operands of an RVC form in RISCVInstrInfoC.td; a result that
\* is also a source is listed twice.
Operands(op) ==
    CASE op \in {"C_NOP", "C_EBREAK"} -> 0
      [] op = "C_JR" -> 1
      [] op \in {"C_LI", "C_LUI", "C_MV"} -> 2
      [] OTHER -> 3

\* The number of operands that Make put into f.
Given(f) ==
    Len(f.regs) + IF f.op \in {"C_NOP", "C_EBREAK", "C_JR", "C_MV", "C_ADD", "C_SUB",
                               "C_XOR", "C_OR", "C_AND"} THEN 0 ELSE 1
=============================================================================
