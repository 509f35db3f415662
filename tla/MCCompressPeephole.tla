-------------------------- MODULE MCCompressPeephole --------------------------
(***************************************************************************)
(* Functions of one instruction: every opcode of the table with registers  *)
(* of every class and immediates at both ends of every field.  Functions   *)
(* of five instructions and a reach of 8 bytes: the distance between the   *)
(* ends is 8 to 16, on both sides of what C.J reaches, and a jump may come *)
(* into reach only after two others, or an addition, were shrunk.          *)
(***************************************************************************)
EXTENDS CompressPeephole

CONSTANT Length

Inst(op, regs, imm, sym, size, target) ==
    [op |-> op, regs |-> regs, imm |-> imm, sym |-> sym, size |-> size, target |-> target]

Plain(op, regs, imm) == Inst(op, regs, imm, FALSE, 4, 0)

Regs == {0, 1, 2, 7, 8, 9, 15, 16}

\* The ends of the fields, and one beyond each.
Imms == {0, 1, 2, 3, 4, 16, 30, 31, 32, 33, 124, 126, 128, 252, 256, 496, 500, 512,
         1020, 1022, 1024, -1, -4, -16, -32, -33, -512, -528}

Table ==
    {Plain(op, <<a, b>>, n) : op \in {"ADDI", "ANDI", "LW", "SW", "JALR"},
                              a \in Regs, b \in Regs, n \in Imms}
    \cup {Plain(op, <<a, b>>, n) : op \in {"SLLI", "SRLI", "SRAI"},
                                   a \in Regs, b \in Regs, n \in {0, 1, 30, 31}}
    \cup {Plain("LUI", <<a>>, n) : a \in Regs, n \in {0, 1, 31, 32, 33, 2 ^ 20 - 32, 2 ^ 20 - 1}}
    \cup {Plain(op, <<a, b, c>>, 0) : op \in {"ADD", "SUB", "XOR", "OR", "AND"},
                                      a \in Regs, b \in Regs, c \in Regs}
    \cup {Plain("EBREAK", <<>>, 0), Plain("JAL", <<0>>, 0), Inst("ADDI", <<8, 8>>, 0, TRUE, 4, 0),
          Inst("LUI", <<8>>, 0, TRUE, 4, 0)}

Jumping ==
    {Plain("ADDI", <<8, 0>>, 1), Plain("JAL", <<1>>, 0)}
    \cup {Inst("JAL", <<0>>, 0, FALSE, 4, t) : t \in 1 .. Length}

MCFunctions == [1 .. 1 -> Table] \cup [1 .. Length -> Jumping]
=============================================================================
