------------------------- MODULE MCStackMemForward -------------------------
(***************************************************************************)
(* Registers 1 and 3 are stored and loaded through the stack pointer 2 and *)
(* through a copy of it; word slots at 0 and 4, byte accesses inside them. *)
(***************************************************************************)
EXTENDS StackMemForward

CONSTANT Len0

MCReg == 0 .. 3

C_LW(rd, rs, imm) == I("C_LW", rd, rs, 0, imm, 0)
LB(rd, rs, imm) == I("LB", rd, rs, 0, imm, 0)
SB(rt, rs, imm) == I("SB", 0, rs, rt, imm, 0)
BEQ == I("BEQ", 0, 0, 0, 0, 0)

Alphabet ==
    {SW(1, Sp, 0), SW(3, Sp, 0), SW(1, Sp, 4), LW(1, Sp, 0), LW(3, Sp, 0),
     C_LW(1, Sp, 0), C_LW(3, Sp, 0), SB(3, Sp, 1), LB(3, Sp, 1), ADDI(1, Sp, 4),
     LW(3, 1, -4), SW(3, 1, -4), SW(1, 3, 0), ADDI(Sp, Sp, -4),
     I("C_JAL", 1, 0, 0, 0, 0)}

With(blocks, options) == {[block |-> b, opts |-> o] : b \in blocks, o \in options}

\* Forwarding alone, on all blocks.
Forwarding == With([1 .. Len0 -> Alphabet], {{"forward"}})

\* Three instructions that overwrite no slot exactly, and of whose compressed
\* loads only the last may read back the stored register.
Middles ==
    {c \in [1 .. 3 -> Alphabet] :
        /\ \A k \in 1 .. 3 : c[k] \notin {SW(1, Sp, 0), SW(3, Sp, 0), SW(3, 1, -4)}
        /\ \A k \in 1 .. 2 : c[k] = C_LW(3, Sp, 0) => c[k + 1].op # "C_LW"
        /\ c[1] = C_LW(3, Sp, 0) => c[3].op # "C_LW"
        /\ \A j, k \in 1 .. 3 : j < k /\ IsStore(c[j]) => c[j] # c[k]}

\* The word is stored and overwritten once, and two branches end the block.
Overwritten ==
    With({<<SW(3, Sp, 0)>> \o c \o <<SW(1, Sp, 0), BEQ, BEQ>> : c \in Middles},
         {{"dse"}, {"forward", "dse"}})

SoundInputs == Forwarding \cup Overwritten
=============================================================================
