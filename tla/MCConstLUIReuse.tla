-------------------------- MODULE MCConstLUIReuse --------------------------
(***************************************************************************)
(* A page of 4 and words of 16 stand for 2^12 and 2^32, so that rounding,  *)
(* the reach of an immediate and the wrap of a word all happen.            *)
(***************************************************************************)
EXTENDS ConstLUIReuse

CONSTANT Len0          \* length of the blocks

MCReg == 0 .. 3
MCShort == -1 .. 0

BB == I("BB", 0, 0, 0, 0, 0)
Hi(rd, a) == I("LUI", rd, 0, 0, a, 1)
Lo(rd, rs, a) == I("ADDI", rd, rs, 0, a, 1)

Sym(x) == [x EXCEPT !.sym = 1]

\* Constants and addresses that are materialised, moved, added and lost, and
\* loads and stores through them.
Alphabet ==
    {LUI(1, 1), LUI(2, 1), LUI(2, 3), ADDI(1, 1, 1), ADDI(2, 2, -2), ADDI(3, 2, -1),
     Hi(1, 0), Lo(1, 1, 0), Lo(3, 1, 0), Hi(2, 1), Lo(2, 2, 1),
     I("C_MV", 3, 1, 0, 0, 0), I("ADD", 1, 3, 2, 0, 0),
     LW(3, 2, 1), LW(2, 2, 1), LW(3, 1, 0), Sym(LW(1, 1, 0)), Sym(LW(3, 1, 0)),
     SW(3, 2, 0), Sym(SW(3, 1, 0)), I("C_JR", 0, 3, 0, 0, 0), JAL, BB}

\* A smaller alphabet for longer blocks: words and bytes, and what ends the
\* knowledge of the registers.
Accesses ==
    {LUI(1, 1), LUI(2, 1), SW(3, 2, 0), I("SB", 0, 2, 3, 1, 0), I("LB", 3, 2, 0, 0, 0),
     I("JALR", 1, 2, 0, 0, 0), I("BEQ", 0, 1, 2, 0, 0), BB}

TameBlocks ==
    {b \in [1 .. Len0 -> Alphabet] \cup [1 .. Len0 + 2 -> Accesses] : Tame(b)}
=============================================================================
