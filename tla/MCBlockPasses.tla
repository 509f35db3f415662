--------------------------- MODULE MCBlockPasses ---------------------------
(***************************************************************************)
(* Pages of 8 bytes.  Symbols 1 and 2 share page and %hi; symbol 3 shares  *)
(* their page and symbol 4 their %hi only, and symbol 4 is out of reach of *)
(* gp.  Register 5 is sp, 4 is gp.                                         *)
(***************************************************************************)
EXTENDS BlockPasses

CONSTANT Units         \* parts of a function, at least of one instruction

MCReg == 0 .. 5
MCAddr == <<17, 19, 21, 12>>

HiOf(rd, s) == I("LUI", rd, 0, 0, 0, s)
Sym(op, rd, rs, rt, s) == I(op, rd, rs, rt, 0, s)
SB(rt, rs, off) == I("SB", 0, rs, rt, off, 0)
MV(rd, rs) == I("C_MV", rd, rs, 0, 0, 0)
LI(rd) == I("C_LI", rd, 0, 0, 0, 0)
BB == I("BB", 0, 0, 0, 0, 0)
JR == I("C_JR", 0, 1, 0, 0, 0)
Other == ADDI(5, 5, 1)

\* The functions of n parts out of ps, with an end.
Of(ps, n, end) == {FlattenSeq(f) \o end : f \in [1 .. n -> ps]}
Single(is) == {<<i>> : i \in is}

Zeros == Single({SB(0, 5, off) : off \in -4 .. 0} \cup {SB(0, 1, -2), BB})

Sinks == Single({HiOf(1, 1), HiOf(1, 4), Sym("ADDI", 2, 1, 0, 1), Sym("LW", 1, 1, 0, 1),
                 Sym("LW", 2, 1, 0, 4), Sym("SW", 0, 1, 2, 1), Sym("SW", 0, 1, 1, 1),
                 LI(1), MV(3, 1), BB})

Pair(rd, s) == <<HiOf(1, s), Sym("ADDI", rd, 1, 0, s)>>

\* Pairs whose LUI is dead behind them, with instructions between them that
\* leave their registers alone, and no chain that leaves its block.
Chains == {Pair(2, 1), Pair(3, 2), Pair(2, 3), Pair(1, 4), <<Other>>,
           <<LI(1), BB, Other, Other>>, <<LI(1), BB, BB, Other>>}

Words == Single({SW(1, 5, 0), SW(0, 5, 0), LW(2, 5, 0), LW(1, 5, 0), LW(0, 5, 0),
                 LW(5, 5, 0), LW(2, 5, -4), JAL, BB})

TripleAt(imm, rd) == <<I("C_LUI", 1, 0, 0, imm, 0), I("SUB", 1, 5, 1, 0, 0), LW(rd, 1, 0)>>

\* Triples whose registers are left alone until the next one.
Triples == {TripleAt(1, 2), TripleAt(2, 3), <<LW(3, 1, 1)>>, <<ADDI(3, 3, 1)>>, <<BB>>,
            <<I("C_LUI", 2, 0, 0, 1, 0), I("SUB", 2, 5, 2, 0, 0)>>}

\* Addresses of one page that have one %hi.
Pages == Single({HiOf(1, 1), HiOf(2, 2), HiOf(2, 1), HiOf(1, 4), LUI(3, 1),
                 Sym("ADDI", 3, 1, 0, 1), MV(3, 2), BB})

SoundFunctions ==
    [p \in Passes |->
        CASE p = "push" -> Of(Zeros, Units + 1, <<JR>>)
          [] p = "gp" -> Of(Sinks, Units, <<JR>>)
          [] p = "chain" -> Of(Chains, Units, <<LI(1), JR>>)
          [] p = "memory" -> Of(Words, Units, <<JR>>)
          [] p = "relative" -> Of(Triples, Units, <<JR>>)
          [] p = "absolute" -> Of(Pages, Units, <<JR>>)]
=============================================================================
