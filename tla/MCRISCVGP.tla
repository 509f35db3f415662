----------------------------- MODULE MCRISCVGP -----------------------------
(***************************************************************************)
(* A reach of two below and one above gp, as Half = 2 gives, and up to     *)
(* four references into sections before, inside and after the reach of the *)
(* default position.                                                       *)
(***************************************************************************)
EXTENDS RISCVGP

Sec(n, a, s) == [name |-> n, addr |-> a, size |-> s]

MCLayouts == {
    << >>,
    << Sec(".text", 0, 9) >>,
    << Sec(".text", 0, 1), Sec(".sdata", 1, 3), Sec(".bss", 4, 7) >>,
    << Sec(".data", 1, 7), Sec(".sdata", 8, 2) >>,
    << Sec(".data", 0, 4), Sec(".bss", 6, 5) >> }

Data(s, a) == [type |-> "HI20", sec |-> s, addr |-> a]

MCRefLists ==
    UNION {[1 .. n -> {Data(2, a) : a \in {1, 2, 4, 5, 7, 10}}
                      \cup {Data(1, 3), [type |-> "other", sec |-> 2, addr |-> 6]}] :
             n \in 0 .. 4}
=============================================================================
