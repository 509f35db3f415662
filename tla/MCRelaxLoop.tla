---------------------------- MODULE MCRelaxLoop ----------------------------
(***************************************************************************)
(* Texts of up to three accesses, calls and paddings before two data       *)
(* sections, with and without .sdata.  Some accesses and calls must not be *)
(* relaxed.                                                                *)
(***************************************************************************)
EXTENDS RelaxLoop

D(n, s, a) == [name |-> n, size |-> s, align |-> a]

MCData == {
    << D(".sdata", 3, 1), D(".bss", 7, 4) >>,
    << D(".data", 6, 2), D(".sdata", 2, 4) >>,
    << D(".data", 3, 1), D(".bss", 7, 8) >> }

\* lui and the instruction that uses it, both with the same address.
Access(s, o, b) ==
    << [kind |-> "HI20", at |-> 0, sec |-> s, off |-> o, relax |-> b],
       [kind |-> "LO12_I", at |-> 0, sec |-> s, off |-> o, relax |-> b] >>
Call(d, b) == << [kind |-> "CALL", at |-> 0, dest |-> d, relax |-> b] >>
Items == {Access(s, o, TRUE) : s \in 1 .. 2, o \in {0, 1, 4}}
         \cup {Access(1, 1, FALSE), Access(2, 4, FALSE)}
         \cup {Call(d, TRUE) : d \in {8, 10, 13}} \cup {Call(8, FALSE)}
         \cup {<< [kind |-> "ALIGN", at |-> 0, addend |-> 1] >>}

\* The k-th relocation lies two units behind the one before it.
Spread(f) == [k \in DOMAIN f |-> [f[k] EXCEPT !.at = 2 * (k - 1)]]

MCPrograms == [relocs : {Spread(a \o b \o c) : a \in Items, b \in Items,
                                                c \in Items \cup {<< >>}},
               size : {12, 14, 15}, data : MCData]

NoLayouts == {}
NoRefs == {}
=============================================================================
