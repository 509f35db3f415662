------------------------- MODULE MCElimUnusedFuncs -------------------------
(***************************************************************************)
(* Three functions at addresses 0, 2 and 4 in every overlap their sizes    *)
(* allow (disjoint, nested, chained, in two sections), every pair of       *)
(* references, at most one function with a flag of each class the pass     *)
(* treats differently.                                                     *)
(***************************************************************************)
EXTENDS ElimUnusedFuncs

MCSection == {"text", "init"}

\* One flag of each kind of treatment by isConservativeRoot / canClearBody.
MCFlag == {"notSimple", "pseudo", "jumpTables", "noInstructions"}

FlagMaps == {[f \in Func |-> {}]} \cup
            {[f \in Func |-> IF f = g THEN {x} ELSE {}] : g \in Func, x \in MCFlag}

Pairs == {r \in Func \X Func : r[1] # r[2]}

RefSets == {rs \in SUBSET Pairs : Cardinality(rs) <= 2}

MCBinaries ==
    {b \in
       {[addr |-> [f \in Func |-> 2 * (f - 1)],
         size |-> [f \in Func |-> CASE f = 1 -> s1 [] f = 2 -> s2 [] OTHER -> 1],
         section |-> [f \in Func |-> IF f = 3 THEN sec ELSE "text"],
         flags |-> fl,
         insts |-> IF kind = "reloc" THEN {} ELSE rs,
         control |-> IF kind = "reloc" THEN rs
                     ELSE {r \in rs : fl[r[1]] = {"notSimple"}},
         taken |-> tk, entries |-> {e}] :
           s1 \in {0, 2, 3, 5}, s2 \in {2, 3}, sec \in MCSection,
           fl \in FlagMaps, rs \in RefSets, kind \in {"inst", "reloc"},
           tk \in {{}, {3}}, e \in {1, 2}} :
     WellFormed(b)}
=============================================================================
