----------------------------- MODULE MCCSGORFE -----------------------------
(***************************************************************************)
(* A text of six bytes with up to four symbols: functions that tile it,    *)
(* leave a gap, overlap or share a start, and labels inside them; one or   *)
(* two relocation sections, sorted or not.                                 *)
(***************************************************************************)
EXTENDS CSGORFE

F(v, n) == [func |-> TRUE, text |-> TRUE, value |-> v, size |-> n]
Label(v) == [func |-> FALSE, text |-> TRUE, value |-> v, size |-> 0]
Elsewhere == [func |-> FALSE, text |-> FALSE, value |-> 9, size |-> 0]

MCFuncs == { << F(4, 2), F(0, 2), F(2, 2) >>,    \* tile, unsorted
             << F(0, 4), F(4, 2) >>,
             << F(0, 2), F(0, 4), F(4, 2) >>,    \* an alias
             << F(0, 2), F(4, 1) >>,             \* gaps
             << F(0, 4), F(2, 4) >>,             \* overlap
             << F(1, 2), F(3, 3) >>,             \* nothing at 0
             << F(0, 6) >>,
             << F(0, 2), F(2, 5) >> }            \* beyond the text

MCSyms == {f \o g : f \in MCFuncs,
                    g \in {<< >>, << Label(1), Elsewhere >>, << Label(2), Label(5) >>,
                           << F(3, 0), Label(0) >>, << Label(6) >>}}

Offs == {<< >>, <<0>>, <<3>>, <<0, 4>>, <<1, 1, 2>>, <<1, 2, 5>>, <<2, 1>>, <<3, 0, 4>>}

MCObjects ==
    [named : {TRUE}, valid : {TRUE}, tableLast : {TRUE}, size : {6},
     syms : MCSyms, relas : {<< >>} \cup {<<a>> : a \in Offs}
                            \cup {<<a, b>> : a \in Offs, b \in Offs},
     others : {1}]
    \cup [named : BOOLEAN, valid : BOOLEAN, tableLast : BOOLEAN, size : {6},
          syms : {<< F(0, 3), F(3, 3) >>}, relas : {<< >>}, others : {0}]
=============================================================================
