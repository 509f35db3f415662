--------------------------- MODULE MCBoltAndPack ---------------------------
(***************************************************************************)
(* Sizes 0 to 3 with a pack threshold of 1: inputs on both sides of the    *)
(* threshold, and candidates smaller than, equal to and larger than the    *)
(* original.  The stage finds no file of an earlier link, or what a link   *)
(* left that was killed while the pre-BOLT candidates were packed, while   *)
(* BOLT was writing, or whose alignment step failed.  In the last three a  *)
(* file stands under the name of BOLT's output.                            *)
(***************************************************************************)
EXTENDS BoltAndPack

Left(stale, partial) ==
    [p \in Path \ {Obj} |->
        IF p \in stale THEN [image |-> "stale", size |-> 2]
        ELSE IF p \in partial THEN [image |-> "partial", size |-> 1] ELSE Absent]

MCLeftovers ==
    {Left({}, {}), Left({Backup}, {Raw}), Left({Backup, Raw}, {}),
     Left({Backup, Raw, Aligned, CandPath("bolt", "lz4"),
           CandPath("prebolt", "legacy")}, {CandPath("prebolt", "lz4")})}
=============================================================================
