---------------------------- MODULE MCTailMerge ----------------------------
(***************************************************************************)
(* A first block that only jumps, also to itself, and four blocks that     *)
(* return, hot and cold, with and without a profile: two groups of two,    *)
(* groups of three and four, suffixes that are the whole block, inside one *)
(* another, as long as a branch, and held up by a call.                    *)
(***************************************************************************)
EXTENDS TailMerge

MCSize == [i \in {"a", "b", "call", "ret"} |-> IF i \in {"a", "ret"} THEN 2 ELSE 4]

Codes == {<<"a", "ret">>, <<"b", "ret">>, <<"a", "b", "ret">>, <<"b", "b", "ret">>,
          <<"call", "b", "ret">>, <<"a", "a", "b", "ret">>}

Blk(code, succ, cold, count, pinned) ==
    [code |-> code, succ |-> succ, cold |-> cold, count |-> count, pinned |-> pinned]

Hot == {Blk(c, 0, FALSE, 0, FALSE) : c \in Codes}
       \cup {Blk(c, 0, FALSE, 1, FALSE) : c \in {<<"b", "ret">>, <<"a", "b", "ret">>}}
       \cup {Blk(<<"b", "ret">>, 0, FALSE, 0, TRUE)}
Cold == {Blk(c, 0, TRUE, 0, FALSE) : c \in {<<"b", "ret">>, <<"a", "b", "ret">>}}
Returning == Hot \cup Cold

\* Hot blocks come first.
MCFunctions ==
    {<<Blk(<<"a">>, s, FALSE, 0, TRUE)>> \o f :
        s \in {1, 2, 4},
        f \in {g \in [1 .. 4 -> Returning] :
                 \A m, n \in 1 .. 4 : m < n /\ g[m].cold => g[n].cold}}
=============================================================================
