----------------------------- MODULE TailMerge -----------------------------
(***************************************************************************)
(* The pass riscv-tail-merge (bolt/lib/Passes/RISCV/RISCVTailMerge.cpp):   *)
(* blocks that end in the same instructions up to a return give them up to *)
(* a common block, the longest suffixes first.  The sources lose their     *)
(* return at once; what they do instead is settled by the order of the     *)
(* layout and by fixBranches at the end of the pass.                       *)
(***************************************************************************)
EXTENDS Integers, FiniteSets, FiniteSetsExt, SequencesExt

CONSTANTS Functions,   \* the functions: sequences of blocks in layout order
          Size,        \* the sizes of the instructions
          Return, Call, Symbolic,  \* kinds of instructions
          BranchSize,  \* of an unconditional branch
          MaxSuffix    \* riscv-tail-merge-max-suffix

\* pinned: an entry point, a landing pad or a block with a jump table.
Block == [code : Seq(DOMAIN Size), succ : Nat, cold : BOOLEAN, count : Nat,
          pinned : BOOLEAN]

\* A successor is a block of the function, or there is none.
ASSUME TailMergeAssumption ==
    /\ Functions \subseteq Seq(Block)
    /\ \A f \in Functions : \A b \in DOMAIN f : f[b].succ \in 0 .. Len(f)
    /\ BranchSize \in Nat \ {0} /\ MaxSuffix \in Nat
    /\ \A i \in DOMAIN Size : Size[i] \in Nat

VARIABLES pc,
          blocks,  \* the blocks by number; tails are added behind them
          layout,  \* their order
          branch,  \* the target of the unconditional branch at the end, or 0
          used,
          len,     \* SuffixLen
          groups,  \* Groups: the sets of blocks not yet looked at
          orig     \* the input, for the properties

vars == <<pc, blocks, layout, branch, used, len, groups, orig>>

\* getBasicBlockAfter: the next block of the same fragment, or 0.
BlockAfter(bs, l, b) ==
    LET n == CHOOSE k \in DOMAIN l : l[k] = b
    IN  IF n = Len(l) \/ bs[l[n + 1]].cold # bs[b].cold THEN 0 ELSE l[n + 1]

\* fixBranches, for blocks with one successor: a branch unless it follows.
fixBranches(bs, l) ==
    [b \in DOMAIN bs |->
        IF bs[b].succ = 0 \/ bs[b].succ = BlockAfter(bs, l, b) THEN 0 ELSE bs[b].succ]

Init ==
    /\ orig \in Functions
    /\ blocks = orig /\ layout = [n \in DOMAIN orig |-> n]
    /\ branch = fixBranches(blocks, layout)
    /\ pc = "start" /\ used = {} /\ len = 0 /\ groups = {}

isTailMergeCandidate(b) ==
    LET c == blocks[b].code
    IN  /\ c # <<>> /\ blocks[b].succ = 0 /\ ~blocks[b].pinned
        /\ Last(c) \in Return
        /\ \A n \in 1 .. Len(c) - 1 : c[n] \notin Return

Candidates == {b \in DOMAIN blocks : isTailMergeCandidate(b)}

\* The lengths to try, from the longest.
Start ==
    /\ pc = "start"
    /\ IF Cardinality(Candidates) < 2
       THEN pc' = "done" /\ len' = len
       ELSE /\ pc' = "group"
            /\ len' = Min({MaxSuffix, Max({Len(blocks[b].code) : b \in Candidates})})
    /\ UNCHANGED <<blocks, layout, branch, used, groups, orig>>

Suffix(b) == SubSeq(blocks[b].code, Len(blocks[b].code) - len + 1, Len(blocks[b].code))

\* getSuffixKey succeeds.
HasKey(b) == /\ isTailMergeCandidate(b) /\ Len(blocks[b].code) >= len
             /\ \A n \in 1 .. len : Suffix(b)[n] \notin Call \cup Symbolic

SameKey(a, b) == blocks[a].cold = blocks[b].cold /\ Suffix(a) = Suffix(b)

GroupBlocks ==
    /\ pc = "group" /\ len >= 2
    /\ groups' = LET keyed == {b \in DOMAIN orig \ used : HasKey(b)}
                 IN  {{b \in keyed : SameKey(a, b)} : a \in keyed}
    /\ pc' = "merge"
    /\ UNCHANGED <<blocks, layout, branch, used, len, orig>>

Bytes(code) == FoldSeq(LAMBDA i, sum : Size[i] + sum, 0, code)

SuffixSize(b) == Bytes(Suffix(b))

\* Seeded fault: a suffix as long as the branch that replaces it is merged.
WorthMergingLoose(g) == Cardinality(g) >= 2 /\ SuffixSize(Min(g)) >= BranchSize

\* Seeded fault: pairs are passed over.
WorthMergingThree(g) == Cardinality(g) > 2 /\ SuffixSize(Min(g)) > BranchSize

WorthMerging(g) == Cardinality(g) >= 2 /\ SuffixSize(Min(g)) > BranchSize

\* The first of the most executed blocks.
chooseFallthroughSource(g) ==
    Min({b \in g : \A a \in g : blocks[a].count <= blocks[b].count})

\* insertBasicBlocks: the tail follows the fallthrough source.
LaidOut(g, tail) ==
    InsertAt(layout, 1 + CHOOSE k \in DOMAIN layout :
                             layout[k] = chooseFallthroughSource(g), tail)

\* Seeded fault: the sources keep the first instruction of the suffix.
ErasedLess(b) == SubSeq(blocks[b].code, 1, Len(blocks[b].code) - len + 1)

\* eraseSuffix
Erased(b) == SubSeq(blocks[b].code, 1, Len(blocks[b].code) - len)

Merge ==
    /\ pc = "merge"
    /\ \E g \in groups :
          LET tail == Len(blocks) + 1
              first == Min(g)
          IN  /\ WorthMerging(g)
              /\ blocks' = Append(
                    [b \in DOMAIN blocks |->
                        IF b \in g THEN [blocks[b] EXCEPT !.code = Erased(b), !.succ = tail]
                        ELSE blocks[b]],
                    [code |-> Suffix(first), succ |-> 0, cold |-> blocks[first].cold,
                     count |-> MapThenSumSet(LAMBDA b : blocks[b].count, g),
                     pinned |-> FALSE])
              /\ layout' = LaidOut(g, tail)
              /\ used' = used \cup g
              /\ groups' = groups \ {g}
    /\ UNCHANGED <<pc, branch, len, orig>>

KeepGroup ==
    /\ pc = "merge"
    /\ \E g \in groups : ~WorthMerging(g) /\ groups' = groups \ {g}
    /\ UNCHANGED <<pc, blocks, layout, branch, used, len, orig>>

Shorten ==
    /\ pc = "merge" /\ groups = {}
    /\ len' = len - 1 /\ pc' = "group"
    /\ UNCHANGED <<blocks, layout, branch, used, groups, orig>>

\* Behind the last length.
Finish ==
    /\ pc = "group" /\ len < 2
    /\ branch' = IF used # {} THEN fixBranches(blocks, layout) ELSE branch
    /\ pc' = "done"
    /\ UNCHANGED <<blocks, layout, used, len, groups, orig>>

Done == pc = "done" /\ UNCHANGED vars

Next == Start \/ GroupBlocks \/ Merge \/ KeepGroup \/ Shorten \/ Finish \/ Done

Spec == Init /\ [][Next]_vars
-----------------------------------------------------------------------------
\* The block behind its branch or, without a branch or a return, the one that
\* happens to follow in memory.
After(bs, l, br, b) ==
    IF br[b] # 0 THEN br[b]
    ELSE IF bs[b].code # <<>> /\ Last(bs[b].code) \in Return THEN 0
    ELSE BlockAfter(bs, l, b)

\* Executed(bs, l, br)[n][b]: the instructions of the first n blocks from b on.
Executed(bs, l, br) ==
    LET run[n \in 0 .. Len(bs) + 1] ==
            [b \in 0 .. Len(bs) |->
                IF n = 0 \/ b = 0 THEN <<>>
                ELSE bs[b].code \o run[n - 1][After(bs, l, br, b)]]
    IN  run

\* The order of the layout before the pass.
InputOrder == [n \in DOMAIN orig |-> n]

(***************************************************************************)
(* Every block of the function, merged or not, still executes the same     *)
(* instructions: those of the next n blocks are executed within n + 1      *)
(* blocks, for a tail is one more, and nothing else is.                    *)
(***************************************************************************)
TraceKept ==
    pc = "done" =>
        LET was == Executed(orig, InputOrder, fixBranches(orig, InputOrder))
            is  == Executed(blocks, layout, branch)
        IN  \A b \in DOMAIN orig, n \in 0 .. Len(orig) :
                IsPrefix(is[n][b], was[n][b]) /\ IsPrefix(was[n][b], is[n + 1][b])

CodeSize(bs, br) ==
    MapThenSumSet(LAMBDA b : Bytes(bs[b].code) + IF br[b] = 0 THEN 0 ELSE BranchSize,
                  DOMAIN bs)

(***************************************************************************)
(* Merging makes the function smaller, the branches that fixBranches adds  *)
(* included: one source of each group needs none.                          *)
(***************************************************************************)
MergingPays ==
    pc = "done" /\ used # {} =>
        CodeSize(blocks, branch)
        < CodeSize(orig, fixBranches(orig, InputOrder))

\* The last n instructions of a block.
Ending(b, n) == SubSeq(orig[b].code, Len(orig[b].code) - n + 1, Len(orig[b].code))

(***************************************************************************)
(* Two candidates that were left alone do not share an ending that would   *)
(* have paid: taking the longest suffixes first hides none from the later  *)
(* lengths.                                                                *)
(***************************************************************************)
NothingLeft ==
    pc = "done" =>
        \A a, b \in {c \in DOMAIN orig \ used : isTailMergeCandidate(c)} :
            \A n \in 2 .. Min({Len(orig[a].code), Len(orig[b].code), MaxSuffix}) :
                \/ a = b \/ orig[a].cold # orig[b].cold \/ Ending(a, n) # Ending(b, n)
                \/ ~ (Bytes(Ending(a, n)) > BranchSize)
                \/ \E k \in 1 .. n : Ending(a, n)[k] \in Call \cup Symbolic

=============================================================================
