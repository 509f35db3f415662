-------------------------- MODULE TailMergeProofs --------------------------
(***************************************************************************)
(* Proofs about tail merging for every function: every block still         *)
(* executes the same instructions, no pair of endings that would have paid *)
(* is left, and what was merged made the function smaller.                 *)
(***************************************************************************)
EXTENDS TailMerge, WellFoundedInduction, FiniteSetTheorems, SequenceTheorems, TLAPS

\* A set of natural numbers that is not empty has a least element.
LEMMA LeastNat ==
    ASSUME NEW S \in SUBSET Nat, S # {}
    PROVE  \E m \in S : \A k \in S : m <= k
<1> DEFINE R == OpToRel(<, Nat)
<1>1. PICK m \in S : \A k \in S : ~ (<<k, m>> \in R)
  <2>1. IsWellFoundedOn(R, Nat)
    BY NatLessThanWellFounded
  <2> HIDE DEF R
  <2> QED BY <2>1, WFMin
<1>2. \A k \in S : k < m => <<k, m>> \in R
  BY DEF OpToRel
<1> HIDE DEF R
<1>3. \A k \in S : ~ (k < m)
  BY <1>1, <1>2
<1>4. \A k \in S : k \in Nat
  OBVIOUS
<1> QED BY <1>3, <1>4

\* One that has an upper bound has a greatest element.
LEMMA GreatestNat ==
    ASSUME NEW n \in Nat, NEW S \in SUBSET (0 .. n), S # {}
    PROVE  \E m \in S : \A k \in S : k <= m
<1> DEFINE T == {n - k : k \in S}
<1>0. \A k \in S : k \in 0 .. n /\ n - k \in Nat
  OBVIOUS
<1>1. T \in SUBSET Nat /\ T # {}
  BY <1>0
<1>2. PICK t \in T : \A u \in T : t <= u
  BY <1>1, LeastNat
<1>3. PICK m \in S : t = n - m
  BY <1>2
<1>4. \A k \in S : k <= m
  <2> TAKE k \in S
  <2>1. t <= n - k
    BY <1>2
  <2>2. k \in Int /\ m \in Int /\ n \in Int
    BY <1>0
  <2> HIDE DEF T
  <2> QED BY <2>1, <2>2, <1>3
<1> QED BY <1>3, <1>4

\* F gives for each of 1 .. n a function on T.
Steps(F, n, T) == F \in [1 .. n -> [T -> T]]

\* f starts with base and takes these steps.
Iterates(f, F, n, T, base) ==
    /\ f \in [0 .. n -> T] /\ f[0] = base
    /\ \A i \in 1 .. n : f[i] = F[i][f[i - 1]]

\* A recursion over 1 .. n has a solution.
LEMMA IterateExists ==
    ASSUME NEW n \in Nat, NEW T, NEW base \in T, NEW F, Steps(F, n, T)
    PROVE  \E f : Iterates(f, F, n, T, base)
<1> USE DEF Steps
<1> DEFINE Sol(f, m) == /\ f \in [0 .. m -> T] /\ f[0] = base
                        /\ \A i \in 1 .. m : f[i] = F[i][f[i - 1]]
           Bad == {m \in 0 .. n : ~ \E f : Sol(f, m)}
<1>1. Bad = {}
  <2> SUFFICES ASSUME Bad # {} PROVE FALSE
    OBVIOUS
  <2>1. PICK m \in Bad : \A k \in Bad : m <= k
    <3>1. Bad \in SUBSET Nat
      OBVIOUS
    <3> HIDE DEF Bad
    <3> QED BY <3>1, LeastNat
  <2>2. CASE m = 0
    <3> DEFINE f == [i \in 0 .. 0 |-> base]
    <3>1. f \in [0 .. 0 -> T] /\ f[0] = base
      OBVIOUS
    <3>2. Sol(f, 0)
      BY <3>1
    <3> QED BY <2>1, <2>2, <3>2
  <2>3. CASE m # 0
    <3>1. m \in 1 .. n /\ m - 1 \in 0 .. n /\ m - 1 < m
      BY <2>3
    <3>2. m - 1 \notin Bad
      <4>1. ~(m <= m - 1)
        BY <3>1
      <4> HIDE DEF Bad
      <4> QED BY <4>1, <2>1
    <3>3. PICK f : Sol(f, m - 1)
      BY <3>1, <3>2
    <3> DEFINE g == [i \in 0 .. m |-> IF i < m THEN f[i] ELSE F[m][f[m - 1]]]
    <3>4. f[m - 1] \in T /\ F[m] \in [T -> T]
      BY <3>1, <3>3
    <3>5. g \in [0 .. m -> T]
      BY <3>1, <3>3, <3>4
    <3>6. g[0] = base
      BY <3>1, <3>3
    <3>7. \A i \in 1 .. m : g[i] = F[i][g[i - 1]]
      <4> TAKE i \in 1 .. m
      <4>1. CASE i = m
        BY <4>1, <3>1
      <4>2. CASE i # m
        <5>1. i \in 1 .. (m - 1) /\ i < m /\ i - 1 < m /\ i \in 0 .. m /\ i - 1 \in 0 .. m
          BY <4>2, <3>1
        <5> QED BY <5>1, <3>3
      <4> QED BY <4>1, <4>2
    <3>8. Sol(g, m)
      BY <3>5, <3>6, <3>7
    <3> QED BY <3>8, <2>1
  <2> QED BY <2>2, <2>3
<1>2. n \in 0 .. n
  OBVIOUS
<1>3. PICK f : Sol(f, n)
  BY <1>1, <1>2
<1>4. Iterates(f, F, n, T, base)
  BY <1>3 DEF Iterates
<1> QED BY <1>4

\* Among finitely many arguments there is one where a function is greatest.
LEMMA GreatestValue ==
    ASSUME NEW n \in Nat, NEW f \in [1 .. n -> Nat],
           NEW S \in SUBSET (1 .. n), S # {}
    PROVE  \E b \in S : \A a \in S : f[a] <= f[b]
<1> DEFINE Bounds(m, k) == m \in Nat /\ \A i \in 1 .. k : f[i] <= m
           Bad == {k \in 0 .. n : ~ \E m : Bounds(m, k)}
<1>1. Bad = {}
  <2> SUFFICES ASSUME Bad # {} PROVE FALSE
    OBVIOUS
  <2>1. PICK k \in Bad : \A j \in Bad : k <= j
    <3>1. Bad \in SUBSET Nat
      OBVIOUS
    <3> QED BY <3>1, LeastNat
  <2>2. Bounds(0, 0)
    OBVIOUS
  <2>3. k \in 1 .. n
    <3>1. k \in 0 .. n /\ ~ \E m : Bounds(m, k)
      BY <2>1
    <3> HIDE DEF Bounds, Bad
    <3> QED BY <3>1, <2>2
  <2>4. PICK m : Bounds(m, k - 1)
    <3>1. k - 1 \in 0 .. n /\ ~ (k <= k - 1)
      BY <2>3
    <3>2. k - 1 \notin Bad
      BY <2>1, <3>1
    <3> HIDE DEF Bounds
    <3> QED BY <3>1, <3>2
  <2>5. f[k] \in Nat
    BY <2>3
  <2>6. \E r : Bounds(r, k)
    <3>1. CASE f[k] <= m
      <4>1. \A i \in 1 .. k : i = k \/ i \in 1 .. k - 1
        BY <2>3
      <4>2. \A i \in 1 .. k : f[i] <= m
        BY <4>1, <2>4, <3>1
      <4>3. Bounds(m, k)
        BY <4>2, <2>4
      <4> QED BY <4>3
    <3>2. CASE m <= f[k]
      <4>1. \A i \in 1 .. k : i = k \/ i \in 1 .. k - 1
        BY <2>3
      <4>2. \A i \in 1 .. k - 1 : f[i] \in Nat
        BY <2>3
      <4>3. \A i \in 1 .. k - 1 : f[i] <= f[k]
        BY <4>2, <2>4, <2>5, <3>2
      <4>4. \A i \in 1 .. k : f[i] <= f[k]
        BY <4>1, <4>3, <2>5
      <4>5. Bounds(f[k], k)
        BY <4>4, <2>5
      <4> QED BY <4>5
    <3> QED BY <2>4, <2>5, <3>1, <3>2
  <2> HIDE DEF Bounds
  <2> QED BY <2>1, <2>6
<1>2. PICK m : Bounds(m, n)
  <2>1. n \in 0 .. n
    OBVIOUS
  <2> HIDE DEF Bounds
  <2> QED BY <1>1, <2>1
<1> DEFINE T == {f[a] : a \in S}
<1>3. T \in SUBSET (0 .. m) /\ T # {} /\ m \in Nat
  <2>1. m \in Nat
    BY <1>2
  <2>2. \A a \in S : f[a] \in Nat /\ f[a] <= m
    BY <1>2
  <2>3. \A a \in S : f[a] \in 0 .. m
    BY <2>1, <2>2
  <2>4. T # {}
    OBVIOUS
  <2> QED BY <2>1, <2>3, <2>4
<1>4. PICK t \in T : \A u \in T : u <= t
  <2> HIDE DEF T
  <2> QED BY <1>3, GreatestNat
<1> QED BY <1>4

Instr == DOMAIN Size

Code == Seq(Instr)

Unused == DOMAIN orig \ used

IsSequence(s) == \E S : s \in Seq(S)

\* isTailMergeCandidate on the input.
Candidate(b) ==
    LET c == orig[b].code
    IN  /\ c # <<>> /\ orig[b].succ = 0 /\ ~orig[b].pinned
        /\ Last(c) \in Return
        /\ \A n \in 1 .. Len(c) - 1 : c[n] \notin Return

Returns(code) == code # <<>> /\ Last(code) \in Return

\* HasKey on the input.
Keyed(b) == /\ Candidate(b) /\ Len(orig[b].code) >= len
            /\ \A n \in 1 .. len : Ending(b, len)[n] \notin Call \cup Symbolic

\* SameKey on the input.
Alike(a, b) == orig[a].cold = orig[b].cold /\ Ending(a, len) = Ending(b, len)

\* The endings of length n of two blocks are not to be merged.
Apart(a, b, n) ==
    \/ a = b \/ orig[a].cold # orig[b].cold \/ Ending(a, n) # Ending(b, n)
    \/ ~ (Bytes(Ending(a, n)) > BranchSize)
    \/ \E k \in 1 .. n : Ending(a, n)[k] \in Call \cup Symbolic

Pair(a, b, n) ==
    /\ a \in Unused /\ b \in Unused /\ Candidate(a) /\ Candidate(b)
    /\ n <= Len(orig[a].code) /\ n <= Len(orig[b].code) /\ n <= MaxSuffix

\* Every pair that is left was looked at with this length.
Tried(n) == \A a, b : Pair(a, b, n) => Apart(a, b, n)

(***************************************************************************)
(* The inductive invariant: its types, what the unused blocks, the sources *)
(* and the tails are, the order of the layout, the branches, and what the  *)
(* search has seen.                                                        *)
(***************************************************************************)
Types ==
    /\ orig \in Functions /\ used \subseteq DOMAIN orig /\ len \in Int
    /\ pc \in {"start", "group", "merge", "done"}
    /\ IsSequence(blocks) /\ Len(blocks) >= Len(orig)
    /\ \A b \in DOMAIN blocks : /\ blocks[b].code \in Code
                                /\ blocks[b].succ \in 0 .. Len(blocks)

UnusedKept == \A b \in Unused : blocks[b] = orig[b]

ColdKept == \A b \in DOMAIN orig : blocks[b].cold = orig[b].cold

Tails ==
    \A t \in DOMAIN blocks \ DOMAIN orig : blocks[t].succ = 0 /\ Returns(blocks[t].code)

\* What a source lost is in its tail, the return included.
SourcesMoved ==
    \A b \in used :
        /\ Candidate(b)
        /\ blocks[b].succ \in DOMAIN blocks \ DOMAIN orig
        /\ orig[b].code = blocks[b].code \o blocks[blocks[b].succ].code
        /\ \A n \in DOMAIN blocks[b].code : blocks[b].code[n] \notin Return

\* Every block is in the layout once.
LayoutOf(l, bs) ==
    /\ l \in Seq(DOMAIN bs)
    /\ \A m, n \in DOMAIN l : l[m] = l[n] => m = n
    /\ \A b \in DOMAIN bs : \E n \in DOMAIN l : l[n] = b

\* Tails are laid out behind sources only.
NextKept ==
    \A b \in Unused : BlockAfter(blocks, layout, b) = BlockAfter(orig, InputOrder, b)

Branches ==
    /\ pc # "done" => branch = fixBranches(orig, InputOrder)
    /\ pc = "done" => branch = fixBranches(blocks, layout)
    /\ used = {} => blocks = orig /\ layout = InputOrder

GroupsInv ==
    /\ pc # "merge" => groups = {}
    /\ pc = "merge" => len >= 2
    /\ \A g \in groups : /\ g # {} /\ g \subseteq Unused
                         /\ \A a \in g : Keyed(a)
                         /\ \A a, b \in g : Alike(a, b)
    /\ \A g, h \in groups : g = h \/ g \cap h = {}

Search ==
    /\ pc = "start" => used = {}
    /\ pc \in {"group", "merge"} => \A n \in Nat : n > len /\ n >= 2 => Tried(n)
    /\ pc = "merge" => \A a, b : Pair(a, b, len) =>
                          Apart(a, b, len) \/ \E g \in groups : a \in g /\ b \in g
    /\ pc = "done" => \A n \in Nat : n >= 2 => Tried(n)

IInv == /\ Types /\ UnusedKept /\ ColdKept /\ Tails /\ SourcesMoved
        /\ LayoutOf(layout, blocks) /\ NextKept /\ Branches /\ GroupsInv /\ Search
-----------------------------------------------------------------------------
(***************************************************************************)
(* Shapes.                                                                 *)
(***************************************************************************)
\* The input is a sequence of blocks whose successors are in it.
LEMMA InputShape ==
    ASSUME orig \in Functions
    PROVE  /\ orig \in Seq(Block) /\ Len(orig) \in Nat /\ DOMAIN orig = 1 .. Len(orig)
           /\ \A b \in DOMAIN orig : /\ orig[b] \in Block /\ orig[b].code \in Code
                                     /\ Len(orig[b].code) \in Nat /\ orig[b].count \in Nat
                                     /\ orig[b].succ \in 0 .. Len(orig)
<1>1. orig \in Seq(Block) /\ \A b \in DOMAIN orig : orig[b].succ \in 0 .. Len(orig)
  BY TailMergeAssumption
<1>2. Len(orig) \in Nat /\ DOMAIN orig = 1 .. Len(orig)
  BY <1>1
<1>3. \A b \in DOMAIN orig : orig[b] \in Block
  BY <1>1, <1>2
<1>4. \A b \in DOMAIN orig : orig[b].code \in Code /\ orig[b].count \in Nat
  BY <1>3 DEF Block, Code, Instr
<1>5. \A c \in Code : Len(c) \in Nat
  BY DEF Code
<1> QED BY <1>1, <1>2, <1>3, <1>4, <1>5

\* The blocks are numbered; those of the input come first.
LEMMA BlocksShape ==
    ASSUME Types
    PROVE  /\ Len(blocks) \in Nat /\ DOMAIN blocks = 1 .. Len(blocks)
           /\ DOMAIN orig \subseteq DOMAIN blocks
<1>1. PICK S : blocks \in Seq(S)
  BY DEF Types, IsSequence
<1>2. Len(blocks) \in Nat /\ DOMAIN blocks = 1 .. Len(blocks)
  BY <1>1
<1>3. Len(orig) \in Nat /\ DOMAIN orig = 1 .. Len(orig) /\ Len(blocks) >= Len(orig)
  BY InputShape DEF Types
<1> QED BY <1>2, <1>3

\* In a layout that has every block once, the next block is at the next position.
LEMMA NextPosition ==
    ASSUME NEW bs, NEW l, LayoutOf(l, bs), NEW n \in DOMAIN l
    PROVE  BlockAfter(bs, l, l[n]) =
             IF n = Len(l) \/ bs[l[n + 1]].cold # bs[l[n]].cold THEN 0 ELSE l[n + 1]
<1>1. (CHOOSE k \in DOMAIN l : l[k] = l[n]) = n
  BY DEF LayoutOf
<1> QED BY <1>1 DEF BlockAfter

\* The layout of the input has every block once.
LEMMA InputLayout ==
    ASSUME orig \in Functions
    PROVE  LayoutOf(InputOrder, orig)
<1>1. Len(orig) \in Nat /\ DOMAIN orig = 1 .. Len(orig)
  BY InputShape
<1>2. InputOrder \in Seq(DOMAIN orig) /\ DOMAIN InputOrder = DOMAIN orig
  BY <1>1 DEF InputOrder
<1>3. \A n \in DOMAIN orig : InputOrder[n] = n
  BY DEF InputOrder
<1> QED BY <1>2, <1>3 DEF LayoutOf

\* What the pass asks of an unused block it could have asked of the input.
LEMMA UnusedSame ==
    ASSUME UnusedKept, NEW b \in Unused
    PROVE  /\ blocks[b] = orig[b]
           /\ isTailMergeCandidate(b) <=> Candidate(b)
           /\ Suffix(b) = Ending(b, len)
           /\ HasKey(b) <=> Keyed(b)
<1>1. blocks[b] = orig[b]
  BY DEF UnusedKept
<1>2. isTailMergeCandidate(b) <=> Candidate(b)
  BY <1>1 DEF isTailMergeCandidate, Candidate
<1>3. Suffix(b) = Ending(b, len)
  BY <1>1 DEF Suffix, Ending
<1> QED BY <1>1, <1>2, <1>3 DEF HasKey, Keyed

\* A finite set with two different elements has at least two.
LEMMA TwoIn ==
    ASSUME NEW S, IsFiniteSet(S), NEW a \in S, NEW b \in S, a # b
    PROVE  Cardinality(S) \in Nat /\ Cardinality(S) >= 2
<1>1. IsFiniteSet({a}) /\ Cardinality({a}) = 1
  BY FS_Singleton
<1>2. Cardinality({a} \cup {b}) = 2
  BY <1>1, FS_AddElement
<1>3. {a} \cup {b} \in SUBSET S
  OBVIOUS
<1>4. Cardinality({a} \cup {b}) <= Cardinality(S)
  BY <1>3, FS_Subset
<1>5. Cardinality(S) \in Nat
  BY FS_CardinalityType
<1> QED BY <1>2, <1>4, <1>5

\* Sets of blocks of the input are finite.
LEMMA BlocksFinite ==
    ASSUME orig \in Functions, NEW S \in SUBSET DOMAIN orig
    PROVE  IsFiniteSet(S) /\ S \subseteq Nat
<1>1. DOMAIN orig = 1 .. Len(orig) /\ Len(orig) \in Nat
  BY InputShape
<1>2. IsFiniteSet(1 .. Len(orig))
  BY <1>1, FS_Interval
<1>3. IsFiniteSet(S)
  BY <1>1, <1>2, FS_Subset
<1>4. S \subseteq Nat
  BY <1>1
<1> QED BY <1>3, <1>4

\* The first block of a group is one of it.
LEMMA FirstIn ==
    ASSUME orig \in Functions, NEW S \in SUBSET DOMAIN orig, S # {}
    PROVE  Min(S) \in S
<1>1. S \in SUBSET Nat
  BY BlocksFinite
<1>2. \E m \in S : \A k \in S : m <= k
  BY <1>1, LeastNat
<1> QED BY <1>2 DEF Min
-----------------------------------------------------------------------------
(***************************************************************************)
(* The steps that move no code.                                            *)
(***************************************************************************)
\* The input: nothing is used, and its layout and branches are its own.
LEMMA InitInv == Init => IInv
<1> SUFFICES ASSUME Init PROVE IInv
  OBVIOUS
<1>1. /\ orig \in Functions /\ blocks = orig /\ layout = InputOrder /\ used = {}
      /\ branch = fixBranches(orig, InputOrder) /\ pc = "start" /\ len = 0 /\ groups = {}
  BY DEF Init, InputOrder
<1>2. /\ orig \in Seq(Block) /\ Len(orig) \in Nat /\ DOMAIN orig = 1 .. Len(orig)
      /\ \A b \in DOMAIN orig : /\ orig[b].code \in Code
                                /\ orig[b].succ \in 0 .. Len(orig)
  BY <1>1, InputShape
<1>3. Types
  BY <1>1, <1>2 DEF Types, IsSequence
<1>4. UnusedKept /\ ColdKept /\ Tails /\ SourcesMoved /\ NextKept
  BY <1>1 DEF UnusedKept, Unused, ColdKept, Tails, SourcesMoved, NextKept
<1>5. LayoutOf(layout, blocks)
  BY <1>1, InputLayout
<1>6. Branches /\ GroupsInv /\ Search
  BY <1>1 DEF Branches, GroupsInv, Search
<1> QED BY <1>3, <1>4, <1>5, <1>6 DEF IInv

\* A step that changes no block and no place leaves all that is said of them.
LEMMA Frame ==
    ASSUME IInv, UNCHANGED <<blocks, layout, used, orig>>
    PROVE  /\ UnusedKept' /\ ColdKept' /\ Tails' /\ SourcesMoved'
           /\ LayoutOf(layout, blocks)' /\ NextKept'
           /\ len' \in Int /\ pc' \in {"start", "group", "merge", "done"} => Types'
           /\ \A n : Tried(n)' <=> Tried(n)
           /\ \A a, b, n : Pair(a, b, n)' <=> Pair(a, b, n)
           /\ \A a, b, n : Apart(a, b, n)' <=> Apart(a, b, n)
<1>1. UnusedKept' /\ ColdKept' /\ Tails'
  BY DEF IInv, UnusedKept, Unused, ColdKept, Tails
<1>2. SourcesMoved'
  BY DEF IInv, SourcesMoved, Candidate
<1>3. LayoutOf(layout, blocks)'
  BY DEF IInv, LayoutOf
<1>4. NextKept'
  BY DEF IInv, NextKept, Unused, InputOrder
<1>5. len' \in Int /\ pc' \in {"start", "group", "merge", "done"} => Types'
  BY DEF IInv, Types, IsSequence
<1>6. \A a, b, n : Pair(a, b, n)' <=> Pair(a, b, n)
  BY DEF Pair, Unused, Candidate
<1>7. \A a, b, n : Apart(a, b, n)' <=> Apart(a, b, n)
  BY DEF Apart, Ending
<1>8. \A n : Tried(n)' <=> Tried(n)
  BY <1>6, <1>7 DEF Tried
<1> QED BY <1>1, <1>2, <1>3, <1>4, <1>5, <1>6, <1>7, <1>8

\* What a pair is, on the input and on the blocks as they are.
LEMMA PairInput ==
    ASSUME IInv, NEW a, NEW b, NEW n, Pair(a, b, n)
    PROVE  /\ a \in Unused /\ b \in Unused /\ Candidate(a) /\ Candidate(b)
           /\ n <= Len(orig[a].code) /\ n <= Len(orig[b].code) /\ n <= MaxSuffix
           /\ isTailMergeCandidate(a) /\ isTailMergeCandidate(b)
           /\ a \in DOMAIN orig /\ b \in DOMAIN orig
<1>1. a \in Unused /\ b \in Unused
  BY DEF Pair
<1> QED BY <1>1, UnusedSame DEF Pair, IInv, Unused

\* The first length to try is the greatest that any pair has.
LEMMA StartInv == IInv /\ Start => IInv'
<1> SUFFICES ASSUME IInv, Start PROVE IInv'
  OBVIOUS
<1>1. /\ pc = "start" /\ UNCHANGED <<blocks, layout, branch, used, groups, orig>>
      /\ used = {} /\ groups = {} /\ orig \in Functions /\ len \in Int
      /\ blocks = orig /\ layout = InputOrder
      /\ branch = fixBranches(orig, InputOrder)
  BY DEF Start, IInv, Search, GroupsInv, Types, Branches
<1>2. Candidates \in SUBSET DOMAIN orig
  BY <1>1 DEF Candidates
<1>3. \A a, b, n : Pair(a, b, n) => a \in Candidates /\ b \in Candidates
  BY <1>1, PairInput DEF Candidates
<1>4. CASE Cardinality(Candidates) < 2
  <2>1. pc' = "done" /\ len' = len
    BY <1>4 DEF Start
  <2>2. \A n : Tried(n)
    <3> SUFFICES ASSUME NEW n, NEW a, NEW b, Pair(a, b, n) PROVE Apart(a, b, n)
      BY DEF Tried
    <3>1. a = b
      BY <1>1, <1>2, <1>3, <1>4, BlocksFinite, TwoIn
    <3> QED BY <3>1 DEF Apart
  <2>3. \A n : Tried(n)'
    BY <1>1, <2>2, Frame
  <2>4. Types'
    BY <1>1, <2>1, Frame
  <2>5. Branches'
    BY <1>1, <2>1 DEF Branches, fixBranches, BlockAfter, InputOrder
  <2>6. GroupsInv' /\ Search'
    BY <1>1, <2>1, <2>3 DEF GroupsInv, Search
  <2> QED BY <1>1, <2>4, <2>5, <2>6, Frame DEF IInv
<1>5. CASE ~ (Cardinality(Candidates) < 2)
  <2> DEFINE M == {Len(blocks[b].code) : b \in Candidates}
  <2>1. pc' = "group" /\ len' = Min({MaxSuffix, Max(M)})
    BY <1>5 DEF Start
  <2>2. Candidates # {}
    BY <1>5, FS_EmptySet
  <2>3. Len(orig) \in Nat /\ DOMAIN orig = 1 .. Len(orig)
        /\ \A b \in DOMAIN orig : Len(orig[b].code) \in Nat
    BY <1>1, InputShape
  <2>4. Max(M) \in Nat /\ \A b \in Candidates : Len(orig[b].code) <= Max(M)
    <3> DEFINE f == [b \in 1 .. Len(orig) |-> Len(orig[b].code)]
    <3>1. f \in [1 .. Len(orig) -> Nat]
      BY <2>3
    <3>2. \E b \in Candidates : \A a \in Candidates : f[a] <= f[b]
      <4> HIDE DEF f
      <4> QED BY <1>2, <2>2, <2>3, <3>1, GreatestValue
    <3>3. PICK b \in Candidates :
              \A a \in Candidates : Len(orig[a].code) <= Len(orig[b].code)
      BY <1>2, <2>3, <3>2
    <3>4. \A a \in Candidates : Len(orig[a].code) \in Nat
      BY <1>2, <2>3
    <3>5. M = {Len(orig[a].code) : a \in Candidates}
      BY <1>1
    <3>6. \E x \in M : \A y \in M : x >= y
      BY <3>3, <3>4, <3>5
    <3>7. Max(M) \in M /\ \A y \in M : Max(M) >= y
      BY <3>6 DEF Max
    <3> QED BY <3>4, <3>5, <3>7
  <2> HIDE DEF M
  <2>5. len' = MaxSuffix \/ len' = Max(M)
    <3>1. {MaxSuffix, Max(M)} \in SUBSET Nat
      BY <2>4, TailMergeAssumption
    <3>2. \E m \in {MaxSuffix, Max(M)} : \A k \in {MaxSuffix, Max(M)} : m <= k
      BY <3>1, LeastNat
    <3> QED BY <2>1, <3>2 DEF Min
  <2>6. len' \in Int
    BY <2>4, <2>5, TailMergeAssumption
  <2>7. ASSUME NEW n \in Nat, n > len' PROVE Tried(n)
    <3> SUFFICES ASSUME NEW a, NEW b, Pair(a, b, n) PROVE FALSE
      BY DEF Tried
    <3>1. n <= MaxSuffix /\ n <= Len(orig[a].code) /\ a \in Candidates
      BY <1>3, PairInput
    <3>2. n <= Max(M)
      BY <1>2, <2>3, <2>4, <3>1
    <3> QED BY <2>4, <2>5, <2>7, <3>1, <3>2, TailMergeAssumption
  <2>8. \A n \in Nat : n > len' => Tried(n)'
    BY <1>1, <2>7, Frame
  <2>9. Types'
    BY <1>1, <2>1, <2>6, Frame
  <2>10. Branches'
    BY <1>1, <2>1 DEF Branches, fixBranches, BlockAfter, InputOrder
  <2>11. GroupsInv' /\ Search'
    BY <1>1, <2>1, <2>8 DEF GroupsInv, Search
  <2> QED BY <1>1, <2>9, <2>10, <2>11, Frame DEF IInv
<1> QED BY <1>4, <1>5

\* The groups hold every unused block whose ending may be merged, with its likes.
LEMMA GroupInv == IInv /\ GroupBlocks => IInv'
<1> SUFFICES ASSUME IInv, GroupBlocks PROVE IInv'
  OBVIOUS
<1>1. /\ pc = "group" /\ len >= 2 /\ pc' = "merge"
      /\ UNCHANGED <<blocks, layout, branch, used, len, orig>>
  BY DEF GroupBlocks
<1>2. /\ UnusedKept /\ len \in Int /\ orig \in Functions
      /\ \A n \in Nat : n > len /\ n >= 2 => Tried(n)
  BY <1>1 DEF IInv, Types, Search
<1> DEFINE keyed == {b \in Unused : Keyed(b)}
           group(a) == {b \in keyed : Alike(a, b)}
<1>3. groups' = {group(a) : a \in keyed}
  <2>1. {b \in DOMAIN orig \ used : HasKey(b)} = keyed
    BY <1>2, UnusedSame DEF Unused
  <2>2. \A a, b \in keyed : SameKey(a, b) <=> Alike(a, b)
    BY <1>2, UnusedSame DEF SameKey, Alike
  <2>3. \A a \in keyed : {b \in keyed : SameKey(a, b)} = group(a)
    BY <2>2
  <2> QED BY <2>1, <2>3 DEF GroupBlocks
<1>4. \A b : Keyed(b)' <=> Keyed(b)
  BY <1>1 DEF Keyed, Candidate, Ending
<1>5. \A a, b : Alike(a, b)' <=> Alike(a, b)
  BY <1>1 DEF Alike, Ending
<1>6. Unused' = Unused
  BY <1>1 DEF Unused
<1>7. Types'
  BY <1>1, <1>2, Frame
<1>8. Branches'
  BY <1>1 DEF IInv, Branches, InputOrder
<1>9. GroupsInv'
  <2>1. ASSUME NEW g \in groups' PROVE
          /\ g # {} /\ g \subseteq Unused /\ \A a \in g : Keyed(a)
          /\ \A a, b \in g : Alike(a, b)
    <3>1. PICK a \in keyed : g = group(a)
      BY <1>3
    <3>2. a \in g
      BY <3>1 DEF Alike
    <3> QED BY <3>1, <3>2 DEF Alike
  <2>2. ASSUME NEW g \in groups', NEW h \in groups', g \cap h # {} PROVE g = h
    <3>1. PICK a \in keyed, b \in keyed : g = group(a) /\ h = group(b)
      BY <1>3
    <3>2. PICK c \in keyed : Alike(a, c) /\ Alike(b, c)
      BY <2>2, <3>1
    <3>3. \A d : Alike(a, d) <=> Alike(b, d)
      BY <3>2 DEF Alike
    <3> QED BY <3>1, <3>3
  <2> HIDE DEF keyed, group
  <2> QED BY <1>1, <1>4, <1>5, <1>6, <2>1, <2>2 DEF GroupsInv
<1>10. Search'
  <2>1. ASSUME NEW a, NEW b, Pair(a, b, len) PROVE
          Apart(a, b, len) \/ \E g \in groups' : a \in g /\ b \in g
    <3> SUFFICES ASSUME ~ Apart(a, b, len) PROVE \E g \in groups' : a \in g /\ b \in g
      OBVIOUS
    <3>1. /\ a \in Unused /\ b \in Unused /\ Candidate(a) /\ Candidate(b)
          /\ len <= Len(orig[a].code) /\ len <= Len(orig[b].code)
          /\ a \in DOMAIN orig /\ b \in DOMAIN orig
      BY <2>1, PairInput
    <3>2. Alike(a, b) /\ \A k \in 1 .. len : Ending(a, len)[k] \notin Call \cup Symbolic
      BY DEF Apart, Alike
    <3>3. \A k \in 1 .. len : Ending(b, len)[k] \notin Call \cup Symbolic
      BY <3>2 DEF Alike
    <3>4. Len(orig[a].code) \in Nat /\ Len(orig[b].code) \in Nat
      BY <1>2, <3>1, InputShape
    <3>5. Keyed(a) /\ Keyed(b)
      BY <1>2, <3>1, <3>2, <3>3, <3>4 DEF Keyed
    <3>6. a \in group(a) /\ b \in group(a) /\ a \in keyed
      BY <3>1, <3>2, <3>5 DEF Alike
    <3> QED BY <1>3, <3>6
  <2> HIDE DEF keyed, group
  <2>2. \A a, b : Pair(a, b, len)' =>
            Apart(a, b, len)' \/ \E g \in groups' : a \in g /\ b \in g
    <3>1. \A a, b : Pair(a, b, len)' <=> Pair(a, b, len)
      BY <1>1 DEF Pair, Unused, Candidate
    <3>2. \A a, b : Apart(a, b, len)' <=> Apart(a, b, len)
      BY <1>1 DEF Apart, Ending
    <3> QED BY <2>1, <3>1, <3>2
  <2>3. \A n \in Nat : n > len' => Tried(n)'
    <3>1. \A n \in Nat : n > len => n >= 2
      BY <1>1, <1>2
    <3> QED BY <1>1, <1>2, <3>1, Frame
  <2> QED BY <1>1, <1>2, <2>2, <2>3, Frame DEF Search
<1> QED BY <1>1, <1>7, <1>8, <1>9, <1>10, Frame DEF IInv

\* A group that is given up is one block, or its ending does not pay.
LEMMA KeepInv == IInv /\ KeepGroup => IInv'
<1> SUFFICES ASSUME IInv, KeepGroup PROVE IInv'
  OBVIOUS
<1>1. PICK h \in groups : ~ WorthMerging(h) /\ groups' = groups \ {h}
  BY DEF KeepGroup
<1>2. /\ pc = "merge" /\ pc' = pc
      /\ UNCHANGED <<pc, blocks, layout, branch, used, len, orig>>
  BY DEF KeepGroup
<1>3. /\ UnusedKept /\ len \in Int /\ len >= 2 /\ orig \in Functions /\ GroupsInv
      /\ \A n \in Nat : n > len /\ n >= 2 => Tried(n)
      /\ \A a, b : Pair(a, b, len) =>
             Apart(a, b, len) \/ \E g \in groups : a \in g /\ b \in g
  BY <1>2 DEF IInv, Types, Search, GroupsInv
<1>4. ASSUME NEW a \in h, NEW b \in h PROVE Apart(a, b, len)
  <2> SUFFICES ASSUME a # b PROVE ~ (Bytes(Ending(a, len)) > BranchSize)
    BY DEF Apart
  <2>1. h \in SUBSET DOMAIN orig /\ h \subseteq Unused /\ h # {}
    BY <1>3 DEF GroupsInv, Unused
  <2>2. Cardinality(h) >= 2
    BY <1>3, <2>1, BlocksFinite, TwoIn
  <2>3. Min(h) \in h
    BY <1>3, <2>1, FirstIn
  <2>4. Suffix(Min(h)) = Ending(Min(h), len)
    BY <1>3, <2>1, <2>3, UnusedSame
  <2>5. Ending(Min(h), len) = Ending(a, len)
    BY <1>3, <2>3 DEF GroupsInv, Alike
  <2> QED BY <1>1, <2>2, <2>4, <2>5 DEF WorthMerging, SuffixSize
<1>5. Types'
  BY <1>2, <1>3, Frame
<1>6. Branches'
  BY <1>2 DEF IInv, Branches, InputOrder
<1>7. GroupsInv'
  <2>1. \A b : Keyed(b)' <=> Keyed(b)
    BY <1>2 DEF Keyed, Candidate, Ending
  <2>2. \A a, b : Alike(a, b)' <=> Alike(a, b)
    BY <1>2 DEF Alike, Ending
  <2>3. Unused' = Unused
    BY <1>2 DEF Unused
  <2> QED BY <1>1, <1>2, <1>3, <2>1, <2>2, <2>3 DEF GroupsInv
<1>8. Search'
  <2>1. \A a, b : Pair(a, b, len) =>
             Apart(a, b, len) \/ \E g \in groups' : a \in g /\ b \in g
    BY <1>1, <1>3, <1>4
  <2>2. \A a, b : Pair(a, b, len)' => 
             Apart(a, b, len)' \/ \E g \in groups' : a \in g /\ b \in g
    <3>1. \A a, b : Pair(a, b, len)' <=> Pair(a, b, len)
      BY <1>2 DEF Pair, Unused, Candidate
    <3>2. \A a, b : Apart(a, b, len)' <=> Apart(a, b, len)
      BY <1>2 DEF Apart, Ending
    <3> QED BY <2>1, <3>1, <3>2
  <2>3. \A n \in Nat : n > len' => Tried(n)'
    <3>1. \A n \in Nat : n > len => n >= 2
      BY <1>3
    <3> QED BY <1>2, <1>3, <3>1, Frame
  <2> QED BY <1>2, <2>2, <2>3 DEF Search
<1> QED BY <1>2, <1>5, <1>6, <1>7, <1>8, Frame DEF IInv

\* Without groups the pairs of this length are looked at.
LEMMA ShortenInv == IInv /\ Shorten => IInv'
<1> SUFFICES ASSUME IInv, Shorten PROVE IInv'
  OBVIOUS
<1>1. /\ pc = "merge" /\ groups = {} /\ len' = len - 1 /\ pc' = "group"
      /\ UNCHANGED <<blocks, layout, branch, used, groups, orig>>
  BY DEF Shorten
<1>2. /\ len \in Int /\ len >= 2
      /\ \A n \in Nat : n > len /\ n >= 2 => Tried(n)
      /\ \A a, b : Pair(a, b, len) =>
             Apart(a, b, len) \/ \E g \in groups : a \in g /\ b \in g
  BY <1>1 DEF IInv, Types, Search, GroupsInv
<1>3. Tried(len)
  BY <1>1, <1>2 DEF Tried
<1>4. \A n \in Nat : n > len' /\ n >= 2 => Tried(n)
  <2>1. \A n \in Nat : n > len' => n = len \/ n > len
    BY <1>1, <1>2
  <2> QED BY <1>2, <1>3, <2>1
<1>5. Types'
  BY <1>1, <1>2, Frame
<1>6. Branches'
  BY <1>1 DEF IInv, Branches, InputOrder
<1>7. GroupsInv' /\ Search'
  BY <1>1, <1>4, Frame DEF GroupsInv, Search
<1> QED BY <1>1, <1>5, <1>6, <1>7, Frame DEF IInv

\* At the end the branches are those of the new layout.
LEMMA FinishInv == IInv /\ Finish => IInv'
<1> SUFFICES ASSUME IInv, Finish PROVE IInv'
  OBVIOUS
<1>1. /\ pc = "group" /\ len < 2 /\ pc' = "done"
      /\ branch' = IF used # {} THEN fixBranches(blocks, layout) ELSE branch
      /\ UNCHANGED <<blocks, layout, used, len, groups, orig>>
  BY DEF Finish
<1>2. /\ len \in Int /\ groups = {}
      /\ \A n \in Nat : n > len /\ n >= 2 => Tried(n)
      /\ branch = fixBranches(orig, InputOrder)
      /\ used = {} => blocks = orig /\ layout = InputOrder
  BY <1>1 DEF IInv, Types, Search, GroupsInv, Branches
<1>3. \A n \in Nat : n >= 2 => Tried(n)
  BY <1>1, <1>2
<1>4. Types'
  BY <1>1, <1>2, Frame
<1>5. branch' = fixBranches(blocks, layout)
  BY <1>1, <1>2
<1>6. Branches'
  BY <1>1, <1>2, <1>5 DEF Branches, InputOrder
<1>7. GroupsInv' /\ Search'
  BY <1>1, <1>2, <1>3, Frame DEF GroupsInv, Search
<1> QED BY <1>1, <1>4, <1>6, <1>7, Frame DEF IInv

\* Stuttering.
LEMMA StutterInv == IInv /\ UNCHANGED vars => IInv'
<1> SUFFICES ASSUME IInv, UNCHANGED vars PROVE IInv'
  OBVIOUS
<1>1. UNCHANGED <<pc, blocks, layout, branch, used, len, groups, orig>>
  BY DEF vars
<1>2. Types'
  BY <1>1, Frame DEF IInv, Types
<1>3. Branches'
  BY <1>1 DEF IInv, Branches, InputOrder
<1>4. GroupsInv'
  BY ZenonT(40), <1>1 DEF IInv, GroupsInv, Unused, Keyed, Candidate, Ending, Alike
<1>5. Search'
  <2>1. \A a, b : Pair(a, b, len)' <=> Pair(a, b, len)
    BY <1>1 DEF Pair, Unused, Candidate
  <2>2. \A a, b : Apart(a, b, len)' <=> Apart(a, b, len)
    BY <1>1 DEF Apart, Ending
  <2> QED BY <1>1, <2>1, <2>2, Frame DEF IInv, Search
<1> QED BY <1>1, <1>2, <1>3, <1>4, <1>5, Frame DEF IInv
-----------------------------------------------------------------------------
(***************************************************************************)
(* One merge.                                                              *)
(***************************************************************************)
\* The blocks after a merge.
Merged(g) ==
    Append([b \in DOMAIN blocks |->
                IF b \in g
                THEN [blocks[b] EXCEPT !.code = Erased(b), !.succ = Len(blocks) + 1]
                ELSE blocks[b]],
           [code |-> Suffix(Min(g)), succ |-> 0, cold |-> blocks[Min(g)].cold,
            count |-> MapThenSumSet(LAMBDA b : blocks[b].count, g), pinned |-> FALSE])

\* m is l with e behind its position p.
Behind(m, l, p, e, S) ==
    /\ m \in Seq(S \cup {e}) /\ Len(m) = Len(l) + 1
    /\ \A n \in 1 .. p : m[n] = l[n]
    /\ m[p + 1] = e
    /\ \A n \in p + 1 .. Len(l) : m[n + 1] = l[n]

\* An element inserted in a sequence moves those behind it by one place.
LEMMA InsertedBehind ==
    ASSUME NEW S, NEW l \in Seq(S), NEW p \in DOMAIN l, NEW e
    PROVE  Behind(InsertAt(l, 1 + p, e), l, p, e, S)
<1> DEFINE T == S \cup {e}
           u == SubSeq(l, 1, p)
           v == SubSeq(l, p + 1, Len(l))
           w == u \o <<e>>
<1>1. Len(l) \in Nat /\ DOMAIN l = 1 .. Len(l) /\ p \in 1 .. Len(l)
      /\ \A n \in 1 .. Len(l) : l[n] \in T
  OBVIOUS
<1>2. u \in Seq(T) /\ Len(u) = p /\ \A n \in 1 .. p : u[n] = l[n]
  <2>1. \A n \in 1 .. p : l[n] \in T
    BY <1>1
  <2> HIDE DEF T
  <2>2. /\ u \in Seq(T) /\ Len(u) = IF 1 <= p THEN p - 1 + 1 ELSE 0
        /\ \A n \in 1 .. p - 1 + 1 : u[n] = l[1 + n - 1]
    BY <1>1, <2>1, SubSeqProperties
  <2> QED BY <1>1, <2>2
<1>3. /\ v \in Seq(T) /\ Len(v) = Len(l) - p
      /\ \A n \in 1 .. Len(l) - p : v[n] = l[p + n]
  <2>1. \A n \in p + 1 .. Len(l) : l[n] \in T
    BY <1>1
  <2> HIDE DEF T
  <2>2. /\ v \in Seq(T)
        /\ Len(v) = IF p + 1 <= Len(l) THEN Len(l) - (p + 1) + 1 ELSE 0
        /\ \A n \in 1 .. Len(l) - (p + 1) + 1 : v[n] = l[p + 1 + n - 1]
    BY <1>1, <2>1, SubSeqProperties
  <2> QED BY SMTT(30), <1>1, <2>2
<1>4. <<e>> \in Seq(T) /\ Len(<<e>>) = 1 /\ <<e>>[1] = e
  OBVIOUS
<1> HIDE DEF T, u, v
<1>5. /\ w \in Seq(T) /\ Len(w) = p + 1
      /\ \A n \in 1 .. p + 1 : w[n] = IF n <= p THEN u[n] ELSE <<e>>[n - p]
  <2> DEFINE x == <<e>>
  <2>1. x \in Seq(T) /\ Len(x) = 1
    BY <1>4
  <2> HIDE DEF x
  <2>2. /\ u \o x \in Seq(T) /\ Len(u \o x) = Len(u) + Len(x)
        /\ \A n \in 1 .. Len(u) + Len(x) :
             (u \o x)[n] = IF n <= Len(u) THEN u[n] ELSE x[n - Len(u)]
    BY <1>2, <2>1, ConcatProperties
  <2>3. w = u \o x
    BY DEF x
  <2> QED BY <1>2, <2>1, <2>2, <2>3 DEF x
<1> HIDE DEF w
<1>6. /\ w \o v \in Seq(T) /\ Len(w \o v) = Len(w) + Len(v)
      /\ \A n \in 1 .. Len(w) + Len(v) :
           (w \o v)[n] = IF n <= Len(w) THEN w[n] ELSE v[n - Len(w)]
  BY <1>3, <1>5, ConcatProperties
<1>7. InsertAt(l, 1 + p, e) = w \o v
  <2>1. (1 + p) - 1 = p /\ 1 + p = p + 1
    BY <1>1
  <2>2. InsertAt(l, 1 + p, e)
          = (SubSeq(l, 1, (1 + p) - 1) \o <<e>>) \o SubSeq(l, 1 + p, Len(l))
    BY Zenon DEF InsertAt
  <2>3. InsertAt(l, 1 + p, e) = (SubSeq(l, 1, p) \o <<e>>) \o SubSeq(l, p + 1, Len(l))
    BY <2>1, <2>2, Zenon
  <2> QED BY <2>3, Zenon DEF w, u, v
<1>8. Len(w \o v) = Len(l) + 1
  BY <1>1, <1>3, <1>5, <1>6
<1>9. \A n \in 1 .. p : (w \o v)[n] = l[n]
  BY SMTT(30), <1>1, <1>2, <1>3, <1>5, <1>6
<1>10. (w \o v)[p + 1] = e
  <2>1. p + 1 \in 1 .. Len(w) + Len(v) /\ p + 1 <= Len(w) /\ ~ (p + 1 <= p) /\ (p + 1) - p = 1
    BY <1>1, <1>3, <1>5
  <2>2. p + 1 \in 1 .. p + 1
    BY <1>1
  <2>3. (w \o v)[p + 1] = w[p + 1]
    BY <1>6, <2>1
  <2>4. w[p + 1] = <<e>>[(p + 1) - p]
    BY <1>5, <2>1, <2>2, Zenon
  <2> QED BY <1>4, <2>1, <2>3, <2>4, Zenon
<1>11. ASSUME NEW n \in p + 1 .. Len(l) PROVE (w \o v)[n + 1] = l[n]
  <2>1. /\ n + 1 \in 1 .. Len(w) + Len(v) /\ ~ (n + 1 <= Len(w))
        /\ n + 1 - Len(w) = n - p /\ n - p \in 1 .. Len(l) - p /\ p + (n - p) = n
    BY <1>1, <1>3, <1>5
  <2>2. (w \o v)[n + 1] = v[n - p]
    BY <1>6, <2>1
  <2>3. v[n - p] = l[p + (n - p)]
    BY <1>3, <2>1
  <2> QED BY <2>1, <2>2, <2>3
<1> QED BY <1>6, <1>7, <1>8, <1>9, <1>10, <1>11 DEF T, Behind

\* The code of a source is cut in two: what stays has no return, the rest ends in one.
LEMMA SourceCut ==
    ASSUME IInv, pc = "merge", NEW g \in groups, NEW b \in g
    PROVE  /\ Candidate(b) /\ b \in Unused /\ b \in DOMAIN orig /\ blocks[b] = orig[b]
           /\ Erased(b) \in Code /\ Suffix(Min(g)) \in Code
           /\ Returns(Suffix(Min(g)))
           /\ orig[b].code = Erased(b) \o Suffix(Min(g))
           /\ \A n \in DOMAIN Erased(b) : Erased(b)[n] \notin Return
           /\ Min(g) \in g /\ orig[Min(g)].cold = orig[b].cold
<1> DEFINE c == orig[b].code
           m == Len(c)
<1>1. /\ orig \in Functions /\ len \in Int /\ len >= 2 /\ UnusedKept
      /\ g # {} /\ g \subseteq Unused /\ g \in SUBSET DOMAIN orig
      /\ Keyed(b) /\ \A x, y \in g : Alike(x, y)
  BY DEF IInv, Types, GroupsInv, Unused
<1>2. Candidate(b) /\ b \in Unused /\ b \in DOMAIN orig /\ blocks[b] = orig[b]
  BY <1>1, UnusedSame DEF Keyed
<1>3. Min(g) \in g
  BY <1>1, FirstIn
<1>4. Suffix(Min(g)) = Ending(b, len) /\ orig[Min(g)].cold = orig[b].cold
  <2>1. Suffix(Min(g)) = Ending(Min(g), len)
    BY <1>1, <1>3, UnusedSame
  <2> QED BY <1>1, <1>3, <2>1 DEF Alike
<1>5. c \in Code /\ m \in Nat /\ m >= len
  BY <1>1, <1>2, InputShape DEF Keyed
<1>6. Erased(b) = SubSeq(c, 1, m - len) /\ Ending(b, len) = SubSeq(c, m - len + 1, m)
  BY <1>2 DEF Erased, Ending
<1>7. c[m] \in Return /\ \A n \in 1 .. m - 1 : c[n] \notin Return
  BY <1>2 DEF Candidate, Last
<1> HIDE DEF c
<1>8. \A n \in 1 .. m : c[n] \in Instr
  BY <1>5 DEF Code
<1>9. /\ SubSeq(c, 1, m - len) \in Code
      /\ Len(SubSeq(c, 1, m - len)) = m - len
      /\ \A n \in 1 .. m - len : SubSeq(c, 1, m - len)[n] = c[n]
  <2>1. m - len \in Int /\ \A n \in 1 .. m - len : c[n] \in Instr
    BY <1>1, <1>5, <1>8
  <2>2. /\ SubSeq(c, 1, m - len) \in Seq(Instr)
        /\ Len(SubSeq(c, 1, m - len)) = IF 1 <= m - len THEN m - len - 1 + 1 ELSE 0
        /\ \A n \in 1 .. m - len - 1 + 1 : SubSeq(c, 1, m - len)[n] = c[1 + n - 1]
    BY <2>1, SubSeqProperties
  <2> QED BY <1>1, <1>5, <2>2 DEF Code
<1>10. /\ SubSeq(c, m - len + 1, m) \in Code
       /\ Len(SubSeq(c, m - len + 1, m)) = len
       /\ \A n \in 1 .. len : SubSeq(c, m - len + 1, m)[n] = c[m - len + n]
  <2>1. m - len + 1 \in Int /\ \A n \in m - len + 1 .. m : c[n] \in Instr
    BY <1>1, <1>5, <1>8
  <2>2. /\ SubSeq(c, m - len + 1, m) \in Seq(Instr)
        /\ Len(SubSeq(c, m - len + 1, m))
             = IF m - len + 1 <= m THEN m - (m - len + 1) + 1 ELSE 0
        /\ \A n \in 1 .. m - (m - len + 1) + 1 :
             SubSeq(c, m - len + 1, m)[n] = c[m - len + 1 + n - 1]
    BY <1>5, <2>1, SubSeqProperties
  <2> QED BY <1>1, <1>5, <2>2 DEF Code
<1>11. c = SubSeq(c, 1, m - len) \o SubSeq(c, m - len + 1, m)
  <2>1. c \in Seq(Instr) /\ 1 \in 1 .. Len(c) + 1 /\ m - len \in 1 - 1 .. Len(c)
        /\ m \in m - len .. Len(c)
    BY <1>1, <1>5 DEF Code
  <2>2. SubSeq(c, 1, m - len) \o SubSeq(c, m - len + 1, m) = SubSeq(c, 1, m)
    BY <2>1, ConcatAdjacentSubSeq
  <2> QED BY <2>1, <2>2, SubSeqFull
<1>12. \A n \in DOMAIN SubSeq(c, 1, m - len) : SubSeq(c, 1, m - len)[n] \notin Return
  <2>1. DOMAIN SubSeq(c, 1, m - len) = 1 .. m - len
    BY <1>9 DEF Code
  <2>2. \A n \in 1 .. m - len : n \in 1 .. m - 1
    BY <1>1, <1>5
  <2> QED BY <1>7, <1>9, <2>1, <2>2
<1>13. Returns(SubSeq(c, m - len + 1, m))
  <2>1. SubSeq(c, m - len + 1, m)[len] = c[m]
    <3>1. len \in 1 .. len /\ m - len + len = m
      BY <1>1, <1>5
    <3> QED BY <1>10, <3>1
  <2>2. SubSeq(c, m - len + 1, m) # <<>>
    <3>1. Len(<<>>) = 0 /\ len # 0
      BY <1>1
    <3> QED BY <1>10, <3>1, Zenon
  <2> QED BY <1>7, <1>10, <2>1, <2>2 DEF Returns, Last
<1> QED BY <1>2, <1>3, <1>4, <1>6, <1>9, <1>10, <1>11, <1>12, <1>13 DEF c

\* What a merge does to each block.
LEMMA MergedShape ==
    ASSUME IInv, pc = "merge", NEW g \in groups
    PROVE  /\ IsSequence(Merged(g)) /\ Len(Merged(g)) = Len(blocks) + 1
           /\ DOMAIN Merged(g) = 1 .. Len(blocks) + 1
           /\ \A b \in DOMAIN blocks \ g : Merged(g)[b] = blocks[b]
           /\ \A b \in g : /\ Merged(g)[b].code = Erased(b)
                           /\ Merged(g)[b].succ = Len(blocks) + 1
           /\ \A b \in DOMAIN blocks : Merged(g)[b].cold = blocks[b].cold
           /\ Merged(g)[Len(blocks) + 1].code = Suffix(Min(g))
           /\ Merged(g)[Len(blocks) + 1].succ = 0
           /\ Merged(g)[Len(blocks) + 1].cold = blocks[Min(g)].cold
<1> DEFINE N == Len(blocks)
           moved(b) == [blocks[b] EXCEPT !.code = Erased(b), !.succ = N + 1]
           f == [b \in DOMAIN blocks |-> IF b \in g THEN moved(b) ELSE blocks[b]]
           tail == [code |-> Suffix(Min(g)), succ |-> 0, cold |-> blocks[Min(g)].cold,
                    count |-> MapThenSumSet(LAMBDA b : blocks[b].count, g),
                    pinned |-> FALSE]
           S == {f[b] : b \in DOMAIN blocks} \cup {tail}
<1>1. N \in Nat /\ DOMAIN blocks = 1 .. N /\ DOMAIN orig \subseteq DOMAIN blocks
  BY BlocksShape DEF IInv
<1>2. tail.code = Suffix(Min(g)) /\ tail.succ = 0 /\ tail.cold = blocks[Min(g)].cold
  OBVIOUS
<1>3. \A b \in g : blocks[b] \in Block /\ b \in DOMAIN blocks
  <2>1. \A b \in g : b \in DOMAIN orig /\ blocks[b] = orig[b]
    BY SourceCut
  <2>2. orig \in Functions
    BY DEF IInv, Types
  <2> QED BY <1>1, <2>1, <2>2, InputShape
<1>4. \A b \in g : /\ moved(b).code = Erased(b) /\ moved(b).succ = N + 1
                   /\ moved(b).cold = blocks[b].cold
  BY <1>3 DEF Block
<1>5. Merged(g) = Append(f, tail)
  BY Zenon DEF Merged
<1> HIDE DEF tail, moved
<1>6. f \in Seq(S) /\ Len(f) = N /\ tail \in S
  <2>1. f \in [1 .. N -> S]
    BY <1>1
  <2> HIDE DEF f, S
  <2>2. f \in Seq(S) /\ Len(f) = N
    BY <1>1, <2>1
  <2> QED BY <2>2 DEF S
<1>7. /\ \A b \in DOMAIN blocks \ g : f[b] = blocks[b]
      /\ \A b \in g : f[b] = moved(b)
  BY <1>3
<1> HIDE DEF f, S, N
<1>8. /\ Append(f, tail) \in Seq(S) /\ Len(Append(f, tail)) = N + 1
      /\ \A b \in 1 .. N : Append(f, tail)[b] = f[b]
      /\ Append(f, tail)[N + 1] = tail
  BY <1>6, AppendProperties
<1>9. DOMAIN Append(f, tail) = 1 .. N + 1
  BY <1>8
<1>10. \A b \in DOMAIN blocks \ g : Merged(g)[b] = blocks[b]
  BY <1>1, <1>5, <1>7, <1>8
<1>11. \A b \in g : Merged(g)[b] = moved(b)
  BY <1>1, <1>3, <1>5, <1>7, <1>8
<1>12. IsSequence(Merged(g)) /\ Len(Merged(g)) = N + 1 /\ DOMAIN Merged(g) = 1 .. N + 1
       /\ Merged(g)[N + 1] = tail
  BY <1>5, <1>8, <1>9 DEF IsSequence
<1> QED BY <1>2, <1>4, <1>10, <1>11, <1>12 DEF N

\* The tail is laid out behind one of its sources.
LEMMA BehindSource ==
    ASSUME IInv, pc = "merge", NEW g \in groups
    PROVE  chooseFallthroughSource(g) \in g
<1> DEFINE best == {b \in g : \A a \in g : blocks[a].count <= blocks[b].count}
           f == [b \in 1 .. Len(orig) |-> orig[b].count]
<1>1. orig \in Functions /\ g # {} /\ g \in SUBSET DOMAIN orig
  BY DEF IInv, Types, GroupsInv, Unused
<1>2. /\ Len(orig) \in Nat /\ DOMAIN orig = 1 .. Len(orig)
      /\ \A b \in DOMAIN orig : orig[b].count \in Nat
  BY <1>1, InputShape
<1>3. f \in [1 .. Len(orig) -> Nat]
  BY <1>2
<1>4. \E b \in g : \A a \in g : f[a] <= f[b]
  <2> HIDE DEF f
  <2> QED BY <1>1, <1>2, <1>3, GreatestValue
<1>5. \A b \in g : f[b] = blocks[b].count
  BY <1>1, <1>2, SourceCut
<1>6. best # {} /\ best \in SUBSET DOMAIN orig
  BY <1>1, <1>4, <1>5
<1>7. Min(best) \in best
  <2> HIDE DEF best
  <2> QED BY <1>1, <1>6, FirstIn
<1>8. chooseFallthroughSource(g) = Min(best)
  BY Zenon DEF chooseFallthroughSource
<1> QED BY <1>7, <1>8

\* The tail comes right behind one source; no other block gets another next block.
LEMMA MergedLayout ==
    ASSUME IInv, pc = "merge", NEW g \in groups
    PROVE  /\ LayoutOf(LaidOut(g, Len(blocks) + 1), Merged(g))
           /\ \A b \in DOMAIN blocks \ g :
                 BlockAfter(Merged(g), LaidOut(g, Len(blocks) + 1), b)
                 = BlockAfter(blocks, layout, b)
           /\ BlockAfter(Merged(g), LaidOut(g, Len(blocks) + 1), chooseFallthroughSource(g))
              = Len(blocks) + 1
<1> DEFINE N == Len(blocks)
           src == chooseFallthroughSource(g)
           p == CHOOSE k \in DOMAIN layout : layout[k] = src
           l == LaidOut(g, N + 1)
           L == Len(layout)
<1>1. /\ N \in Nat /\ DOMAIN blocks = 1 .. N
      /\ LayoutOf(layout, blocks)
  BY BlocksShape DEF IInv
<1>2. src \in g /\ src \in DOMAIN blocks
  <2>1. src \in g
    BY BehindSource
  <2>2. src \in DOMAIN orig /\ DOMAIN orig \subseteq DOMAIN blocks
    BY <2>1, SourceCut, BlocksShape DEF IInv
  <2> QED BY <2>1, <2>2
<1>14. Merged(g)[N + 1].cold = Merged(g)[src].cold
  <2>1. src \in g
    BY BehindSource
  <2>2. blocks[src] = orig[src] /\ orig[Min(g)].cold = orig[src].cold /\ Min(g) \in g
    BY <2>1, SourceCut
  <2>3. blocks[Min(g)] = orig[Min(g)]
    BY <2>2, SourceCut
  <2>4. Merged(g)[N + 1].cold = blocks[Min(g)].cold /\ Merged(g)[src].cold = blocks[src].cold
    BY <1>2, MergedShape
  <2> QED BY <2>2, <2>3, <2>4
<1>3. p \in DOMAIN layout /\ layout[p] = src
  <2>1. \E k \in DOMAIN layout : layout[k] = src
    BY <1>1, <1>2 DEF LayoutOf
  <2> HIDE DEF src
  <2> QED BY <2>1
<1>4. l = InsertAt(layout, 1 + p, N + 1)
  BY Zenon DEF LaidOut
<1> HIDE DEF l, p, src
<1>5. layout \in Seq(1 .. N) /\ L \in Nat /\ DOMAIN layout = 1 .. L
  BY <1>1 DEF LayoutOf
<1>6. /\ l \in Seq((1 .. N) \cup {N + 1}) /\ Len(l) = L + 1
      /\ \A n \in 1 .. p : l[n] = layout[n]
      /\ l[p + 1] = N + 1
      /\ \A n \in p + 1 .. L : l[n + 1] = layout[n]
  <2> DEFINE R == 1 .. N
             e == N + 1
             q == InsertAt(layout, 1 + p, e)
  <2>0. layout \in Seq(R) /\ p \in DOMAIN layout
    BY <1>3, <1>5
  <2> HIDE DEF N, L, R, e
  <2>1. Behind(q, layout, p, e, R)
    BY <2>0, InsertedBehind, Zenon
  <2> HIDE DEF q
  <2>2. l = q
    BY <1>4 DEF q, e
  <2> QED BY <2>1, <2>2 DEF L, R, e, Behind
<1>7. /\ DOMAIN Merged(g) = 1 .. N + 1
      /\ \A b \in DOMAIN blocks : Merged(g)[b].cold = blocks[b].cold
  BY MergedShape
<1>8. p \in 1 .. L /\ DOMAIN l = 1 .. L + 1 /\ \A n \in 1 .. L : layout[n] \in 1 .. N
  BY <1>3, <1>5, <1>6
<1> HIDE DEF N, L
<1>9. \A m, n \in 1 .. L : layout[m] = layout[n] => m = n
  BY <1>1, <1>5 DEF LayoutOf
\* Where an element of the new layout comes from.
<1>10. \A n \in 1 .. L + 1 : \/ n \in 1 .. p /\ l[n] = layout[n] /\ n \in 1 .. L
                             \/ n = p + 1 /\ l[n] = N + 1
                             \/ /\ n - 1 \in p + 1 .. L /\ l[n] = layout[n - 1]
                                /\ n - 1 \in 1 .. L
  <2> SUFFICES ASSUME NEW n \in 1 .. L + 1, n \notin 1 .. p, n # p + 1
               PROVE n - 1 \in p + 1 .. L /\ l[n] = layout[n - 1] /\ n - 1 \in 1 .. L
    <3>1. \A n \in 1 .. p : n \in 1 .. L
      BY <1>5, <1>8
    <3> QED BY <1>6, <3>1
  <2>1. n - 1 \in p + 1 .. L /\ (n - 1) + 1 = n /\ n - 1 \in 1 .. L
    BY <1>5, <1>8
  <2> QED BY <1>6, <2>1
<1>11. LayoutOf(l, Merged(g))
  <2>1. l \in Seq(DOMAIN Merged(g))
    <3>1. (1 .. N) \cup {N + 1} = 1 .. N + 1
      BY <1>1
    <3> QED BY <1>6, <1>7, <3>1
  <2>2. ASSUME NEW m \in 1 .. L + 1, NEW n \in 1 .. L + 1, l[m] = l[n] PROVE m = n
    <3>1. \A k \in 1 .. L : layout[k] # N + 1
      BY <1>1, <1>8
    <3>2. m \in Nat /\ n \in Nat /\ p \in Nat
      BY <1>5, <1>8
    <3> QED BY <1>9, <1>10, <2>2, <3>1, <3>2
  <2>3. ASSUME NEW b \in 1 .. N + 1 PROVE \E n \in 1 .. L + 1 : l[n] = b
    <3>1. CASE b = N + 1
      <4>1. p + 1 \in 1 .. L + 1
        BY <1>5, <1>8
      <4> QED BY <1>6, <3>1, <4>1
    <3>2. CASE b \in 1 .. N
      <4>1. PICK n \in 1 .. L : layout[n] = b
        BY <1>1, <1>5, <3>2 DEF LayoutOf
      <4>2. n \in 1 .. p \/ n \in p + 1 .. L
        BY <1>5, <1>8
      <4>3. n \in 1 .. L + 1 /\ n + 1 \in 1 .. L + 1
        BY <1>5
      <4> QED BY <1>6, <4>1, <4>2, <4>3
    <3> QED BY <1>1, <3>1, <3>2
  <2> QED BY <1>7, <1>8, <2>1, <2>2, <2>3 DEF LayoutOf
<1>12. ASSUME NEW b \in DOMAIN blocks \ g
       PROVE  BlockAfter(Merged(g), l, b) = BlockAfter(blocks, layout, b)
  <2>1. PICK n \in 1 .. L : layout[n] = b
    BY <1>1, <1>5 DEF LayoutOf
  <2>2. n # p
    BY <1>2, <1>3, <1>12, <2>1
  <2>3. BlockAfter(blocks, layout, b) =
          IF n = L \/ blocks[layout[n + 1]].cold # blocks[b].cold THEN 0 ELSE layout[n + 1]
    <3>1. n \in DOMAIN layout
      BY <1>5, <2>1
    <3>2. BlockAfter(blocks, layout, layout[n]) =
            IF n = Len(layout) \/ blocks[layout[n + 1]].cold # blocks[layout[n]].cold
            THEN 0 ELSE layout[n + 1]
      BY <1>1, <3>1, NextPosition, Zenon
    <3> QED BY <2>1, <3>2, Zenon DEF L
  <2>4. Merged(g)[b].cold = blocks[b].cold
    BY <1>7
  <2>5. \A k \in 1 .. L : Merged(g)[layout[k]].cold = blocks[layout[k]].cold
    BY <1>1, <1>7, <1>8
  <2>6. CASE n < p
    <3>1. /\ n \in 1 .. p /\ n + 1 \in 1 .. p /\ n # L /\ n # L + 1 /\ n \in 1 .. L + 1
          /\ n + 1 \in 1 .. L
      BY <1>5, <1>8, <2>6
    <3>2. l[n] = b /\ l[n + 1] = layout[n + 1]
      BY <1>6, <2>1, <3>1
    <3>3. BlockAfter(Merged(g), l, b) =
            IF n = Len(l) \/ Merged(g)[l[n + 1]].cold # Merged(g)[b].cold
            THEN 0 ELSE l[n + 1]
      <4>1. BlockAfter(Merged(g), l, l[n]) =
              IF n = Len(l) \/ Merged(g)[l[n + 1]].cold # Merged(g)[l[n]].cold
              THEN 0 ELSE l[n + 1]
        <5>1. n \in DOMAIN l
          BY <1>8, <3>1
        <5> QED BY <1>11, <5>1, NextPosition, Zenon
      <4> QED BY <3>2, <4>1, Zenon
    <3> QED BY <1>6, <2>3, <2>4, <2>5, <3>1, <3>2, <3>3
  <2>7. CASE n > p
    <3>1. n \in p + 1 .. L /\ n + 1 \in 1 .. L + 1 /\ (n = L <=> n + 1 = L + 1)
      BY <1>5, <1>8, <2>7
    <3>2. l[n + 1] = b
      BY <1>6, <2>1, <3>1
    <3>3. BlockAfter(Merged(g), l, b) =
            IF n + 1 = Len(l) \/ Merged(g)[l[(n + 1) + 1]].cold # Merged(g)[b].cold
            THEN 0 ELSE l[(n + 1) + 1]
      <4> DEFINE k == n + 1
      <4>1. k \in 1 .. L + 1 /\ l[k] = b
        BY <3>1, <3>2
      <4> HIDE DEF k
      <4>2. BlockAfter(Merged(g), l, l[k]) =
              IF k = Len(l) \/ Merged(g)[l[k + 1]].cold # Merged(g)[l[k]].cold
              THEN 0 ELSE l[k + 1]
        <5>1. k \in DOMAIN l
          BY <1>8, <4>1
        <5> QED BY <1>11, <5>1, NextPosition, Zenon
      <4> QED BY <4>1, <4>2, Zenon DEF k
    <3>4. CASE n = L
      BY <1>6, <2>3, <3>1, <3>3, <3>4
    <3>5. CASE n # L
      <4>1. n + 1 \in p + 1 .. L /\ n + 1 \in 1 .. L
        BY <1>5, <1>8, <2>7, <3>5
      <4>2. l[(n + 1) + 1] = layout[n + 1]
        BY <1>6, <4>1
      <4> QED BY <1>6, <2>3, <2>4, <2>5, <3>1, <3>3, <3>5, <4>1, <4>2
    <3> QED BY <3>4, <3>5
  <2> QED BY <1>5, <1>8, <2>2, <2>6, <2>7
<1>13. BlockAfter(Merged(g), l, src) = N + 1
  <2>1. p \in DOMAIN l /\ p # Len(l) /\ l[p] = src /\ l[p + 1] = N + 1
    <3>1. p \in 1 .. p /\ p \in 1 .. L + 1 /\ p # L + 1
      BY <1>5, <1>8
    <3> QED BY <1>3, <1>6, <1>8, <3>1
  <2>2. BlockAfter(Merged(g), l, l[p]) =
          IF p = Len(l) \/ Merged(g)[l[p + 1]].cold # Merged(g)[l[p]].cold
          THEN 0 ELSE l[p + 1]
    BY <1>11, <2>1, NextPosition, Zenon
  <2> QED BY <1>14, <2>1, <2>2, Zenon
<1> QED BY <1>11, <1>12, <1>13 DEF l, N, src

\* A merge gives its sources a tail and leaves every other block alone.
LEMMA MergeInv == IInv /\ Merge => IInv'
<1> SUFFICES ASSUME IInv, Merge PROVE IInv'
  OBVIOUS
<1> DEFINE N == Len(blocks)
<1>1. /\ pc = "merge" /\ UNCHANGED <<pc, branch, len, orig>>
  BY DEF Merge
<1>2. PICK g \in groups : /\ blocks' = Merged(g) /\ layout' = LaidOut(g, N + 1)
                          /\ used' = used \cup g /\ groups' = groups \ {g}
  BY Zenon DEF Merge, Merged
<1>3. /\ N \in Nat /\ DOMAIN blocks = 1 .. N
      /\ DOMAIN orig \subseteq DOMAIN blocks
  BY BlocksShape DEF IInv
<1>4. /\ orig \in Functions /\ used \subseteq DOMAIN orig /\ len \in Int /\ len >= 2
      /\ Len(orig) \in Nat /\ DOMAIN orig = 1 .. Len(orig) /\ N >= Len(orig)
      /\ g # {} /\ g \subseteq Unused /\ g \subseteq DOMAIN orig
      /\ \A b \in DOMAIN blocks : blocks[b].code \in Code /\ blocks[b].succ \in 0 .. N
  BY <1>1, InputShape DEF IInv, Types, GroupsInv, Unused
<1>5. /\ IsSequence(blocks') /\ Len(blocks') = N + 1 /\ DOMAIN blocks' = 1 .. N + 1
      /\ \A b \in DOMAIN blocks \ g : blocks'[b] = blocks[b]
      /\ \A b \in g : blocks'[b].code = Erased(b) /\ blocks'[b].succ = N + 1
      /\ \A b \in DOMAIN blocks : blocks'[b].cold = blocks[b].cold
      /\ blocks'[N + 1].code = Suffix(Min(g)) /\ blocks'[N + 1].succ = 0
  BY <1>1, <1>2, MergedShape
<1>6. \A b \in g : /\ Candidate(b)
                   /\ Erased(b) \in Code /\ Suffix(Min(g)) \in Code
                   /\ Returns(Suffix(Min(g)))
                   /\ orig[b].code = Erased(b) \o Suffix(Min(g))
                   /\ \A n \in DOMAIN Erased(b) : Erased(b)[n] \notin Return
  BY <1>1, SourceCut
<1> HIDE DEF N
<1>7. Unused' = Unused \ g
  BY <1>1, <1>2 DEF Unused
<1>8. Types'
  <2>1. IsSequence(blocks)' /\ Len(blocks') >= Len(orig)
    BY <1>3, <1>4, <1>5 DEF IsSequence
  <2>2. ASSUME NEW b \in DOMAIN blocks' PROVE
          blocks'[b].code \in Code /\ blocks'[b].succ \in 0 .. Len(blocks')
    <3>1. b \in g \/ b \in DOMAIN blocks \ g \/ b = N + 1
      BY <1>3, <1>5
    <3>2. CASE b \in g
      BY <1>3, <1>5, <1>6, <3>2
    <3>3. CASE b \in DOMAIN blocks \ g
      BY <1>3, <1>4, <1>5, <3>3
    <3>4. CASE b = N + 1
      BY <1>3, <1>4, <1>5, <1>6, <3>4
    <3> QED BY <3>1, <3>2, <3>3, <3>4
  <2> QED BY <1>1, <1>2, <1>4, <2>1, <2>2 DEF Types
<1>9. UnusedKept'
  <2>1. \A b \in Unused \ g : b \in DOMAIN blocks \ g /\ blocks[b] = orig[b]
    BY <1>3 DEF IInv, UnusedKept, Unused
  <2> QED BY <1>1, <1>5, <1>7, <2>1 DEF UnusedKept
<1>10. ColdKept'
  BY <1>1, <1>3, <1>5 DEF IInv, ColdKept
<1>11. Tails'
  <2> SUFFICES ASSUME NEW t \in (DOMAIN blocks') \ DOMAIN orig
               PROVE  blocks'[t].succ = 0 /\ Returns(blocks'[t].code)
    BY <1>1 DEF Tails, Returns
  <2>1. t = N + 1 \/ (t \in DOMAIN blocks \ DOMAIN orig /\ t \in DOMAIN blocks \ g)
    BY <1>3, <1>4, <1>5
  <2>2. CASE t = N + 1
    BY <1>4, <1>5, <1>6, <2>2
  <2>3. CASE t \in DOMAIN blocks \ DOMAIN orig /\ t \in DOMAIN blocks \ g
    BY <1>5, <2>3 DEF IInv, Tails
  <2> QED BY <2>1, <2>2, <2>3
<1>12. SourcesMoved'
  <2>1. N + 1 \in (DOMAIN blocks') \ DOMAIN orig
    BY <1>3, <1>4, <1>5
  <2>2. ASSUME NEW b \in used' PROVE
          /\ Candidate(b)
          /\ blocks'[b].succ \in (DOMAIN blocks') \ DOMAIN orig
          /\ orig[b].code = blocks'[b].code \o blocks'[blocks'[b].succ].code
          /\ \A n \in DOMAIN blocks'[b].code : blocks'[b].code[n] \notin Return
    <3>1. CASE b \in g
      BY <1>5, <1>6, <2>1, <3>1
    <3>2. CASE b \in used
      <4>1. b \in DOMAIN blocks \ g
        BY <1>3, <1>4, <3>2 DEF Unused
      <4>2. blocks'[b] = blocks[b]
        BY <1>5, <4>1
      <4>3. /\ Candidate(b)
            /\ blocks[b].succ \in DOMAIN blocks \ DOMAIN orig
            /\ orig[b].code = blocks[b].code \o blocks[blocks[b].succ].code
            /\ \A n \in DOMAIN blocks[b].code : blocks[b].code[n] \notin Return
        BY <3>2 DEF IInv, SourcesMoved
      <4>4. /\ blocks[b].succ \in DOMAIN blocks \ g
            /\ blocks[b].succ \in (DOMAIN blocks') \ DOMAIN orig
        BY <1>3, <1>4, <1>5, <4>3
      <4>5. blocks'[blocks[b].succ] = blocks[blocks[b].succ]
        BY <1>5, <4>4
      <4> QED BY <4>2, <4>3, <4>4, <4>5
    <3> QED BY <1>2, <3>1, <3>2
  <2> QED BY <1>1, <2>2 DEF SourcesMoved, Candidate
<1>13. LayoutOf(layout, blocks)'
  <2>1. LayoutOf(layout', blocks')
    BY <1>1, <1>2, MergedLayout DEF N
  <2> QED BY <2>1 DEF LayoutOf
<1>14. NextKept'
  <2>1. ASSUME NEW b \in Unused \ g PROVE
          BlockAfter(blocks', layout', b) = BlockAfter(orig, InputOrder, b)
    <3>1. b \in DOMAIN blocks \ g
      BY <1>3 DEF Unused
    <3>2. BlockAfter(blocks', layout', b) = BlockAfter(blocks, layout, b)
      BY <1>1, <1>2, <3>1, MergedLayout DEF N
    <3> QED BY <3>2 DEF IInv, NextKept
  <2>2. InputOrder' = InputOrder
    BY <1>1 DEF InputOrder
  <2> QED BY <1>1, <1>7, <2>1, <2>2 DEF NextKept
<1>15. Branches'
  <2>1. used' # {}
    BY <1>2, <1>4
  <2> QED BY <1>1, <2>1 DEF IInv, Branches, InputOrder
<1>16. GroupsInv'
  <2>1. \A b : Keyed(b)' <=> Keyed(b)
    BY <1>1 DEF Keyed, Candidate, Ending
  <2>2. \A a, b : Alike(a, b)' <=> Alike(a, b)
    BY <1>1 DEF Alike, Ending
  <2>3. \A h \in groups' : h \in groups /\ h \cap g = {}
    BY <1>2 DEF IInv, GroupsInv
  <2>4. \A h \in groups' : h # {} /\ h \subseteq Unused'
    BY <1>7, <2>3 DEF IInv, GroupsInv
  <2> QED BY <1>1, <1>4, <2>1, <2>2, <2>3, <2>4 DEF IInv, GroupsInv
<1>17. Search'
  <2>1. \A a, b, n : Pair(a, b, n)' => Pair(a, b, n) /\ a \notin g
    BY <1>1, <1>7 DEF Pair, Candidate
  <2>2. \A a, b, n : Apart(a, b, n)' <=> Apart(a, b, n)
    BY <1>1 DEF Apart, Ending
  <2>3. ASSUME NEW n \in Nat, n > len PROVE Tried(n)'
    <3>1. Tried(n)
      BY <1>1, <1>4, <2>3 DEF IInv, Search
    <3> QED BY <2>1, <2>2, <3>1 DEF Tried
  <2>4. ASSUME NEW a, NEW b, Pair(a, b, len)'
        PROVE  Apart(a, b, len)' \/ \E h \in groups' : a \in h /\ b \in h
    <3>1. Pair(a, b, len) /\ a \notin g
      BY <1>1, <2>1, <2>4
    <3>2. Apart(a, b, len) \/ \E h \in groups : a \in h /\ b \in h
      BY <1>1, <3>1 DEF IInv, Search
    <3>3. Apart(a, b, len) => Apart(a, b, len)'
      BY <1>1, <2>2
    <3> QED BY <1>2, <3>1, <3>2, <3>3
  <2> QED BY <1>1, <2>3, <2>4 DEF Search
<1> QED BY <1>8, <1>9, <1>10, <1>11, <1>12, <1>13, <1>14, <1>15, <1>16, <1>17 DEF IInv

(***************************************************************************)
(* The invariant holds in every state of the pass, for every function.     *)
(***************************************************************************)
THEOREM IInvHolds == Spec => []IInv
<1>1. IInv /\ [Next]_vars => IInv'
  <2> SUFFICES ASSUME IInv, [Next]_vars PROVE IInv'
    OBVIOUS
  <2>1. CASE Start BY <2>1, StartInv
  <2>2. CASE GroupBlocks BY <2>2, GroupInv
  <2>3. CASE Merge BY <2>3, MergeInv
  <2>4. CASE KeepGroup BY <2>4, KeepInv
  <2>5. CASE Shorten BY <2>5, ShortenInv
  <2>6. CASE Finish BY <2>6, FinishInv
  <2>7. CASE UNCHANGED vars BY <2>7, StutterInv
  <2> QED BY <2>1, <2>2, <2>3, <2>4, <2>5, <2>6, <2>7 DEF Next, Done
<1> QED BY InitInv, <1>1, PTL DEF Spec

(***************************************************************************)
(* Two candidates that the pass leaves alone share no ending that would    *)
(* have paid.                                                              *)
(***************************************************************************)
THEOREM NoPairLeft == Spec => []NothingLeft
<1>1. IInv => NothingLeft
  <2> SUFFICES ASSUME IInv, pc = "done",
                      NEW a \in {c \in DOMAIN orig \ used : isTailMergeCandidate(c)},
                      NEW b \in {c \in DOMAIN orig \ used : isTailMergeCandidate(c)},
                      NEW n \in 2 .. Min({Len(orig[a].code), Len(orig[b].code), MaxSuffix})
               PROVE  Apart(a, b, n)
    BY Zenon DEF NothingLeft, Apart
  <2>1. /\ a \in Unused /\ b \in Unused /\ Candidate(a) /\ Candidate(b)
        /\ a \in DOMAIN orig /\ b \in DOMAIN orig
    BY UnusedSame DEF IInv, Unused
  <2>2. Len(orig[a].code) \in Nat /\ Len(orig[b].code) \in Nat /\ MaxSuffix \in Nat
    BY <2>1, InputShape, TailMergeAssumption DEF IInv, Types
  <2> DEFINE T == {Len(orig[a].code), Len(orig[b].code), MaxSuffix}
  <2>3. Min(T) \in T /\ \A k \in T : Min(T) <= k
    <3>1. T \in SUBSET Nat /\ T # {}
      BY <2>2
    <3> HIDE DEF T
    <3>2. \E m \in T : \A k \in T : m <= k
      BY <3>1, LeastNat
    <3> QED BY <3>2 DEF Min
  <2>4. Min(T) \in Nat /\ Min(T) <= Len(orig[a].code) /\ Min(T) <= Len(orig[b].code)
        /\ Min(T) <= MaxSuffix
    BY <2>2, <2>3
  <2>5. n \in 2 .. Min(T)
    OBVIOUS
  <2> HIDE DEF T
  <2>6. /\ n \in Nat /\ n >= 2 /\ n <= Len(orig[a].code) /\ n <= Len(orig[b].code)
        /\ n <= MaxSuffix
    BY <2>2, <2>4, <2>5
  <2>7. Pair(a, b, n)
    BY <2>1, <2>6 DEF Pair
  <2>8. Tried(n)
    BY <2>6 DEF IInv, Search
  <2> QED BY <2>7, <2>8 DEF Tried
<1> QED BY IInvHolds, <1>1, PTL
-----------------------------------------------------------------------------
(***************************************************************************)
(* What is executed.                                                       *)
(***************************************************************************)
\* One more block of the execution from each block.
Executes(run, bs, l, br, n) ==
    \A b \in 0 .. Len(bs) :
        run[n][b] = IF n = 0 \/ b = 0 THEN <<>>
                    ELSE bs[b].code \o run[n - 1][After(bs, l, br, b)]

\* A function whose blocks are followed by blocks of it.
Executable(bs, l, br) ==
    /\ Len(bs) \in Nat
    /\ \A b \in 1 .. Len(bs) : /\ bs[b].code \in Code
                               /\ After(bs, l, br, b) \in 0 .. Len(bs)

\* Two pieces of code make a piece of code.
LEMMA CodeConcat == \A s, t \in Code : s \o t \in Code
  BY ConcatProperties, Zenon DEF Code

\* The recursion that Executed is defined by has a solution.
LEMMA ExecutedRec ==
    ASSUME NEW bs, NEW l, NEW br, Executable(bs, l, br)
    PROVE  \A n \in 0 .. Len(bs) + 1 :
              /\ Executes(Executed(bs, l, br), bs, l, br, n)
              /\ \A b \in 0 .. Len(bs) : Executed(bs, l, br)[n][b] \in Code
<1> DEFINE M == Len(bs)
           nx(b) == After(bs, l, br, b)
           T == [0 .. M -> Code]
           none == [b \in 0 .. M |-> <<>>]
           step(g) == [b \in 0 .. M |-> IF b = 0 THEN <<>> ELSE bs[b].code \o g[nx(b)]]
           F == [i \in 1 .. M + 1 |-> [g \in T |-> step(g)]]
           row(run, n) == [b \in 0 .. M |-> IF n = 0 \/ b = 0 THEN <<>>
                                            ELSE bs[b].code \o run[n - 1][nx(b)]]
           Eq(run) == run = [n \in 0 .. M + 1 |-> row(run, n)]
<1>1. M \in Nat /\ \A b \in 1 .. M : bs[b].code \in Code /\ nx(b) \in 0 .. M
  BY DEF Executable
<1>2. <<>> \in Code
  BY DEF Code
<1>3. Executed(bs, l, br) = CHOOSE run : Eq(run)
  BY DEF Executed
<1> HIDE DEF M, nx
<1>4. none \in T
  BY <1>2
<1>5. \A g \in T : step(g) \in T
  <2> TAKE g \in T
  <2>1. \A b \in 0 .. M : b = 0 \/ b \in 1 .. M
    BY <1>1
  <2>2. \A b \in 1 .. M : bs[b].code \o g[nx(b)] \in Code
    BY <1>1, CodeConcat
  <2> QED BY <1>2, <2>1, <2>2
<1>6. Steps(F, M + 1, T)
  <2> HIDE DEF T, step
  <2> QED BY <1>5 DEF Steps
<1>7. PICK f : Iterates(f, F, M + 1, T, none)
  <2> HIDE DEF T, F, none
  <2> QED BY <1>1, <1>4, <1>6, IterateExists
<1>8. /\ f \in [0 .. M + 1 -> T] /\ f[0] = none
      /\ \A i \in 1 .. M + 1 : f[i] = step(f[i - 1])
  <2>1. f \in [0 .. M + 1 -> T] /\ f[0] = none
        /\ \A i \in 1 .. M + 1 : f[i] = F[i][f[i - 1]]
    BY <1>7 DEF Iterates
  <2>2. \A i \in 1 .. M + 1 : f[i - 1] \in T
    BY <1>1, <2>1
  <2> HIDE DEF T, step
  <2> QED BY <2>1, <2>2
<1>9. Eq(f)
  <2>1. \A n \in 0 .. M + 1 : f[n] = row(f, n)
    <3> TAKE n \in 0 .. M + 1
    <3>1. CASE n = 0
      BY <1>8, <3>1
    <3>2. CASE n # 0
      <4>1. n \in 1 .. M + 1
        BY <1>1, <3>2
      <4>2. f[n] = step(f[n - 1])
        BY <1>8, <4>1
      <4> QED BY <3>2, <4>2
    <3> QED BY <3>1, <3>2
  <2> HIDE DEF row
  <2> QED BY <1>8, <2>1
<1> DEFINE X == Executed(bs, l, br)
<1>10. Eq(X)
  <2> HIDE DEF Eq
  <2> QED BY <1>3, <1>9
<1>11. \A n \in 0 .. M + 1 : X[n] = row(X, n)
  <2> HIDE DEF row
  <2>1. X = [n \in 0 .. M + 1 |-> row(X, n)]
    BY <1>10
  <2> HIDE DEF X
  <2> QED BY <2>1
<1> HIDE DEF X, F, none, step, Eq
<1>12. \A n \in 0 .. M + 1 : X[n] \in T
  <2> DEFINE Bad == {n \in 0 .. M + 1 : X[n] \notin T}
  <2> SUFFICES ASSUME Bad # {} PROVE FALSE
    OBVIOUS
  <2>1. PICK n \in Bad : \A j \in Bad : n <= j
    <3>1. Bad \in SUBSET Nat
      BY <1>1
    <3> HIDE DEF Bad
    <3> QED BY <3>1, LeastNat
  <2>2. n \in 0 .. M + 1 /\ X[n] \notin T
    OBVIOUS
  <2>3. \A b \in 0 .. M : b = 0 \/ b \in 1 .. M
    BY <1>1
  <2>4. CASE n = 0
    BY <1>2, <1>11, <2>2, <2>4
  <2>5. CASE n # 0
    <3>1. n - 1 \in 0 .. M + 1 /\ ~ (n <= n - 1)
      BY <1>1, <2>2, <2>5
    <3>2. X[n - 1] \in T
      BY <2>1, <3>1
    <3>3. \A b \in 1 .. M : bs[b].code \o X[n - 1][nx(b)] \in Code
      BY <1>1, <3>2, CodeConcat
    <3>4. row(X, n) \in T
      BY <1>2, <2>3, <3>3
    <3> QED BY <1>11, <2>2, <3>4
  <2> QED BY <2>4, <2>5
<1>13. \A n \in 0 .. M + 1 : Executes(X, bs, l, br, n)
  BY <1>11 DEF Executes, nx, M
<1> QED BY <1>12, <1>13 DEF X, M

\* Prefixes, element by element.
LEMMA PrefixIs ==
    ASSUME NEW s \in Code, NEW t \in Code
    PROVE  IsPrefix(s, t) <=> /\ Len(s) <= Len(t)
                              /\ \A k \in 1 .. Len(s) : s[k] = t[k]
<1>1. /\ Len(s) \in Nat /\ \A k \in 1 .. Len(s) : s[k] \in Instr
      /\ Len(t) \in Nat /\ \A k \in 1 .. Len(t) : t[k] \in Instr
      /\ s \in Seq(Instr) /\ t \in Seq(Instr)
  BY DEF Code
<1> SUFFICES ASSUME Len(s) <= Len(t)
             PROVE  (SubSeq(s, 1, Len(s)) = SubSeq(t, 1, Len(s)))
                    <=> \A k \in 1 .. Len(s) : s[k] = t[k]
  BY DEF IsPrefix
<1> DEFINE u == SubSeq(t, 1, Len(s))
<1>2. u \in Seq(Instr) /\ Len(u) = Len(s) /\ \A k \in 1 .. Len(s) : u[k] = t[k]
  <2>1. \A k \in 1 .. Len(s) : t[k] \in Instr
    BY <1>1
  <2>2. /\ u \in Seq(Instr) /\ Len(u) = IF 1 <= Len(s) THEN Len(s) - 1 + 1 ELSE 0
        /\ \A k \in 1 .. Len(s) - 1 + 1 : u[k] = t[1 + k - 1]
    BY <1>1, <2>1, SubSeqProperties
  <2> QED BY <1>1, <2>2
<1>3. SubSeq(s, 1, Len(s)) = s
  BY <1>1, SubSeqFull
<1> HIDE DEF u
<1>4. (\A k \in 1 .. Len(s) : s[k] = u[k]) => s = u
  BY <1>1, <1>2, SeqEqual
<1> QED BY <1>2, <1>3, <1>4 DEF u

\* The empty execution is a prefix of each, each of itself.
LEMMA PrefixTrivial ==
    ASSUME NEW s \in Code
    PROVE  <<>> \in Code /\ IsPrefix(<<>>, s) /\ IsPrefix(s, s)
           /\ s \o <<>> = s
<1>1. <<>> \in Code /\ Len(<<>>) = 0 /\ Len(s) \in Nat
  BY DEF Code
<1>2. s \o <<>> = s
  BY ConcatEmptySeq DEF Code
<1> QED BY <1>1, <1>2, PrefixIs

\* Behind the same code, prefixes stay prefixes.
LEMMA PrefixBehind ==
    ASSUME NEW c \in Code, NEW s \in Code, NEW t \in Code, IsPrefix(s, t)
    PROVE  IsPrefix(c \o s, c \o t)
<1>1. Len(s) <= Len(t) /\ \A k \in 1 .. Len(s) : s[k] = t[k]
  BY PrefixIs
<1>2. Len(c) \in Nat /\ Len(s) \in Nat /\ Len(t) \in Nat
  BY DEF Code
<1>3. /\ c \o s \in Code /\ Len(c \o s) = Len(c) + Len(s)
      /\ \A k \in 1 .. Len(c) + Len(s) :
           (c \o s)[k] = IF k <= Len(c) THEN c[k] ELSE s[k - Len(c)]
  BY ConcatProperties DEF Code
<1>4. /\ c \o t \in Code /\ Len(c \o t) = Len(c) + Len(t)
      /\ \A k \in 1 .. Len(c) + Len(t) :
           (c \o t)[k] = IF k <= Len(c) THEN c[k] ELSE t[k - Len(c)]
  BY ConcatProperties DEF Code
<1> DEFINE x == c \o s
           y == c \o t
<1>5. Len(x) <= Len(y)
  BY <1>1, <1>2, <1>3, <1>4
<1>6. ASSUME NEW k \in 1 .. Len(x) PROVE x[k] = y[k]
  <2>1. k \in 1 .. Len(c) + Len(s) /\ k \in 1 .. Len(c) + Len(t)
    BY <1>1, <1>2, <1>3
  <2>2. ~ (k <= Len(c)) => k - Len(c) \in 1 .. Len(s)
    BY <1>2, <2>1
  <2> QED BY <1>1, <1>3, <1>4, <2>1, <2>2
<1> HIDE DEF x, y
<1>7. x \in Code /\ y \in Code
  BY <1>3, <1>4 DEF x, y
<1>8. IsPrefix(x, y)
  BY <1>5, <1>6, <1>7, PrefixIs
<1> QED BY <1>8 DEF x, y

\* The block after a given one of a layout is a block, or none.
LEMMA NextIn ==
    ASSUME NEW bs, NEW l, LayoutOf(l, bs), Len(bs) \in Nat, DOMAIN bs = 1 .. Len(bs),
           NEW b \in DOMAIN bs
    PROVE  BlockAfter(bs, l, b) \in 0 .. Len(bs)
<1>1. PICK n \in DOMAIN l : l[n] = b
  BY DEF LayoutOf
<1>2. BlockAfter(bs, l, l[n]) =
        IF n = Len(l) \/ bs[l[n + 1]].cold # bs[l[n]].cold THEN 0 ELSE l[n + 1]
  BY <1>1, NextPosition, Zenon
<1>3. n # Len(l) => l[n + 1] \in DOMAIN bs
  BY <1>1 DEF LayoutOf
<1>4. 0 \in 0 .. Len(bs) /\ DOMAIN bs \subseteq 0 .. Len(bs)
  OBVIOUS
<1> QED BY <1>1, <1>2, <1>3, <1>4, Zenon

\* With the branches that fixBranches makes, a block is followed by its successor,
\* or else by nothing where it returns, or else by the block behind it.
LEMMA AfterFixed ==
    ASSUME NEW bs, NEW l, LayoutOf(l, bs), Len(bs) \in Nat, DOMAIN bs = 1 .. Len(bs),
           NEW b \in DOMAIN bs, bs[b].succ \in 0 .. Len(bs)
    PROVE  /\ After(bs, l, fixBranches(bs, l), b) \in 0 .. Len(bs)
           /\ After(bs, l, fixBranches(bs, l), b) =
                IF bs[b].succ # 0 /\ bs[b].succ # BlockAfter(bs, l, b) THEN bs[b].succ
                ELSE IF Returns(bs[b].code) THEN 0 ELSE BlockAfter(bs, l, b)
<1>1. fixBranches(bs, l)[b] =
        IF bs[b].succ = 0 \/ bs[b].succ = BlockAfter(bs, l, b) THEN 0 ELSE bs[b].succ
  BY DEF fixBranches
<1>2. BlockAfter(bs, l, b) \in 0 .. Len(bs)
  BY NextIn
<1>3. After(bs, l, fixBranches(bs, l), b) =
        IF bs[b].succ # 0 /\ bs[b].succ # BlockAfter(bs, l, b) THEN bs[b].succ
        ELSE IF Returns(bs[b].code) THEN 0 ELSE BlockAfter(bs, l, b)
  BY <1>1 DEF After, Returns
<1>4. 0 \in 0 .. Len(bs)
  OBVIOUS
<1> QED BY <1>2, <1>3, <1>4

(***************************************************************************)
(* Every block of the function executes what it did: an unused one has its *)
(* instructions and its next block, a source what it kept and then its     *)
(* tail, which returns.                                                    *)
(***************************************************************************)
THEOREM TraceSafe == Spec => []TraceKept
<1>1. IInv => TraceKept
  <2> SUFFICES ASSUME IInv, pc = "done" PROVE TraceKept
    BY DEF TraceKept
  <2> DEFINE br == fixBranches(orig, InputOrder)
             m == Len(orig)
             N == Len(blocks)
             wasNext(b) == After(orig, InputOrder, br, b)
             isNext(b) == After(blocks, layout, branch, b)
             was == Executed(orig, InputOrder, br)
             is == Executed(blocks, layout, branch)
  <2>1. /\ orig \in Functions /\ m \in Nat /\ DOMAIN orig = 1 .. m
        /\ \A b \in 1 .. m : orig[b].code \in Code /\ orig[b].succ \in 0 .. m
    BY InputShape DEF IInv, Types
  <2>2. /\ N \in Nat /\ DOMAIN blocks = 1 .. N /\ N >= m
        /\ \A b \in 1 .. N : blocks[b].code \in Code /\ blocks[b].succ \in 0 .. N
    BY BlocksShape DEF IInv, Types
  <2>3. LayoutOf(InputOrder, orig) /\ LayoutOf(layout, blocks)
        /\ branch = fixBranches(blocks, layout)
    BY <2>1, InputLayout DEF IInv, Branches
  <2>4. \A b \in 1 .. m :
          /\ wasNext(b) \in 0 .. m
          /\ wasNext(b) =
               IF orig[b].succ # 0 /\ orig[b].succ # BlockAfter(orig, InputOrder, b)
               THEN orig[b].succ
               ELSE IF Returns(orig[b].code) THEN 0 ELSE BlockAfter(orig, InputOrder, b)
    BY <2>1, <2>3, AfterFixed
  <2>5. \A b \in 1 .. N :
          /\ isNext(b) \in 0 .. N
          /\ isNext(b) =
               IF blocks[b].succ # 0 /\ blocks[b].succ # BlockAfter(blocks, layout, b)
               THEN blocks[b].succ
               ELSE IF Returns(blocks[b].code) THEN 0 ELSE BlockAfter(blocks, layout, b)
    BY <2>2, <2>3, AfterFixed
  <2>6. \A n \in 0 .. m + 1 : /\ Executes(was, orig, InputOrder, br, n)
                              /\ \A b \in 0 .. m : was[n][b] \in Code
    <3>1. Executable(orig, InputOrder, br)
      BY <2>1, <2>4 DEF Executable
    <3> QED BY <3>1, ExecutedRec
  <2>7. \A n \in 0 .. N + 1 : /\ Executes(is, blocks, layout, branch, n)
                              /\ \A b \in 0 .. N : is[n][b] \in Code
    <3>1. Executable(blocks, layout, branch)
      BY <2>2, <2>5 DEF Executable
    <3> QED BY <3>1, ExecutedRec
  <2> HIDE DEF was, is
  \* The two executions, block by block.
  <2>8. \A n \in 0 .. m + 1, b \in 0 .. m :
          /\ was[n][b] \in Code
          /\ n = 0 \/ b = 0 => was[n][b] = <<>>
          /\ n # 0 /\ b # 0 => was[n][b] = orig[b].code \o was[n - 1][wasNext(b)]
    BY <2>6 DEF Executes
  <2>9. \A n \in 0 .. N + 1, b \in 0 .. N :
          /\ is[n][b] \in Code
          /\ n = 0 \/ b = 0 => is[n][b] = <<>>
          /\ n # 0 /\ b # 0 => is[n][b] = blocks[b].code \o is[n - 1][isNext(b)]
    BY <2>7 DEF Executes
  <2>10. ASSUME NEW b \in Unused PROVE
           /\ b \in 1 .. m /\ blocks[b].code = orig[b].code /\ isNext(b) = wasNext(b)
    <3>1. /\ b \in 1 .. m /\ b \in 1 .. N /\ blocks[b] = orig[b]
          /\ BlockAfter(blocks, layout, b) = BlockAfter(orig, InputOrder, b)
      BY <2>1, <2>2 DEF IInv, UnusedKept, NextKept, Unused
    <3> HIDE DEF wasNext, isNext
    <3> QED BY <2>4, <2>5, <3>1
  <2>11. ASSUME NEW b \in used PROVE
           /\ b \in 1 .. m /\ wasNext(b) = 0
           /\ isNext(b) \in 1 .. N /\ isNext(isNext(b)) = 0
           /\ orig[b].code = blocks[b].code \o blocks[isNext(b)].code
    <3> DEFINE t == blocks[b].succ
    <3>1. /\ b \in 1 .. m /\ b \in 1 .. N /\ Candidate(b)
          /\ t \in (1 .. N) \ (1 .. m)
          /\ orig[b].code = blocks[b].code \o blocks[t].code
          /\ \A n \in DOMAIN blocks[b].code : blocks[b].code[n] \notin Return
      <4>1. /\ Candidate(b) /\ t \in DOMAIN blocks \ DOMAIN orig
            /\ orig[b].code = blocks[b].code \o blocks[t].code
            /\ \A n \in DOMAIN blocks[b].code : blocks[b].code[n] \notin Return
        BY DEF IInv, SourcesMoved
      <4>2. b \in 1 .. m
        BY <2>1 DEF IInv, Types
      <4>3. b \in 1 .. N
        BY <2>1, <2>2, <4>2
      <4> QED BY <2>1, <2>2, <4>1, <4>2, <4>3
    <3>2. blocks[t].succ = 0 /\ Returns(blocks[t].code)
      BY <2>1, <2>2, <3>1 DEF IInv, Tails
    <3>3. orig[b].succ = 0 /\ Returns(orig[b].code)
      BY <3>1 DEF Candidate, Returns
    <3>4. ~ Returns(blocks[b].code)
      <4>1. blocks[b].code \in Seq(Instr)
        BY <2>2, <3>1 DEF Code
      <4>2. blocks[b].code # <<>> => Len(blocks[b].code) \in DOMAIN blocks[b].code
        BY <4>1
      <4> QED BY <3>1, <4>2 DEF Returns, Last
    <3> HIDE DEF wasNext, isNext
    <3>5. wasNext(b) = 0
      BY <2>4, <3>1, <3>3
    <3>6. isNext(b) = t
      BY <2>1, <2>2, <2>5, <3>1, <3>4
    <3>7. isNext(t) = 0
      BY <2>1, <2>2, <2>5, <3>1, <3>2
    <3> QED BY <3>1, <3>5, <3>6, <3>7
  <2> HIDE DEF wasNext, isNext, br
  <2> DEFINE Follows(n) == \A b \in 0 .. m : /\ IsPrefix(is[n][b], was[n][b])
                                             /\ IsPrefix(was[n][b], is[n + 1][b])
  <2>12. ASSUME NEW n \in 0 .. m, n = 0 \/ Follows(n - 1) PROVE Follows(n)
    <3> SUFFICES ASSUME NEW b \in 0 .. m
                 PROVE  /\ IsPrefix(is[n][b], was[n][b])
                        /\ IsPrefix(was[n][b], is[n + 1][b])
      OBVIOUS
    <3>1. /\ n \in 0 .. m + 1 /\ n \in 0 .. N + 1 /\ n + 1 \in 0 .. N + 1 /\ n + 1 # 0
          /\ (n + 1) - 1 = n /\ b \in 0 .. N
      BY <2>1, <2>2
    <3>2. was[n][b] \in Code /\ is[n][b] \in Code /\ is[n + 1][b] \in Code
      BY <2>8, <2>9, <3>1
    <3>3. CASE n = 0 \/ b = 0
      <4>1. was[n][b] = <<>> /\ is[n][b] = <<>>
        BY <2>8, <2>9, <3>1, <3>3
      <4> QED BY <3>2, <4>1, PrefixTrivial
    <3>4. CASE n # 0 /\ b # 0
      <4>1. /\ n - 1 \in 0 .. m + 1 /\ n - 1 \in 0 .. N + 1 /\ Follows(n - 1)
            /\ (n - 1) + 1 = n
        BY <2>1, <2>2, <2>12, <3>4
      <4>2. /\ was[n][b] = orig[b].code \o was[n - 1][wasNext(b)]
            /\ is[n][b] = blocks[b].code \o is[n - 1][isNext(b)]
            /\ is[n + 1][b] = blocks[b].code \o is[n][isNext(b)]
        <5> HIDE DEF m, N
        <5> QED BY <2>8, <2>9, <3>1, <3>4
      <4>3. b \in Unused \/ b \in used
        BY <2>1, <3>4 DEF Unused
      <4>4. CASE b \in Unused
        <5> DEFINE a == wasNext(b)
                   c == orig[b].code
        <5>1. /\ a \in 0 .. m /\ a \in 0 .. N /\ isNext(b) = a
              /\ c \in Code /\ blocks[b].code = c
          BY <2>1, <2>2, <2>4, <2>10, <4>4
        <5> HIDE DEF a, c, m, N
        <5>2. was[n - 1][a] \in Code /\ is[n - 1][a] \in Code /\ is[n][a] \in Code
          BY <2>8, <2>9, <3>1, <4>1, <5>1
        <5>3. /\ IsPrefix(is[n - 1][a], was[n - 1][a])
              /\ IsPrefix(was[n - 1][a], is[n][a])
          BY <4>1, <5>1
        <5>4. /\ IsPrefix(c \o is[n - 1][a], c \o was[n - 1][a])
              /\ IsPrefix(c \o was[n - 1][a], c \o is[n][a])
          BY <5>1, <5>2, <5>3, PrefixBehind
        <5> QED BY <4>2, <5>1, <5>4 DEF a, c
      <4>5. CASE b \in used
        <5> DEFINE t == isNext(b)
                   kept == blocks[b].code
                   rest == blocks[t].code
        <5>1. /\ wasNext(b) = 0 /\ t \in 1 .. N /\ isNext(t) = 0
              /\ orig[b].code = kept \o rest /\ b \in 1 .. m
          BY <2>11, <4>5
        <5>2. kept \in Code /\ rest \in Code /\ orig[b].code \in Code
              /\ t \in 0 .. N /\ t # 0 /\ 0 \in 0 .. m /\ 0 \in 0 .. N
          <6>1. 0 \in 0 .. m /\ 0 \in 0 .. N /\ b \in 1 .. N
            BY <2>1, <2>2, <5>1
          <6>2. t \in 0 .. N /\ t # 0
            BY <2>2, <5>1
          <6> HIDE DEF t, m, N
          <6>3. blocks[b].code \in Code /\ blocks[t].code \in Code /\ orig[b].code \in Code
            BY <2>1, <2>2, <5>1, <6>1
          <6> QED BY <6>1, <6>2, <6>3
        <5> HIDE DEF t, kept, rest, m, N
        <5>3. was[n][b] = orig[b].code
          <6>1. was[n - 1][0] = <<>>
            BY <2>8, <4>1, <5>2
          <6> QED BY <4>2, <5>1, <5>2, <6>1, PrefixTrivial
        <5>4. ASSUME NEW k \in 0 .. N + 1, k # 0 PROVE is[k][t] = rest
          <6>1. k - 1 \in 0 .. N + 1
            BY <2>2, <5>4
          <6>2. is[k - 1][0] = <<>>
            BY <2>9, <5>2, <6>1
          <6>3. is[k][t] = rest \o is[k - 1][isNext(t)]
            BY <2>9, <5>2, <5>4 DEF rest
          <6> QED BY <5>1, <5>2, <6>2, <6>3, PrefixTrivial
        <5>5. is[n + 1][b] = orig[b].code
          BY <3>1, <3>4, <4>2, <5>1, <5>4 DEF t, kept
        <5>6. is[n - 1][t] = rest \/ is[n - 1][t] = <<>>
          BY <2>9, <4>1, <5>2, <5>4
        <5>7. IsPrefix(is[n - 1][t], rest) /\ is[n - 1][t] \in Code
          BY <5>2, <5>6, PrefixTrivial
        <5>8. IsPrefix(kept \o is[n - 1][t], kept \o rest)
          BY <5>2, <5>7, PrefixBehind
        <5>9. is[n][b] = kept \o is[n - 1][t]
          BY <4>2 DEF t, kept
        <5> QED BY <5>1, <5>2, <5>3, <5>5, <5>8, <5>9, PrefixTrivial
      <4> QED BY <4>3, <4>4, <4>5
    <3> QED BY <3>3, <3>4
  <2>13. \A n \in 0 .. m : Follows(n)
    <3> DEFINE Bad == {n \in 0 .. m : ~ Follows(n)}
    <3> HIDE DEF Follows, m
    <3> SUFFICES ASSUME Bad # {} PROVE FALSE
      OBVIOUS
    <3>1. PICK n \in Bad : \A j \in Bad : n <= j
      <4>1. Bad \in SUBSET Nat
        BY <2>1
      <4> HIDE DEF Bad
      <4> QED BY <4>1, LeastNat
    <3>2. n \in 0 .. m /\ ~ Follows(n)
      OBVIOUS
    <3>3. n # 0 => n - 1 \in 0 .. m /\ ~ (n <= n - 1)
      BY <2>1, <3>2
    <3>4. n # 0 => Follows(n - 1)
      BY <3>1, <3>3
    <3> QED BY <2>12, <3>2, <3>4
  <2>14. \A b \in DOMAIN orig, n \in 0 .. Len(orig) :
           IsPrefix(is[n][b], was[n][b]) /\ IsPrefix(was[n][b], is[n + 1][b])
    <3>1. \A b \in DOMAIN orig : b \in 0 .. m
      BY <2>1
    <3> QED BY <2>13, <3>1
  <2> QED BY <2>14, Zenon DEF TraceKept, was, is, br
<1> QED BY IInvHolds, <1>1, PTL
-----------------------------------------------------------------------------
(***************************************************************************)
(* Sums over finite sets.                                                  *)
(***************************************************************************)
\* The sets in F are all subsets of a finite set when F holds the empty set and,
\* with each of its sets, those with one element more.
LEMMA FiniteInduction ==
    ASSUME NEW S, IsFiniteSet(S), NEW F, {} \in F,
           \A T \in SUBSET S, x \in S : T \in F /\ x \notin T => T \cup {x} \in F
    PROVE  \A T \in SUBSET S : T \in F
<1> DEFINE Bad == {n \in Nat : \E T \in SUBSET S : Cardinality(T) = n /\ T \notin F}
<1>1. \A T \in SUBSET S : IsFiniteSet(T) /\ Cardinality(T) \in Nat
  BY FS_Subset, FS_CardinalityType
<1> SUFFICES ASSUME Bad # {} PROVE FALSE
  BY <1>1
<1>2. PICK n \in Bad : \A k \in Bad : n <= k
  <2>1. Bad \in SUBSET Nat
    OBVIOUS
  <2> HIDE DEF Bad
  <2> QED BY <2>1, LeastNat
<1>3. PICK T \in SUBSET S : Cardinality(T) = n /\ T \notin F
  BY <1>2
<1>4. PICK x \in T : TRUE
  BY <1>3
<1> DEFINE U == T \ {x}
<1>5. Cardinality(U) = n - 1 /\ U \in SUBSET S /\ n - 1 \in Nat
  <2>1. IsFiniteSet(T) /\ Cardinality(T) \in Nat /\ U \in SUBSET S
    BY <1>1
  <2>2. Cardinality(U) = Cardinality(T) - 1
    BY <1>4, <2>1, FS_RemoveElement
  <2>3. Cardinality(U) \in Nat
    BY <1>1, <2>1
  <2> QED BY <1>3, <2>1, <2>2, <2>3
<1>6. U \in F
  <2>1. ~ (n <= n - 1)
    BY <1>5, <1>2
  <2>2. n - 1 \notin Bad
    BY <1>2, <2>1
  <2> HIDE DEF U
  <2> QED BY <1>5, <2>2
<1>7. U \cup {x} = T /\ x \notin U /\ x \in S
  BY <1>3, <1>4
<1> HIDE DEF U
<1> QED BY <1>3, <1>5, <1>6, <1>7

\* it sums up f over the subsets of S, one element at a time.
Sums(it, f, S) ==
    it = [s \in SUBSET S |->
            IF s = {} THEN 0 ELSE f[CHOOSE x \in s : TRUE] + it[s \ {CHOOSE x \in s : TRUE}]]

Total(f, S) == (CHOOSE it : Sums(it, f, S))[S]

IntOn(f, S) == IsFiniteSet(S) /\ \A x \in S : f[x] \in Int

\* Such a function exists.
LEMMA SumExists ==
    ASSUME NEW S, NEW f, IntOn(f, S)
    PROVE  \E it : Sums(it, f, S)
<1> DEFINE pick(s) == CHOOSE x \in s : TRUE
           T == [SUBSET S -> Int]
           none == [s \in SUBSET S |-> 0]
           step(g) == [s \in SUBSET S |->
                         IF s = {} THEN 0 ELSE f[pick(s)] + g[s \ {pick(s)}]]
           n == Cardinality(S)
           F == [i \in 1 .. n |-> [g \in T |-> step(g)]]
<1>1. \A s \in SUBSET S : s # {} => pick(s) \in s /\ s \ {pick(s)} \in SUBSET S
  OBVIOUS
<1> HIDE DEF pick
<1>2. none \in T
  OBVIOUS
<1>3. n \in Nat /\ \A x \in S : f[x] \in Int
  BY FS_CardinalityType DEF IntOn
<1>4. \A g \in T : step(g) \in T
  <2> TAKE g \in T
  <2>1. \A s \in SUBSET S : s # {} => f[pick(s)] + g[s \ {pick(s)}] \in Int
    <3> TAKE s \in SUBSET S
    <3>1. s # {} => f[pick(s)] \in Int
      BY <1>1, <1>3
    <3>2. s # {} => g[s \ {pick(s)}] \in Int
      BY <1>1
    <3> QED BY <3>1, <3>2
  <2> QED BY <2>1
<1>5. Steps(F, n, T)
  <2> HIDE DEF T, step, n
  <2> QED BY <1>4 DEF Steps
<1>6. PICK h : Iterates(h, F, n, T, none)
  <2> HIDE DEF T, F, none, n
  <2> QED BY <1>2, <1>3, <1>5, IterateExists
<1>7. /\ h \in [0 .. n -> T] /\ h[0] = none
      /\ \A i \in 1 .. n : h[i] = step(h[i - 1])
  <2>1. h \in [0 .. n -> T] /\ h[0] = none /\ \A i \in 1 .. n : h[i] = F[i][h[i - 1]]
    BY <1>6 DEF Iterates
  <2> HIDE DEF T, step, n, none
  <2>2. \A i \in 1 .. n : i - 1 \in 0 .. n
    BY <1>3
  <2> QED BY <2>1, <2>2
<1>8. \A s \in SUBSET S : /\ Cardinality(s) \in 0 .. n
                          /\ s # {} => /\ Cardinality(s) \in 1 .. n
                                       /\ Cardinality(s \ {pick(s)}) = Cardinality(s) - 1
  <2> TAKE s \in SUBSET S
  <2>1. IsFiniteSet(s) /\ Cardinality(s) \in Nat /\ Cardinality(s) <= n
    BY FS_Subset, FS_CardinalityType DEF IntOn
  <2>2. s # {} => Cardinality(s) # 0
    BY <2>1, FS_EmptySet
  <2>3. s # {} => Cardinality(s \ {pick(s)}) = Cardinality(s) - 1
    BY <1>1, <2>1, FS_RemoveElement
  <2> HIDE DEF n
  <2> QED BY <1>3, <2>1, <2>2, <2>3
<1> DEFINE it == [s \in SUBSET S |-> h[Cardinality(s)][s]]
<1> HIDE DEF n
<1>9. \A s \in SUBSET S : it[s] = IF s = {} THEN 0 ELSE f[pick(s)] + it[s \ {pick(s)}]
  <2> TAKE s \in SUBSET S
  <2>1. CASE s = {}
    <3>1. Cardinality(s) = 0
      BY <2>1, FS_EmptySet
    <3> QED BY <1>7, <2>1, <3>1
  <2>2. CASE s # {}
    <3>1. h[Cardinality(s)] = step(h[Cardinality(s) - 1])
      BY <1>7, <1>8, <2>2
    <3>2. it[s] = f[pick(s)] + h[Cardinality(s) - 1][s \ {pick(s)}]
      BY <2>2, <3>1
    <3>3. it[s \ {pick(s)}] = h[Cardinality(s) - 1][s \ {pick(s)}]
      BY <1>1, <1>8, <2>2
    <3> QED BY <2>2, <3>2, <3>3
  <2> QED BY <2>1, <2>2
<1>10. Sums(it, f, S)
  <2>1. it = [s \in SUBSET S |-> it[s]]
    OBVIOUS
  <2> HIDE DEF it
  <2>2. it = [s \in SUBSET S |-> IF s = {} THEN 0 ELSE f[pick(s)] + it[s \ {pick(s)}]]
    BY <1>9, <2>1
  <2> QED BY <2>2 DEF Sums, pick
<1> QED BY <1>10

\* Whatever element is taken out first, the sum is the same.
LEMMA SumAny ==
    ASSUME NEW S, NEW f, IntOn(f, S), NEW it, Sums(it, f, S)
    PROVE  /\ it[{}] = 0
           /\ \A T \in SUBSET S : it[T] \in Int
           /\ \A T \in SUBSET S : \A y \in T : it[T] = f[y] + it[T \ {y}]
<1> DEFINE pick(s) == CHOOSE x \in s : TRUE
           Good(T) == it[T] \in Int /\ \A y \in T : it[T] = f[y] + it[T \ {y}]
           Bad == {n \in Nat : \E T \in SUBSET S : Cardinality(T) = n /\ ~ Good(T)}
<1>1. it = [s \in SUBSET S |-> IF s = {} THEN 0 ELSE f[pick(s)] + it[s \ {pick(s)}]]
  BY DEF Sums
<1>2. \A s \in SUBSET S : s # {} => pick(s) \in s
  OBVIOUS
<1> HIDE DEF pick
<1>3. \A s \in SUBSET S : it[s] = IF s = {} THEN 0 ELSE f[pick(s)] + it[s \ {pick(s)}]
  <2> DEFINE r(s) == IF s = {} THEN 0 ELSE f[pick(s)] + it[s \ {pick(s)}]
  <2> HIDE DEF r
  <2>1. it = [s \in SUBSET S |-> r(s)]
    BY <1>1 DEF r
  <2>2. \A s \in SUBSET S : it[s] = r(s)
    BY <2>1
  <2> QED BY <2>2 DEF r
<1>4. it[{}] = 0
  BY <1>3
<1>5. \A x \in S : f[x] \in Int
  BY DEF IntOn
<1>6. \A T \in SUBSET S : /\ IsFiniteSet(T) /\ Cardinality(T) \in Nat
                          /\ \A x \in T : Cardinality(T \ {x}) = Cardinality(T) - 1
  BY FS_Subset, FS_CardinalityType, FS_RemoveElement DEF IntOn
<1>7. Bad = {}
  <2> SUFFICES ASSUME Bad # {} PROVE FALSE
    OBVIOUS
  <2>1. PICK n \in Bad : \A k \in Bad : n <= k
    <3>1. Bad \in SUBSET Nat
      OBVIOUS
    <3> HIDE DEF Bad
    <3> QED BY <3>1, LeastNat
  <2>2. PICK T \in SUBSET S : Cardinality(T) = n /\ ~ Good(T)
    BY <2>1
  <2>3. ASSUME NEW U \in SUBSET S, Cardinality(U) < n PROVE Good(U)
    <3>1. Cardinality(U) \in Nat /\ ~ (n <= Cardinality(U))
      BY <1>6, <2>1, <2>3
    <3> HIDE DEF Good
    <3> QED BY <2>1, <3>1
  <2>4. T # {}
    BY <1>4, <2>2
  <2> DEFINE p == pick(T)
             P == T \ {p}
  <2>5. p \in T /\ P \in SUBSET S /\ it[T] = f[p] + it[P] /\ f[p] \in Int
    BY <1>2, <1>3, <1>5, <2>4
  <2>6. Cardinality(P) = n - 1
    BY <1>6, <2>2, <2>5
  <2> HIDE DEF P, p
  <2>7. Good(P)
    BY <2>1, <2>3, <2>5, <2>6
  <2>8. it[T] \in Int
    BY <2>5, <2>7
  <2>9. ASSUME NEW y \in T PROVE it[T] = f[y] + it[T \ {y}]
    <3>1. CASE y = p
      BY <2>5, <3>1 DEF P
    <3>2. CASE y # p
      <4> DEFINE Y == T \ {y}
                 Q == P \ {y}
      <4>1. Y \in SUBSET S /\ Q \in SUBSET S /\ y \in P /\ p \in Y /\ Q = Y \ {p}
        BY <2>5, <3>2 DEF P
      <4>2. Cardinality(Y) = n - 1 /\ Cardinality(Q) = n - 1 - 1
        BY <1>6, <2>2, <2>5, <2>6, <4>1
      <4> HIDE DEF Y, Q
      <4>3. Good(Y) /\ Good(Q)
        <5>1. Cardinality(Y) < n /\ Cardinality(Q) < n
          BY <2>1, <4>2
        <5> HIDE DEF Good
        <5> QED BY <2>3, <4>1, <5>1
      <4>4. it[P] = f[y] + it[Q]
        BY <2>7, <4>1 DEF Q
      <4>5. it[Y] = f[p] + it[Q]
        BY <4>1, <4>3
      <4>6. f[y] \in Int /\ it[Q] \in Int
        BY <1>5, <4>3
      <4>7. it[T] = f[y] + it[Y]
        BY <2>5, <4>4, <4>5, <4>6
      <4> QED BY <4>7 DEF Y
    <3> QED BY <3>1, <3>2
  <2> QED BY <2>2, <2>8, <2>9
<1>8. \A T \in SUBSET S : Good(T)
  <2> HIDE DEF Good
  <2> QED BY <1>6, <1>7
<1> QED BY <1>4, <1>8

\* There is one sum for each subset.
LEMMA SumUnique ==
    ASSUME NEW S, NEW f, IntOn(f, S), NEW T \in SUBSET S,
           NEW it, Sums(it, f, S), NEW jt, Sums(jt, f, T)
    PROVE  jt[T] = it[T]
<1> DEFINE F == {U \in SUBSET T : jt[U] = it[U]}
<1>1. IntOn(f, T) /\ IsFiniteSet(T)
  BY FS_Subset DEF IntOn
<1>2. /\ it[{}] = 0
      /\ \A U \in SUBSET S : \A y \in U : it[U] = f[y] + it[U \ {y}]
  BY SumAny
<1>3. /\ jt[{}] = 0
      /\ \A U \in SUBSET T : \A y \in U : jt[U] = f[y] + jt[U \ {y}]
  BY <1>1, SumAny
<1>4. {} \in F
  BY <1>2, <1>3
<1>5. \A U \in SUBSET T, x \in T : U \in F /\ x \notin U => U \cup {x} \in F
  <2> SUFFICES ASSUME NEW U \in SUBSET T, NEW x \in T, U \in F, x \notin U
               PROVE  U \cup {x} \in F
    OBVIOUS
  <2>1. (U \cup {x}) \ {x} = U /\ x \in U \cup {x} /\ U \cup {x} \in SUBSET T
    OBVIOUS
  <2>2. U \cup {x} \in SUBSET S
    BY <2>1
  <2>3. jt[U \cup {x}] = f[x] + jt[U] /\ it[U \cup {x}] = f[x] + it[U] /\ jt[U] = it[U]
    BY <1>2, <1>3, <2>1, <2>2
  <2> QED BY <2>1, <2>3
<1>6. T \in F
  <2> HIDE DEF F
  <2>1. \A U \in SUBSET T : U \in F
    BY <1>1, <1>4, <1>5, FiniteInduction
  <2> QED BY <2>1
<1> QED BY <1>6

\* What a sum over a finite set is.
LEMMA TotalIs ==
    ASSUME NEW S, NEW f, IntOn(f, S)
    PROVE  /\ Total(f, S) \in Int
           /\ Total(f, {}) = 0
           /\ \A y \in S : Total(f, S) = f[y] + Total(f, S \ {y})
<1> DEFINE it == CHOOSE jt : Sums(jt, f, S)
<1>1. Sums(it, f, S)
  BY SumExists
<1> HIDE DEF it
<1>2. /\ it[{}] = 0
      /\ \A T \in SUBSET S : it[T] \in Int
      /\ \A T \in SUBSET S : \A y \in T : it[T] = f[y] + it[T \ {y}]
  BY <1>1, SumAny
<1>3. Total(f, S) = it[S]
  BY DEF Total, it
<1>4. ASSUME NEW T \in SUBSET S PROVE Total(f, T) = it[T]
  <2> DEFINE jt == CHOOSE kt : Sums(kt, f, T)
  <2>1. IntOn(f, T)
    BY FS_Subset DEF IntOn
  <2>2. Sums(jt, f, T)
    BY <2>1, SumExists
  <2>3. Total(f, T) = jt[T]
    BY DEF Total
  <2> HIDE DEF jt
  <2> QED BY <1>1, <2>2, <2>3, SumUnique
<1>5. \A y \in S : S \ {y} \in SUBSET S
  OBVIOUS
<1> QED BY <1>2, <1>3, <1>4, <1>5

\* Sums of two functions over one set, element by element.
LEMMA TotalCompare ==
    ASSUME NEW S, NEW f, NEW g, IntOn(f, S), IntOn(g, S)
    PROVE  /\ (\A x \in S : f[x] = g[x]) => Total(f, S) = Total(g, S)
           /\ (\A x \in S : f[x] <= g[x]) => Total(f, S) <= Total(g, S)
<1>1. IsFiniteSet(S) /\ \A x \in S : f[x] \in Int /\ g[x] \in Int
  BY DEF IntOn
<1>2. \A T \in SUBSET S : IntOn(f, T) /\ IntOn(g, T)
  BY FS_Subset DEF IntOn
<1> DEFINE F == {T \in SUBSET S : (\A x \in T : f[x] <= g[x]) => Total(f, T) <= Total(g, T)}
           E == {T \in SUBSET S : (\A x \in T : f[x] = g[x]) => Total(f, T) = Total(g, T)}
<1>3. {} \in F /\ {} \in E
  BY <1>2, TotalIs
<1>4. ASSUME NEW T \in SUBSET S, NEW x \in S, x \notin T
      PROVE  (T \in F => T \cup {x} \in F) /\ (T \in E => T \cup {x} \in E)
  <2> DEFINE U == T \cup {x}
  <2>1. U \in SUBSET S /\ x \in U /\ U \ {x} = T
    BY <1>4
  <2>2. IntOn(f, U) /\ IntOn(g, U) /\ IntOn(f, T) /\ IntOn(g, T)
    BY <1>2, <2>1
  <2>3. /\ Total(f, U) = f[x] + Total(f, T) /\ Total(g, U) = g[x] + Total(g, T)
        /\ Total(f, T) \in Int /\ Total(g, T) \in Int /\ f[x] \in Int /\ g[x] \in Int
    BY <1>1, <2>1, <2>2, TotalIs
  <2> QED BY <2>1, <2>3
<1>5. S \in F /\ S \in E
  <2> HIDE DEF E, F
  <2> QED BY <1>1, <1>3, <1>4, FiniteInduction
<1> QED BY <1>5

\* A sum of natural numbers is one.
LEMMA TotalNat ==
    ASSUME NEW S, NEW f, IsFiniteSet(S), \A x \in S : f[x] \in Nat
    PROVE  IntOn(f, S) /\ Total(f, S) \in Nat
<1> DEFINE z == [x \in S |-> 0]
<1>1. IntOn(f, S) /\ IntOn(z, S) /\ \A x \in S : z[x] <= f[x]
  BY DEF IntOn
<1>2. Total(z, S) = 0
  <2> DEFINE F == {T \in SUBSET S : Total(z, T) = 0}
  <2>1. \A T \in SUBSET S : IntOn(z, T)
    BY <1>1, FS_Subset DEF IntOn
  <2>2. {} \in F
    BY <2>1, TotalIs
  <2>3. ASSUME NEW T \in SUBSET S, NEW x \in S, T \in F, x \notin T PROVE T \cup {x} \in F
    <3>1. T \cup {x} \in SUBSET S /\ x \in T \cup {x} /\ (T \cup {x}) \ {x} = T
      BY <2>3
    <3>2. Total(z, T \cup {x}) = z[x] + Total(z, T) /\ z[x] = 0 /\ Total(z, T) = 0
      BY <2>1, <2>3, <3>1, TotalIs
    <3> QED BY <3>1, <3>2
  <2> HIDE DEF F
  <2>4. S \in F
    BY <2>2, <2>3, FiniteInduction
  <2> QED BY <2>4 DEF F
<1>3. Total(z, S) <= Total(f, S) /\ Total(f, S) \in Int
  <2> HIDE DEF z
  <2> QED BY <1>1, TotalCompare, TotalIs
<1> QED BY <1>1, <1>2, <1>3

\* The function that a fold adds up.
LEMMA TotalFrom ==
    ASSUME NEW S, NEW f, IntOn(f, S), NEW it, Sums(it, f, S)
    PROVE  it[S] = Total(f, S)
<1> DEFINE jt == CHOOSE kt : Sums(kt, f, S)
<1>1. Sums(jt, f, S)
  BY SumExists
<1>2. Total(f, S) = jt[S]
  BY DEF Total
<1> HIDE DEF jt
<1>3. jt[S] = it[S]
  BY <1>1, SumUnique
<1> QED BY <1>2, <1>3

-----------------------------------------------------------------------------
(***************************************************************************)
(* The size of a function.                                                 *)
(***************************************************************************)
SizesOf(code) == [k \in DOMAIN code |-> Size[code[k]]]

\* The bytes of a piece of code are the sum of its sizes.
LEMMA BytesIs ==
    ASSUME NEW code, IntOn(SizesOf(code), DOMAIN code)
    PROVE  Bytes(code) = Total(SizesOf(code), DOMAIN code)
<1> DEFINE D == DOMAIN code
           f == SizesOf(code)
           pick(s) == CHOOSE x \in s : TRUE
           row(jt, s) == IF s = {} THEN 0 ELSE Size[code[pick(s)]] + jt[s \ {pick(s)}]
           Eq(jt) == jt = [s \in SUBSET D |-> row(jt, s)]
           it == CHOOSE jt : Eq(jt)
<1>1. Bytes(code) = it[D]
  BY Zenon DEF Bytes, FoldSeq, FoldFunction, FoldFunctionOnSet, MapThenFoldSet
<1>2. \A s \in SUBSET D : s # {} => Size[code[pick(s)]] = f[pick(s)]
  BY DEF SizesOf
<1>3. \A jt : Sums(jt, f, D) <=> Eq(jt)
  <2> TAKE kt
  <2> DEFINE r(s) == IF s = {} THEN 0 ELSE f[pick(s)] + kt[s \ {pick(s)}]
  <2>1. Sums(kt, f, D) <=> kt = [s \in SUBSET D |-> r(s)]
    BY DEF Sums
  <2>2. \A s \in SUBSET D : r(s) = row(kt, s)
    BY <1>2
  <2> HIDE DEF r, row
  <2> QED BY <2>1, <2>2
<1>4. Eq(it)
  <2> HIDE DEF Eq
  <2> QED BY <1>3, SumExists
<1> HIDE DEF Eq, it
<1>5. it[D] = Total(f, D)
  BY <1>3, <1>4, TotalFrom
<1> QED BY <1>1, <1>5

BlockBytes(bs, br) ==
    [b \in DOMAIN bs |-> Bytes(bs[b].code) + IF br[b] = 0 THEN 0 ELSE BranchSize]

\* The size of a function is the sum of those of its blocks.
LEMMA CodeSizeIs ==
    ASSUME NEW bs, NEW br, IntOn(BlockBytes(bs, br), DOMAIN bs)
    PROVE  CodeSize(bs, br) = Total(BlockBytes(bs, br), DOMAIN bs)
<1> DEFINE D == DOMAIN bs
           f == BlockBytes(bs, br)
           size(b) == Bytes(bs[b].code) + IF br[b] = 0 THEN 0 ELSE BranchSize
           pick(s) == CHOOSE x \in s : TRUE
           row(jt, s) == IF s = {} THEN 0 ELSE size(pick(s)) + jt[s \ {pick(s)}]
           Eq(jt) == jt = [s \in SUBSET D |-> row(jt, s)]
           it == CHOOSE jt : Eq(jt)
<1>1. CodeSize(bs, br) = it[D]
  BY Zenon DEF CodeSize, MapThenSumSet, MapThenFoldSet
<1>2. \A s \in SUBSET D : s # {} => size(pick(s)) = f[pick(s)]
  BY DEF BlockBytes
<1>3. \A jt : Sums(jt, f, D) <=> Eq(jt)
  <2> TAKE kt
  <2> DEFINE r(s) == IF s = {} THEN 0 ELSE f[pick(s)] + kt[s \ {pick(s)}]
  <2>1. Sums(kt, f, D) <=> kt = [s \in SUBSET D |-> r(s)]
    BY DEF Sums
  <2> HIDE DEF size
  <2>2. \A s \in SUBSET D : r(s) = row(kt, s)
    BY <1>2
  <2> HIDE DEF r, row
  <2> QED BY <2>1, <2>2
<1>4. Eq(it)
  <2> HIDE DEF Eq
  <2> QED BY <1>3, SumExists
<1> HIDE DEF Eq, it
<1>5. it[D] = Total(f, D)
  BY <1>3, <1>4, TotalFrom
<1> QED BY <1>1, <1>5

\* The sizes of the instructions of a piece of code can be added up.
LEMMA BytesTotal ==
    ASSUME NEW c \in Code
    PROVE  /\ Len(c) \in Nat /\ DOMAIN c = 1 .. Len(c)
           /\ \A k \in 1 .. Len(c) : SizesOf(c)[k] \in Nat /\ SizesOf(c)[k] = Size[c[k]]
           /\ \A k \in 0 .. Len(c) : IntOn(SizesOf(c), 1 .. k)
           /\ Bytes(c) = Total(SizesOf(c), 1 .. Len(c))
           /\ Bytes(c) \in Nat
<1>1. /\ Len(c) \in Nat /\ DOMAIN c = 1 .. Len(c)
      /\ \A k \in 1 .. Len(c) : c[k] \in DOMAIN Size
  BY DEF Code, Instr
<1>2. \A k \in 1 .. Len(c) : SizesOf(c)[k] = Size[c[k]] /\ Size[c[k]] \in Nat
  BY <1>1, TailMergeAssumption DEF SizesOf
<1>3. \A k \in 0 .. Len(c) : /\ IsFiniteSet(1 .. k)
                             /\ \A j \in 1 .. k : SizesOf(c)[j] \in Nat
  <2> TAKE k \in 0 .. Len(c)
  <2>1. k \in Int /\ \A j \in 1 .. k : j \in 1 .. Len(c)
    BY <1>1
  <2>2. IsFiniteSet(1 .. k)
    BY <2>1, FS_Interval
  <2> QED BY <1>2, <2>1, <2>2
<1>4. \A k \in 0 .. Len(c) : IntOn(SizesOf(c), 1 .. k)
  BY <1>3, TotalNat
<1>5. Len(c) \in 0 .. Len(c)
  BY <1>1
<1>6. Bytes(c) = Total(SizesOf(c), 1 .. Len(c))
  BY <1>1, <1>4, <1>5, BytesIs
<1>7. Total(SizesOf(c), 1 .. Len(c)) \in Nat
  BY <1>3, <1>5, TotalNat
<1> QED BY <1>1, <1>2, <1>4, <1>6, <1>7

\* A sum over an interval ends with its last element.
LEMMA TotalLast ==
    ASSUME NEW k \in Nat, k # 0, NEW f, IntOn(f, 1 .. k)
    PROVE  Total(f, 1 .. k) = f[k] + Total(f, 1 .. k - 1)
<1> DEFINE D == 1 .. k
           E == 1 .. k - 1
<1>1. k \in D /\ D \ {k} = E
  OBVIOUS
<1>2. IntOn(f, D)
  OBVIOUS
<1> HIDE DEF D, E
<1>3. Total(f, D) = f[k] + Total(f, D \ {k})
  BY <1>1, <1>2, TotalIs
<1>4. Total(f, D) = f[k] + Total(f, E)
  BY <1>1, <1>3
<1> QED BY <1>4 DEF D, E

\* The bytes of two pieces of code together.
LEMMA BytesConcat ==
    ASSUME NEW s \in Code, NEW t \in Code
    PROVE  /\ Bytes(s \o t) = Bytes(s) + Bytes(t)
           /\ Bytes(s) \in Nat /\ Bytes(t) \in Nat
<1> DEFINE x == s \o t
           n == Len(s)
           m == Len(t)
           fx == SizesOf(x)
           fs == SizesOf(s)
           ft == SizesOf(t)
           Adds(k) == Total(fx, 1 .. n + k) = Total(fs, 1 .. n) + Total(ft, 1 .. k)
           Bad == {k \in 0 .. m : ~ Adds(k)}
<1>1. n \in Nat /\ m \in Nat /\ s \in Seq(Instr) /\ t \in Seq(Instr)
  BY DEF Code
<1>2. /\ x \in Code /\ Len(x) = n + m
      /\ \A k \in 1 .. n + m : x[k] = IF k <= n THEN s[k] ELSE t[k - n]
  BY <1>1, ConcatProperties DEF Code
<1>3. /\ \A k \in 1 .. n : fs[k] \in Nat /\ fs[k] = Size[s[k]]
      /\ IntOn(fs, 1 .. n) /\ Bytes(s) = Total(fs, 1 .. n) /\ Bytes(s) \in Nat
  <2>1. n \in 0 .. n
    BY <1>1
  <2> QED BY <2>1, BytesTotal
<1>4. /\ \A k \in 1 .. m : ft[k] \in Nat /\ ft[k] = Size[t[k]]
      /\ \A k \in 0 .. m : IntOn(ft, 1 .. k)
      /\ Bytes(t) = Total(ft, 1 .. m) /\ Bytes(t) \in Nat
  BY BytesTotal
<1> HIDE DEF x
<1>5. /\ \A k \in 1 .. n + m : fx[k] \in Nat /\ fx[k] = Size[x[k]]
      /\ \A k \in 0 .. n + m : IntOn(fx, 1 .. k)
      /\ Bytes(x) = Total(fx, 1 .. n + m)
  BY <1>2, BytesTotal
<1> HIDE DEF n, m, fx, fs, ft
<1>6. /\ \A k \in 1 .. n : fx[k] = fs[k]
      /\ \A k \in 1 .. m : fx[n + k] = ft[k]
  <2>1. \A k \in 1 .. n : k \in 1 .. n + m /\ k <= n
    BY <1>1
  <2>2. \A k \in 1 .. m : n + k \in 1 .. n + m /\ ~ (n + k <= n) /\ (n + k) - n = k
    BY <1>1
  <2>3. \A k \in 1 .. n : x[k] = s[k]
    BY <1>2, <2>1
  <2>4. \A k \in 1 .. m : x[n + k] = t[k]
    BY <1>2, <2>2
  <2> QED BY <1>3, <1>4, <1>5, <2>1, <2>2, <2>3, <2>4
<1>7. Bad = {}
  <2> SUFFICES ASSUME Bad # {} PROVE FALSE
    OBVIOUS
  <2>1. PICK k \in Bad : \A j \in Bad : k <= j
    <3>1. Bad \in SUBSET Nat
      BY <1>1
    <3> HIDE DEF Bad
    <3> QED BY <3>1, LeastNat
  <2>2. k \in 0 .. m /\ ~ Adds(k)
    OBVIOUS
  <2>3. CASE k = 0
    <3>1. IntOn(fx, 1 .. n)
      BY <1>1, <1>5
    <3>2. Total(fx, 1 .. n) = Total(fs, 1 .. n)
      BY <1>3, <1>6, <3>1, TotalCompare
    <3>3. Total(ft, 1 .. 0) = 0
      <4>1. 1 .. 0 = {} /\ 0 \in 0 .. m
        BY <1>1
      <4> QED BY <1>4, <4>1, TotalIs
    <3>4. Total(fs, 1 .. n) \in Int
      BY <1>3
    <3> QED BY <1>1, <2>2, <2>3, <3>2, <3>3, <3>4
  <2>4. CASE k # 0
    <3>1. /\ k \in 1 .. m /\ k - 1 \in 0 .. m /\ n + k \in 1 .. n + m /\ n + k \in 0 .. n + m
          /\ n + (k - 1) \in 0 .. n + m /\ ~ (k <= k - 1) /\ (n + k) - 1 = n + (k - 1)
          /\ k \in Nat /\ n + k \in Nat /\ n + k # 0
      BY <1>1, <2>2, <2>4
    <3>2. Adds(k - 1)
      BY <2>1, <3>1
    <3>3. Total(fx, 1 .. n + k) = fx[n + k] + Total(fx, 1 .. n + (k - 1))
      <4> DEFINE h == n + k
      <4>1. IntOn(fx, 1 .. h)
        BY <1>5, <3>1
      <4>2. h \in Nat /\ h # 0 /\ h - 1 = n + (k - 1)
        BY <3>1
      <4> HIDE DEF h
      <4>3. Total(fx, 1 .. h) = fx[h] + Total(fx, 1 .. h - 1)
        BY <4>1, <4>2, TotalLast
      <4> QED BY <4>2, <4>3 DEF h
    <3>4. Total(ft, 1 .. k) = ft[k] + Total(ft, 1 .. k - 1)
      BY <1>4, <2>2, <2>4, <3>1, TotalLast
    <3>5. /\ Total(fx, 1 .. n + (k - 1)) \in Int /\ Total(ft, 1 .. k - 1) \in Int
          /\ Total(fs, 1 .. n) \in Int /\ fx[n + k] = ft[k] /\ ft[k] \in Nat
      BY <1>3, <1>4, <1>5, <1>6, <3>1, TotalIs
    <3> QED BY <2>2, <3>2, <3>3, <3>4, <3>5
  <2> QED BY <2>3, <2>4
<1>8. Adds(m)
  <2>1. m \in 0 .. m
    BY <1>1
  <2> HIDE DEF Adds
  <2> QED BY <1>7, <2>1
<1> QED BY <1>3, <1>4, <1>5, <1>8 DEF x

\* What a block takes is a number of bytes.
LEMMA BlockBytesNat ==
    ASSUME NEW bs, NEW br, DOMAIN bs = 1 .. Len(bs), Len(bs) \in Nat,
           \A b \in DOMAIN bs : bs[b].code \in Code
    PROVE  /\ \A b \in DOMAIN bs :
                 BlockBytes(bs, br)[b]
                   = Bytes(bs[b].code) + IF br[b] = 0 THEN 0 ELSE BranchSize
           /\ \A b \in DOMAIN bs : BlockBytes(bs, br)[b] \in Nat
           /\ IntOn(BlockBytes(bs, br), DOMAIN bs)
           /\ CodeSize(bs, br) = Total(BlockBytes(bs, br), DOMAIN bs)
<1>1. \A b \in DOMAIN bs : Bytes(bs[b].code) \in Nat
  BY BytesTotal
<1>2. \A b \in DOMAIN bs :
        BlockBytes(bs, br)[b] = Bytes(bs[b].code) + IF br[b] = 0 THEN 0 ELSE BranchSize
  BY DEF BlockBytes
<1>3. \A b \in DOMAIN bs : BlockBytes(bs, br)[b] \in Nat
  BY <1>1, <1>2, TailMergeAssumption
<1>4. IsFiniteSet(DOMAIN bs)
  BY FS_Interval
<1>5. IntOn(BlockBytes(bs, br), DOMAIN bs)
  BY <1>3, <1>4, TotalNat
<1> QED BY <1>2, <1>3, <1>5, CodeSizeIs

\* What a merge does to the bytes of each block: the source in front of the tail
\* loses what the tail has, each other source gets at most a branch for it.
LEMMA MergedBytes ==
    ASSUME IInv, pc = "merge", NEW g \in groups,
           NEW f, f = BlockBytes(blocks, fixBranches(blocks, layout)),
           NEW l, l = LaidOut(g, Len(blocks) + 1),
           NEW h, h = BlockBytes(Merged(g), fixBranches(Merged(g), l))
    PROVE  /\ \A b \in DOMAIN blocks \ g : h[b] = f[b]
           /\ \A b \in g : h[b] \in Nat /\ h[b] <= f[b] - SuffixSize(Min(g)) + BranchSize
           /\ h[chooseFallthroughSource(g)] + h[Len(blocks) + 1] = f[chooseFallthroughSource(g)]
           /\ \A b \in DOMAIN blocks : f[b] \in Nat
           /\ \A b \in 1 .. Len(blocks) + 1 : h[b] \in Nat
           /\ SuffixSize(Min(g)) \in Nat
<1> DEFINE N == Len(blocks)
           src == chooseFallthroughSource(g)
           tail == Suffix(Min(g))
<1>1. /\ N \in Nat /\ DOMAIN blocks = 1 .. N /\ DOMAIN orig \subseteq DOMAIN blocks
      /\ \A b \in DOMAIN blocks : blocks[b].code \in Code
  BY BlocksShape DEF IInv, Types
<1>2. /\ Len(Merged(g)) = N + 1 /\ DOMAIN Merged(g) = 1 .. N + 1
      /\ \A b \in DOMAIN blocks \ g : Merged(g)[b] = blocks[b]
      /\ \A b \in g : Merged(g)[b].code = Erased(b) /\ Merged(g)[b].succ = N + 1
      /\ Merged(g)[N + 1].code = tail /\ Merged(g)[N + 1].succ = 0
  BY MergedShape
<1>3. /\ \A b \in DOMAIN blocks \ g : BlockAfter(Merged(g), l, b) = BlockAfter(blocks, layout, b)
      /\ BlockAfter(Merged(g), l, src) = N + 1
  BY MergedLayout
<1>4. \A b \in g : /\ b \in DOMAIN blocks /\ blocks[b].succ = 0
                   /\ blocks[b].code = Erased(b) \o tail
                   /\ Erased(b) \in Code /\ tail \in Code
  BY <1>1, SourceCut DEF Candidate
<1>5. src \in g
  BY BehindSource
<1>6. tail \in Code
  BY <1>4, <1>5
<1> HIDE DEF N, src
<1>7. ASSUME NEW b \in 1 .. N + 1 PROVE Merged(g)[b].code \in Code
  <2>1. b \in g \/ b \in DOMAIN blocks \ g \/ b = N + 1
    BY <1>1
  <2> QED BY <1>1, <1>2, <1>4, <1>6, <2>1
<1>8. /\ \A b \in 1 .. N : f[b] \in Nat
      /\ \A b \in 1 .. N :
           f[b] = Bytes(blocks[b].code)
                  + IF fixBranches(blocks, layout)[b] = 0 THEN 0 ELSE BranchSize
  BY <1>1, BlockBytesNat DEF N
<1>9. /\ \A b \in 1 .. N + 1 : h[b] \in Nat
      /\ \A b \in 1 .. N + 1 :
           h[b] = Bytes(Merged(g)[b].code)
                  + IF fixBranches(Merged(g), l)[b] = 0 THEN 0 ELSE BranchSize
  <2> DEFINE m == Merged(g)
             br == fixBranches(m, l)
  <2>1. /\ DOMAIN m = 1 .. Len(m) /\ Len(m) \in Nat /\ DOMAIN m = 1 .. N + 1
        /\ \A b \in DOMAIN m : m[b].code \in Code
    BY <1>1, <1>2, <1>7
  <2>2. h = BlockBytes(m, br)
    OBVIOUS
  <2> HIDE DEF m, br
  <2>3. /\ \A b \in DOMAIN m :
             BlockBytes(m, br)[b] = Bytes(m[b].code) + IF br[b] = 0 THEN 0 ELSE BranchSize
        /\ \A b \in DOMAIN m : BlockBytes(m, br)[b] \in Nat
    BY <2>1, BlockBytesNat
  <2> HIDE DEF N
  <2>4. ASSUME NEW b \in 1 .. N + 1 PROVE
          /\ h[b] \in Nat
          /\ h[b] = Bytes(m[b].code) + IF br[b] = 0 THEN 0 ELSE BranchSize
    <3>1. b \in DOMAIN m /\ h[b] = BlockBytes(m, br)[b]
      BY <2>1, <2>2
    <3> QED BY <2>3, <3>1, Zenon
  <2> QED BY <2>4 DEF m, br
<1>10. \A b \in 1 .. N : fixBranches(blocks, layout)[b] =
          IF blocks[b].succ = 0 \/ blocks[b].succ = BlockAfter(blocks, layout, b)
          THEN 0 ELSE blocks[b].succ
  BY <1>1 DEF fixBranches
<1>11. \A b \in 1 .. N + 1 : fixBranches(Merged(g), l)[b] =
          IF Merged(g)[b].succ = 0 \/ Merged(g)[b].succ = BlockAfter(Merged(g), l, b)
          THEN 0 ELSE Merged(g)[b].succ
  BY <1>2 DEF fixBranches
<1>12. \A b \in 1 .. N : b \in 1 .. N + 1
  BY <1>1
<1>13. N + 1 \in 1 .. N + 1
  BY <1>1
<1>14. \A b \in DOMAIN blocks \ g : h[b] = f[b]
  <2> TAKE b \in DOMAIN blocks \ g
  <2>1. b \in 1 .. N /\ b \in 1 .. N + 1
    BY <1>1, <1>12
  <2>2. fixBranches(Merged(g), l)[b] = fixBranches(blocks, layout)[b]
    BY <1>2, <1>3, <1>10, <1>11, <2>1
  <2>3. Merged(g)[b].code = blocks[b].code
    BY <1>2
  <2> QED BY <1>8, <1>9, <2>1, <2>2, <2>3
<1>15. \A b \in g : /\ f[b] = Bytes(Erased(b)) + Bytes(tail)
                    /\ h[b] = Bytes(Erased(b))
                              + IF fixBranches(Merged(g), l)[b] = 0 THEN 0 ELSE BranchSize
                    /\ Bytes(Erased(b)) \in Nat /\ Bytes(tail) \in Nat
  <2> TAKE b \in g
  <2>1. b \in 1 .. N /\ b \in 1 .. N + 1
    BY <1>1, <1>4, <1>12
  <2>2. fixBranches(blocks, layout)[b] = 0
    BY <1>4, <1>10, <2>1
  <2>3. Bytes(blocks[b].code) = Bytes(Erased(b)) + Bytes(tail)
        /\ Bytes(Erased(b)) \in Nat /\ Bytes(tail) \in Nat
    <3> HIDE DEF tail
    <3> QED BY <1>4, BytesConcat
  <2>4. Merged(g)[b].code = Erased(b)
    BY <1>2
  <2> QED BY <1>8, <1>9, <2>1, <2>2, <2>3, <2>4
<1>16. h[N + 1] = Bytes(tail)
  <2>1. fixBranches(Merged(g), l)[N + 1] = 0
    BY <1>2, <1>11, <1>13
  <2>2. Bytes(tail) \in Nat
    BY <1>5, <1>15
  <2> QED BY <1>2, <1>9, <1>13, <2>1, <2>2
<1>17. h[src] = Bytes(Erased(src))
  <2>1. src \in 1 .. N + 1 /\ Merged(g)[src].succ = N + 1
    BY <1>1, <1>2, <1>4, <1>5, <1>12
  <2>2. fixBranches(Merged(g), l)[src] = 0
    BY <1>3, <1>11, <2>1
  <2> QED BY <1>5, <1>15, <2>2
<1>18. SuffixSize(Min(g)) = Bytes(tail)
  BY DEF SuffixSize
<1>19. \A b \in g : h[b] \in Nat /\ h[b] <= f[b] - SuffixSize(Min(g)) + BranchSize
  <2> TAKE b \in g
  <2>1. b \in 1 .. N + 1
    BY <1>1, <1>4, <1>12
  <2> QED BY <1>9, <1>15, <1>18, <2>1, TailMergeAssumption
<1>20. h[src] + h[N + 1] = f[src]
  BY <1>5, <1>15, <1>16, <1>17
<1> QED BY <1>1, <1>5, <1>8, <1>9, <1>14, <1>15, <1>18, <1>19, <1>20 DEF N, src

\* Every merge makes the function smaller.
LEMMA MergeShrinks ==
    ASSUME IInv, pc = "merge", NEW g \in groups, WorthMerging(g),
           NEW l, l = LaidOut(g, Len(blocks) + 1)
    PROVE  /\ CodeSize(Merged(g), fixBranches(Merged(g), l))
                < CodeSize(blocks, fixBranches(blocks, layout))
           /\ CodeSize(Merged(g), fixBranches(Merged(g), l)) \in Nat
           /\ CodeSize(blocks, fixBranches(blocks, layout)) \in Nat
<1> DEFINE N == Len(blocks)
           D == 1 .. N
           src == chooseFallthroughSource(g)
           f == BlockBytes(blocks, fixBranches(blocks, layout))
           h == BlockBytes(Merged(g), fixBranches(Merged(g), l))
           S == SuffixSize(Min(g))
<1>1. N \in Nat /\ DOMAIN blocks = D /\ \A b \in DOMAIN blocks : blocks[b].code \in Code
  BY BlocksShape DEF IInv, Types
<1>2. Len(Merged(g)) = N + 1 /\ DOMAIN Merged(g) = 1 .. N + 1
  BY MergedShape
<1>3. /\ \A b \in D \ g : h[b] = f[b]
      /\ \A b \in g : h[b] \in Nat /\ h[b] <= f[b] - S + BranchSize
      /\ h[src] + h[N + 1] = f[src]
      /\ \A b \in D : f[b] \in Nat
      /\ \A b \in 1 .. N + 1 : h[b] \in Nat
      /\ S \in Nat
  <2>1. f = BlockBytes(blocks, fixBranches(blocks, layout))
        /\ h = BlockBytes(Merged(g), fixBranches(Merged(g), l))
    OBVIOUS
  <2> HIDE DEF f, h
  <2>2. /\ \A b \in DOMAIN blocks \ g : h[b] = f[b]
        /\ \A b \in g : h[b] \in Nat /\ h[b] <= f[b] - SuffixSize(Min(g)) + BranchSize
        /\ h[chooseFallthroughSource(g)] + h[Len(blocks) + 1] = f[chooseFallthroughSource(g)]
        /\ \A b \in DOMAIN blocks : f[b] \in Nat
        /\ \A b \in 1 .. Len(blocks) + 1 : h[b] \in Nat
        /\ SuffixSize(Min(g)) \in Nat
    BY <2>1, MergedBytes
  <2> QED BY <1>1, <2>2, Zenon
<1>4. Cardinality(g) >= 2 /\ S > BranchSize /\ BranchSize \in Nat
  BY TailMergeAssumption DEF WorthMerging
<1>5. src \in g /\ g \subseteq D /\ IsFiniteSet(g)
  <2>1. g \in SUBSET DOMAIN orig /\ orig \in Functions /\ DOMAIN orig \subseteq DOMAIN blocks
    BY BlocksShape DEF IInv, Types, GroupsInv, Unused
  <2> QED BY <1>1, <2>1, BehindSource, BlocksFinite
<1>6. PICK a \in g : a # src
  <2> SUFFICES ASSUME \A b \in g : b = src PROVE FALSE
    OBVIOUS
  <2>1. g = {src}
    BY <1>5
  <2>2. Cardinality(g) = 1
    <3> HIDE DEF src
    <3> QED BY <2>1, FS_Singleton
  <2> QED BY <1>4, <2>2
<1>7. CodeSize(blocks, fixBranches(blocks, layout)) = Total(f, D)
  BY <1>1, BlockBytesNat
<1>8. CodeSize(Merged(g), fixBranches(Merged(g), l)) = Total(h, 1 .. N + 1)
  <2> DEFINE m == Merged(g)
             br == fixBranches(m, l)
  <2>1. DOMAIN m = 1 .. Len(m) /\ Len(m) \in Nat /\ DOMAIN m = 1 .. N + 1
    BY <1>1, <1>2
  <2>2. \A b \in DOMAIN m : m[b].code \in Code
    <3> SUFFICES ASSUME NEW b \in DOMAIN m PROVE m[b].code \in Code
      OBVIOUS
    <3>1. /\ \A c \in DOMAIN blocks \ g : m[c] = blocks[c]
          /\ \A c \in g : m[c].code = Erased(c)
          /\ m[N + 1].code = Suffix(Min(g))
      BY MergedShape
    <3>2. \A c \in g : Erased(c) \in Code /\ Suffix(Min(g)) \in Code
      BY SourceCut
    <3>3. b \in g \/ b \in DOMAIN blocks \ g \/ b = N + 1
      BY <1>1, <2>1
    <3> QED BY <1>1, <1>5, <3>1, <3>2, <3>3
  <2> HIDE DEF m, br
  <2>3. CodeSize(m, br) = Total(BlockBytes(m, br), DOMAIN m)
    BY <2>1, <2>2, BlockBytesNat
  <2> QED BY <2>1, <2>3 DEF m, br
<1> HIDE DEF f, h, src, S, N
<1>9. /\ \A T \in SUBSET D : IntOn(f, T) /\ IntOn(h, T)
      /\ IntOn(h, 1 .. N + 1) /\ Total(f, D) \in Nat /\ Total(h, 1 .. N + 1) \in Nat
  <2>1. IsFiniteSet(D) /\ IsFiniteSet(1 .. N + 1)
    BY <1>1, FS_Interval
  <2>2. \A b \in D : b \in 1 .. N + 1
    BY <1>1
  <2>3. \A T \in SUBSET D : IsFiniteSet(T)
    BY <2>1, FS_Subset
  <2>4. Total(f, D) \in Nat
    BY <1>3, <2>1, TotalNat
  <2>5. IntOn(h, 1 .. N + 1) /\ Total(h, 1 .. N + 1) \in Nat
    BY <1>3, <2>1, TotalNat
  <2>6. \A T \in SUBSET D : IntOn(f, T) /\ IntOn(h, T)
    <3> TAKE T \in SUBSET D
    <3>1. \A b \in T : f[b] \in Int /\ h[b] \in Int
      BY <1>3, <2>2
    <3> QED BY <2>3, <3>1 DEF IntOn
  <2> QED BY <2>4, <2>5, <2>6
<1> DEFINE P == D \ {src}
           Q == P \ {a}
<1>10. /\ P \in SUBSET D /\ Q \in SUBSET D /\ src \in D /\ a \in P /\ a \in D
       /\ D \in SUBSET D
  BY <1>5, <1>6
<1>11. Total(h, 1 .. N + 1) = h[N + 1] + Total(h, D)
  <2> DEFINE k == N + 1
  <2>1. k \in Nat /\ k # 0 /\ k - 1 = N
    BY <1>1
  <2> HIDE DEF k
  <2>2. IntOn(h, 1 .. k)
    BY <1>9 DEF k
  <2>3. Total(h, 1 .. k) = h[k] + Total(h, 1 .. k - 1)
    BY <2>1, <2>2, TotalLast
  <2> QED BY <2>1, <2>3 DEF k
<1> HIDE DEF D
<1>12. Total(h, D) = h[src] + Total(h, P) /\ Total(f, D) = f[src] + Total(f, P)
  BY <1>9, <1>10, TotalIs
<1> HIDE DEF P
<1>13. Total(h, P) = h[a] + Total(h, Q) /\ Total(f, P) = f[a] + Total(f, Q)
  BY <1>9, <1>10, TotalIs
<1>14. h[N + 1] \in Nat /\ h[src] \in Nat /\ f[src] \in Nat /\ f[a] \in Nat /\ h[a] \in Nat
  <2>1. N + 1 \in 1 .. N + 1
    BY <1>1
  <2> QED BY <1>3, <1>5, <1>10, <2>1
<1>15. \A b \in Q : h[b] <= f[b]
  <2> TAKE b \in Q
  <2>1. b \in D
    BY <1>10
  <2>2. f[b] \in Nat
    BY <1>3, <2>1
  <2>3. CASE b \in g
    <3>1. h[b] \in Nat /\ h[b] <= f[b] - S + BranchSize
      BY <1>3, <2>3
    <3> QED BY <1>3, <1>4, <2>2, <3>1
  <2>4. CASE b \notin g
    BY <1>3, <2>1, <2>2, <2>4
  <2> QED BY <2>3, <2>4
<1> HIDE DEF Q
<1>16. Total(h, Q) <= Total(f, Q) /\ Total(h, Q) \in Int /\ Total(f, Q) \in Int
  <2>1. IntOn(f, Q) /\ IntOn(h, Q)
    BY <1>9, <1>10
  <2> QED BY <1>15, <2>1, TotalCompare, TotalIs
<1>17. h[a] < f[a]
  <2>1. h[a] <= f[a] - S + BranchSize
    BY <1>3, <1>6
  <2> QED BY <1>3, <1>4, <1>14, <2>1
<1>18. Total(h, 1 .. N + 1) < Total(f, D)
  <2>1. h[src] + h[N + 1] = f[src]
    BY <1>3
  <2>2. Total(h, 1 .. N + 1) = h[N + 1] + (h[src] + (h[a] + Total(h, Q)))
        /\ Total(f, D) = f[src] + (f[a] + Total(f, Q))
    BY <1>11, <1>12, <1>13, Zenon
  <2>3. h[N + 1] + (h[src] + (h[a] + Total(h, Q))) < f[src] + (f[a] + Total(f, Q))
    <3> DEFINE t == h[N + 1]
               p == h[src]
               u == f[src]
               x == h[a]
               y == f[a]
               q == Total(h, Q)
               r == Total(f, Q)
    <3>1. /\ t \in Int /\ p \in Int /\ u \in Int /\ x \in Int /\ y \in Int /\ q \in Int
          /\ r \in Int /\ p + t = u /\ x < y /\ q <= r
      BY <2>1, <1>14, <1>16, <1>17
    <3> HIDE DEF t, p, u, x, y, q, r
    <3>2. t + (p + (x + q)) < u + (y + r)
      BY <3>1
    <3> QED BY <3>2 DEF t, p, u, x, y, q, r
  <2> QED BY <2>2, <2>3, Zenon
<1> QED BY <1>7, <1>8, <1>9, <1>18 DEF D

(***************************************************************************)
(* What strengthens the invariant: the function is already smaller when    *)
(* anything was merged, with the branches that fixBranches would make now. *)
(***************************************************************************)
Shrunk == used # {} =>
    CodeSize(blocks, fixBranches(blocks, layout))
    < CodeSize(orig, fixBranches(orig, InputOrder))

(***************************************************************************)
(* The pass, when it merged anything, made the function smaller: each      *)
(* merge saves more bytes in its sources than it adds in branches and in   *)
(* the tail, and fixBranches at the end adds no other branch.              *)
(***************************************************************************)
THEOREM MergesPay == Spec => []MergingPays
<1>1. Init => Shrunk
  BY DEF Init, Shrunk
<1>2. IInv /\ Shrunk /\ [Next]_vars => Shrunk'
  <2> SUFFICES ASSUME IInv, Shrunk, [Next]_vars PROVE Shrunk'
    OBVIOUS
  <2> DEFINE was == CodeSize(orig, fixBranches(orig, InputOrder))
             is == CodeSize(blocks, fixBranches(blocks, layout))
  <2>1. orig' = orig
    BY DEF Next, Start, GroupBlocks, Merge, KeepGroup, Shorten, Finish, Done, vars
  <2>2. was' = was
    BY <2>1 DEF InputOrder
  <2>3. CASE Merge
    <3>1. PICK g \in groups : /\ WorthMerging(g) /\ blocks' = Merged(g)
                              /\ layout' = LaidOut(g, Len(blocks) + 1)
      BY <2>3, Zenon DEF Merge, Merged
    <3>2. pc = "merge"
      BY <2>3 DEF Merge
    <3>3. is' < is /\ is' \in Nat /\ is \in Nat
      <4>1. is' = CodeSize(Merged(g), fixBranches(Merged(g), LaidOut(g, Len(blocks) + 1)))
        BY <3>1
      <4>2. /\ CodeSize(Merged(g), fixBranches(Merged(g), LaidOut(g, Len(blocks) + 1))) < is
            /\ CodeSize(Merged(g), fixBranches(Merged(g), LaidOut(g, Len(blocks) + 1))) \in Nat
            /\ is \in Nat
        BY <3>1, <3>2, MergeShrinks
      <4> HIDE DEF is
      <4> QED BY <4>1, <4>2
    <3>4. used = {} => is = was
      BY DEF IInv, Branches
    <3>5. was \in Nat
      <4>1. orig \in Functions
        BY DEF IInv, Types
      <4>2. /\ DOMAIN orig = 1 .. Len(orig) /\ Len(orig) \in Nat
            /\ \A b \in DOMAIN orig : orig[b].code \in Code
        BY <4>1, InputShape
      <4>3. IsFiniteSet(DOMAIN orig)
        BY <4>2, FS_Interval
      <4> QED BY <4>2, <4>3, BlockBytesNat, TotalNat
    <3> HIDE DEF was, is
    <3>6. is <= was
      BY <3>3, <3>4, <3>5 DEF Shrunk, was, is
    <3>7. is' < was'
      BY <2>2, <3>3, <3>5, <3>6
    <3> QED BY <3>7 DEF Shrunk, was, is
  <2>4. CASE ~ Merge
    <3>1. UNCHANGED <<blocks, layout, used, orig>>
      BY <2>4 DEF Next, Start, GroupBlocks, KeepGroup, Shorten, Finish, Done, vars
    <3> QED BY <3>1 DEF Shrunk, InputOrder
  <2> QED BY <2>3, <2>4
<1>3. IInv /\ Shrunk => MergingPays
  BY DEF IInv, Branches, Shrunk, MergingPays
<1> QED BY IInvHolds, <1>1, <1>2, <1>3, PTL DEF Spec
=============================================================================
