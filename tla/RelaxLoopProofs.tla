-------------------------- MODULE RelaxLoopProofs --------------------------
(***************************************************************************)
(* Proofs about the placement of the global pointer, for every reach,      *)
(* every list of sections and every list of references, and about the      *)
(* relaxation loop around it, for every program, every reach and every     *)
(* number of passes: when the link goes through, what was relaxed against  *)
(* gp is in reach of the gp the output has.                                *)
(***************************************************************************)
EXTENDS RelaxLoop, WellFoundedInduction, FiniteSetTheorems, TLAPS

\* A set of natural numbers that is not empty has a least element.
LEMMA LeastNat ==
    ASSUME NEW S \in SUBSET Nat, S # {}
    PROVE  \E m \in S : \A k \in S : m <= k
<1> DEFINE R == OpToRel(<, Nat)
<1>1. PICK m \in S : \A k \in S : ~ (<<k, m>> \in R)
  <2>1. IsWellFoundedOn(R, Nat)
    BY NatLessThanWellFounded
  <2> HIDE DEF R
  <2> QED BY <2>1, WFMin
<1>2. \A k \in S : k < m => <<k, m>> \in R
  BY DEF OpToRel
<1> HIDE DEF R
<1>3. \A k \in S : ~ (k < m)
  BY <1>1, <1>2
<1>4. \A k \in S : k \in Nat
  OBVIOUS
<1> QED BY <1>3, <1>4

\* One that has an upper bound has a greatest element.
LEMMA GreatestNat ==
    ASSUME NEW n \in Nat, NEW S \in SUBSET (0 .. n), S # {}
    PROVE  \E m \in S : \A k \in S : k <= m
<1> DEFINE T == {n - k : k \in S}
<1>0. \A k \in S : k \in 0 .. n /\ n - k \in Nat
  OBVIOUS
<1>1. T \in SUBSET Nat /\ T # {}
  BY <1>0
<1>2. PICK t \in T : \A u \in T : t <= u
  BY <1>1, LeastNat
<1>3. PICK m \in S : t = n - m
  BY <1>2
<1>4. \A k \in S : k <= m
  <2> TAKE k \in S
  <2>1. t <= n - k
    BY <1>2
  <2>2. k \in Int /\ m \in Int /\ n \in Int
    BY <1>0
  <2> HIDE DEF T
  <2> QED BY <2>1, <2>2, <1>3
<1> QED BY <1>3, <1>4

\* F gives for each of 1 .. n a function on T.
Steps(F, n, T) == F \in [1 .. n -> [T -> T]]

\* f starts with base and takes these steps.
Iterates(f, F, n, T, base) ==
    /\ f \in [0 .. n -> T] /\ f[0] = base
    /\ \A i \in 1 .. n : f[i] = F[i][f[i - 1]]

\* A recursion over 1 .. n has a solution.
LEMMA IterateExists ==
    ASSUME NEW n \in Nat, NEW T, NEW base \in T, NEW F, Steps(F, n, T)
    PROVE  \E f : Iterates(f, F, n, T, base)
<1> USE DEF Steps
<1> DEFINE Sol(f, m) == /\ f \in [0 .. m -> T] /\ f[0] = base
                        /\ \A i \in 1 .. m : f[i] = F[i][f[i - 1]]
           Bad == {m \in 0 .. n : ~ \E f : Sol(f, m)}
<1>1. Bad = {}
  <2> SUFFICES ASSUME Bad # {} PROVE FALSE
    OBVIOUS
  <2>1. PICK m \in Bad : \A k \in Bad : m <= k
    <3>1. Bad \in SUBSET Nat
      OBVIOUS
    <3> HIDE DEF Bad
    <3> QED BY <3>1, LeastNat
  <2>2. CASE m = 0
    <3> DEFINE f == [i \in 0 .. 0 |-> base]
    <3>1. f \in [0 .. 0 -> T] /\ f[0] = base
      OBVIOUS
    <3>2. Sol(f, 0)
      BY <3>1
    <3> QED BY <2>1, <2>2, <3>2
  <2>3. CASE m # 0
    <3>1. m \in 1 .. n /\ m - 1 \in 0 .. n /\ m - 1 < m
      BY <2>3
    <3>2. m - 1 \notin Bad
      <4>1. ~(m <= m - 1)
        BY <3>1
      <4> HIDE DEF Bad
      <4> QED BY <4>1, <2>1
    <3>3. PICK f : Sol(f, m - 1)
      BY <3>1, <3>2
    <3> DEFINE g == [i \in 0 .. m |-> IF i < m THEN f[i] ELSE F[m][f[m - 1]]]
    <3>4. f[m - 1] \in T /\ F[m] \in [T -> T]
      BY <3>1, <3>3
    <3>5. g \in [0 .. m -> T]
      BY <3>1, <3>3, <3>4
    <3>6. g[0] = base
      BY <3>1, <3>3
    <3>7. \A i \in 1 .. m : g[i] = F[i][g[i - 1]]
      <4> TAKE i \in 1 .. m
      <4>1. CASE i = m
        BY <4>1, <3>1
      <4>2. CASE i # m
        <5>1. i \in 1 .. (m - 1) /\ i < m /\ i - 1 < m /\ i \in 0 .. m /\ i - 1 \in 0 .. m
          BY <4>2, <3>1
        <5> QED BY <5>1, <3>3
      <4> QED BY <4>1, <4>2
    <3>8. Sol(g, m)
      BY <3>5, <3>6, <3>7
    <3> QED BY <3>8, <2>1
  <2> QED BY <2>2, <2>3
<1>2. n \in 0 .. n
  OBVIOUS
<1>3. PICK f : Sol(f, n)
  BY <1>1, <1>2
<1>4. Iterates(f, F, n, T, base)
  BY <1>3 DEF Iterates
<1> QED BY <1>4

(***************************************************************************)
(* calculateRISCVGP.                                                       *)
(***************************************************************************)
LEMMA DefaultSecType ==
    ASSUME outputSections \in Seq(Section), DataSections # {}
    PROVE  DefaultSec \in DataSections /\ DefaultGpVA \in Nat
<1> DEFINE sdata == {i \in DataSections : outputSections[i].name = ".sdata"}
           n == Len(outputSections)
<1>1. n \in Nat /\ DataSections \subseteq 1 .. n /\ DataSections \in SUBSET Nat
  BY DEF DataSections
<1>2. sdata \in SUBSET (0 .. n)
  <2>1. \A i \in 1 .. n : i \in 0 .. n
    BY <1>1
  <2> QED BY <1>1, <2>1
<1>3. DefaultSec \in DataSections
  <2>1. CASE sdata # {}
    <3>1. \E i \in sdata : \A j \in sdata : j <= i
      <4> HIDE DEF sdata, n
      <4> QED BY <1>1, <1>2, <2>1, GreatestNat
    <3>2. (CHOOSE i \in sdata : \A j \in sdata : j <= i) \in sdata
      <4> HIDE DEF sdata
      <4> QED BY <3>1
    <3>3. DefaultSec = CHOOSE i \in sdata : \A j \in sdata : j <= i
      BY <2>1 DEF DefaultSec
    <3> QED BY <3>2, <3>3
  <2>2. CASE sdata = {}
    <3>1. \E i \in DataSections : \A j \in DataSections : i <= j
      BY <1>1, LeastNat
    <3>2. (CHOOSE i \in DataSections : \A j \in DataSections : i <= j)
            \in DataSections
      BY <3>1
    <3>3. DefaultSec = CHOOSE i \in DataSections :
                           \A j \in DataSections : i <= j
      BY <2>2 DEF DefaultSec
    <3> QED BY <3>2, <3>3
  <2> QED BY <2>1, <2>2
<1>4. outputSections[DefaultSec] \in Section
  BY <1>1, <1>3
<1> QED BY <1>3, <1>4, GPAssumption DEF DefaultGpVA, Section

(***************************************************************************)
(* Windows of a sorted list and what a pointer covers.                     *)
(***************************************************************************)

LEMMA CoveredFinite ==
    ASSUME NEW xs \in Seq(Nat), NEW g \in Int
    PROVE  /\ IsFiniteSet(Covered(xs, g))
           /\ Covered(xs, g) \subseteq 1 .. Len(xs)
           /\ countCoveredRefs(xs, g) \in Nat
<1>1. Covered(xs, g) \subseteq 1 .. Len(xs)
  BY DEF Covered
<1>2. IsFiniteSet(1 .. Len(xs))
  BY FS_Interval
<1>3. IsFiniteSet(Covered(xs, g))
  BY <1>1, <1>2, FS_Subset
<1> QED BY <1>1, <1>3, FS_CardinalityType DEF countCoveredRefs

\* A window that fits is covered by the pointer put Half above its start.
LEMMA WindowCovered ==
    ASSUME NEW xs \in Seq(Nat), Sorted(xs),
           NEW a \in DOMAIN xs, NEW b \in DOMAIN xs, a <= b,
           xs[b] - xs[a] <= Window
    PROVE  countCoveredRefs(xs, xs[a] + Half) >= b - a + 1
<1>1. xs[a] \in Nat /\ xs[a] + Half \in Int /\ a \in Nat /\ b \in Nat
  BY GPAssumption
<1>2. a .. b \subseteq Covered(xs, xs[a] + Half)
  <2> SUFFICES ASSUME NEW i \in a .. b PROVE i \in Covered(xs, xs[a] + Half)
    OBVIOUS
  <2>1. i \in DOMAIN xs /\ i \in Nat /\ xs[i] \in Nat /\ xs[b] \in Nat
    BY <1>1
  <2>2. xs[a] <= xs[i] /\ xs[i] <= xs[b]
    BY SMTT(30), <2>1, <1>1 DEF Sorted
  <2>3. xs[i] - (xs[a] + Half) >= -Half /\ xs[i] - (xs[a] + Half) <= Half - 1
    <3> DEFINE x == xs[i]  y == xs[a]  z == xs[b]
    <3>1. x \in Nat /\ y \in Nat /\ z \in Nat /\ y <= x /\ x <= z
      BY <2>1, <2>2, <1>1
    <3>2. z - y <= 2 * Half - 1 /\ Half \in Nat
      BY GPAssumption DEF Window
    <3> HIDE DEF x, y, z
    <3>3. x - (y + Half) >= -Half /\ x - (y + Half) <= Half - 1
      BY <3>1, <3>2
    <3> QED BY <3>3 DEF x, y
  <2> QED BY <2>1, <2>3, <1>1, GPAssumption DEF Covered, InReach
<1>3. Cardinality(a .. b) = b - a + 1
  BY <1>1, FS_Interval
<1>4. IsFiniteSet(Covered(xs, xs[a] + Half))
  BY <1>1, CoveredFinite
<1>5. Cardinality(a .. b) <= Cardinality(Covered(xs, xs[a] + Half))
  BY <1>2, <1>4, FS_Subset
<1>6. Cardinality(Covered(xs, xs[a] + Half)) \in Nat
  BY <1>4, FS_CardinalityType
<1> QED BY <1>1, <1>3, <1>5, <1>6 DEF countCoveredRefs

\* Whatever a pointer covers lies in one window that fits.
LEMMA CoveredInWindow ==
    ASSUME NEW xs \in Seq(Nat), Sorted(xs), NEW g \in Int,
           Covered(xs, g) # {}
    PROVE  \E a, b \in DOMAIN xs :
              /\ a <= b /\ xs[b] - xs[a] <= Window
              /\ countCoveredRefs(xs, g) <= b - a + 1
<1> DEFINE C == Covered(xs, g)
<1>1. C \subseteq 1 .. Len(xs) /\ IsFiniteSet(C) /\ Len(xs) \in Nat
  <2>1. Len(xs) \in Nat
    OBVIOUS
  <2> QED BY <2>1, CoveredFinite
<1>2. C \in SUBSET Nat /\ C \in SUBSET (0 .. Len(xs))
  BY <1>1
<1>0. C # {}
  OBVIOUS
<1>3. PICK a \in C : \A k \in C : a <= k
  <2> HIDE DEF C
  <2> QED BY <1>0, <1>2, LeastNat
<1>4. PICK b \in C : \A k \in C : k <= b
  <2> HIDE DEF C
  <2> QED BY <1>0, <1>1, <1>2, GreatestNat
<1>5. a \in DOMAIN xs /\ b \in DOMAIN xs /\ a <= b /\ a \in Nat /\ b \in Nat
  BY <1>1, <1>3, <1>4
<1>6. xs[b] - xs[a] <= Window
  <2>1. InReach(xs[a], g) /\ InReach(xs[b], g)
    BY <1>3, <1>4 DEF Covered
  <2>2. xs[a] \in Nat /\ xs[b] \in Nat
    BY <1>5
  <2>3. xs[a] - g >= -Half /\ xs[b] - g <= Half - 1
    BY <2>1, <2>2, GPAssumption DEF InReach
  <2> QED BY SMTT(30), <2>2, <2>3, GPAssumption DEF Window
<1>7. C \subseteq a .. b
  <2> HIDE DEF C
  <2> QED BY <1>2, <1>3, <1>4, <1>5
<1>8. IsFiniteSet(a .. b) /\ Cardinality(a .. b) = b - a + 1
  BY <1>5, FS_Interval
<1>9. Cardinality(C) <= b - a + 1
  <2> HIDE DEF C
  <2>1. Cardinality(C) <= Cardinality(a .. b)
    BY <1>7, <1>8, FS_Subset
  <2> QED BY <2>1, <1>8
<1> QED BY <1>5, <1>6, <1>9 DEF countCoveredRefs

-----------------------------------------------------------------------------
(***************************************************************************)
(* The inductive invariant.  WindowsSeen alone is not inductive: it needs  *)
(* that everything to the left of l is out of reach of r, which the order  *)
(* of the addresses keeps true when r moves on.                            *)
(***************************************************************************)
Bounds ==
    /\ pc = "collect" => bestCount = 0 /\ l = 1 /\ r = 1
    /\ pc = "window" => r <= Len(addrs) /\ l <= r /\ (r > 1 => bestCount > 0)
    /\ pc = "choose" => r = Len(addrs) + 1 /\ bestCount > 0
    /\ bestCount > 0 => bestL + bestCount <= r /\ r <= Len(addrs) + 1

LeftOutOfReach ==
    pc = "window" => \A i \in DOMAIN addrs :
                        i < l => addrs[r] - addrs[i] > Window

BestFits ==
    bestCount > 0 => addrs[bestL + bestCount - 1] - addrs[bestL] <= Window

DefaultScored ==
    pc \in {"window", "choose"} =>
        /\ DataSections # {} /\ gp = DefaultGpVA
        /\ score = countCoveredRefs(addrs, DefaultGpVA)

\* A moved pointer is the best of all.
BestOfAll == BestOf(Int)

Result == NoWorseThanDefault /\ BestOfAll

IInv == /\ TypeOK /\ Sorted(addrs) /\ Bounds /\ LeftOutOfReach /\ WindowsSeen
        /\ BestFits /\ DefaultScored /\ Result

LEMMA InitIInv == Init => IInv
<1> SUFFICES ASSUME Init PROVE IInv
  OBVIOUS
<1>1. TypeOK
  BY GPAssumption DEF Init, TypeOK
<1>2. addrs = <<>> /\ pc = "collect" /\ bestCount = 0 /\ l = 1 /\ r = 1
  BY DEF Init
<1>3. Sorted(addrs)
  BY <1>2 DEF Sorted
<1> QED BY <1>1, <1>2, <1>3 DEF IInv, Bounds, LeftOutOfReach, WindowsSeen,
      BestFits, DefaultScored, Result, NoWorseThanDefault, BestOfAll, BestOf

\* What is sorted are addresses, one for each reference to a data section.
LEMMA SortedAddrsType ==
    ASSUME refs \in Seq(Ref), NEW xs \in SortedAddrs
    PROVE  /\ xs \in Seq(Nat) /\ Sorted(xs)
           /\ DOMAIN xs = 1 .. Cardinality(Counted) /\ Cardinality(Counted) \in Nat
<1> DEFINE found == {refs[i].addr : i \in Counted}
           n == Cardinality(Counted)
<1>1. n \in Nat
  <2>1. IsFiniteSet(1 .. Len(refs)) /\ Counted \in SUBSET (1 .. Len(refs))
    BY FS_Interval DEF Counted
  <2>2. IsFiniteSet(Counted)
    BY <2>1, FS_Subset
  <2> QED BY <2>2, FS_CardinalityType
<1>2. \A i \in Counted : refs[i].addr \in Nat
  <2>1. \A i \in Counted : refs[i] \in Ref
    BY DEF Counted
  <2> QED BY <2>1 DEF Ref
<1>3. xs \in [1 .. n -> found] /\ Sorted(xs)
  BY DEF SortedAddrs
<1>4. found \subseteq Nat
  BY <1>2
<1> HIDE DEF found, n
<1>5. xs \in [1 .. n -> Nat]
  BY <1>3, <1>4
<1>6. xs \in Seq(Nat) /\ DOMAIN xs = 1 .. n
  BY <1>1, <1>5
<1> QED BY <1>1, <1>3, <1>6 DEF n

LEMMA CollectStep == ASSUME IInv, Collect PROVE IInv'
<1>1. outputSections \in Seq(Section) /\ refs \in Seq(Ref)
  BY DEF IInv, TypeOK
<1>2. /\ pc = "collect" /\ bestCount = 0 /\ l = 1 /\ r = 1
      /\ l' = 1 /\ r' = 1 /\ bestCount' = 0 /\ bestL' = bestL
      /\ outputSections' = outputSections /\ refs' = refs
  BY DEF Collect, IInv, Bounds, inputs
<1>3. CASE DataSections = {}
  <2>1. pc' = "done" /\ addrs' = addrs /\ gp' = gp /\ score' = score
    BY <1>3 DEF Collect
  <2>2. DataSections' = {}
    BY <1>2, <1>3 DEF DataSections
  <2>3. TypeOK'
    BY <1>2, <2>1 DEF IInv, TypeOK
  <2>4. Sorted(addrs)'
    BY <2>1 DEF IInv, Sorted
  <2> QED BY <1>2, <2>1, <2>2, <2>3, <2>4 DEF IInv, Bounds, LeftOutOfReach,
        WindowsSeen, BestFits, DefaultScored, Result, NoWorseThanDefault,
        BestOfAll, BestOf
<1>4. CASE DataSections # {}
  <2>1. DefaultGpVA \in Nat
    BY <1>1, <1>4, DefaultSecType
  <2>2. /\ addrs' \in SortedAddrs /\ gp' = DefaultGpVA
        /\ score' = IF addrs' = <<>> THEN 0
                    ELSE countCoveredRefs(addrs', DefaultGpVA)
        /\ pc' = IF addrs' = <<>> THEN "done" ELSE "window"
    BY <1>4 DEF Collect
  <2>3. addrs' \in Seq(Nat) /\ Sorted(addrs')
    BY <1>1, <2>2, SortedAddrsType
  <2>4. DefaultGpVA' = DefaultGpVA /\ DataSections' = DataSections
    BY <1>2 DEF DefaultGpVA, DefaultSec, DataSections
  <2>5. countCoveredRefs(addrs', DefaultGpVA) \in Nat
    BY <2>1, <2>3, CoveredFinite
  <2>6. TypeOK'
    BY <1>2, <2>1, <2>2, <2>3, <2>5 DEF IInv, TypeOK
  <2>7. Sorted(addrs)'
    BY <2>3 DEF Sorted
  <2>8. addrs' # <<>> => Len(addrs') >= 1
    BY <2>3
  <2>9. countCoveredRefs(addrs, DefaultGpVA)' = countCoveredRefs(addrs', DefaultGpVA)
    BY <2>4 DEF countCoveredRefs, Covered, InReach
  <2>10. Bounds' /\ LeftOutOfReach' /\ WindowsSeen' /\ BestFits'
    BY <1>2, <2>2, <2>3, <2>8 DEF Bounds, LeftOutOfReach, WindowsSeen, BestFits
  <2>11. DefaultScored'
    BY <1>4, <2>2, <2>4, <2>9 DEF DefaultScored
  <2>12. Result'
    <3> SUFFICES ASSUME pc' = "done" PROVE Result'
      BY DEF Result, NoWorseThanDefault, BestOfAll, BestOf
    <3>1. score' = 0 /\ gp' = DefaultGpVA'
      BY <2>2, <2>4
    <3>2. countCoveredRefs(addrs, gp)' = countCoveredRefs(addrs', DefaultGpVA)
      BY <2>2 DEF countCoveredRefs, Covered, InReach
    <3> QED BY <3>1, <3>2, <2>5, <2>9 DEF Result, NoWorseThanDefault, BestOfAll, BestOf
  <2> QED BY <2>6, <2>7, <2>10, <2>11, <2>12 DEF IInv
<1> QED BY <1>3, <1>4

\* The window's left end moves: what it leaves behind is out of r's reach.
LEMMA ShrinkStep == ASSUME IInv, Shrink PROVE IInv'
<1>1. /\ pc = "window" /\ pc' = "window" /\ TooWide /\ l' = l + 1
      /\ UNCHANGED <<outputSections, refs, addrs, r, bestL, bestCount, gp, score>>
  BY DEF Shrink, inputs
<1>2. /\ addrs \in Seq(Nat) /\ l \in Nat \ {0} /\ r \in Nat \ {0}
      /\ l <= r /\ r <= Len(addrs) /\ Sorted(addrs)
  BY <1>1 DEF IInv, TypeOK, Bounds
<1>3. TypeOK' /\ Sorted(addrs)'
  BY <1>1, <1>2 DEF IInv, TypeOK, Sorted
<1>4. l < r
  <2>1. addrs[r] \in Nat /\ addrs[r] - addrs[r] = 0 /\ Window \in Nat
    BY <1>2, GPAssumption DEF Window
  <2>2. l # r
    BY <1>1, <2>1 DEF TooWide
  <2> QED BY <1>2, <2>2
<1>5. Bounds'
  BY <1>1, <1>2, <1>4 DEF IInv, Bounds
<1>6. LeftOutOfReach'
  <2> SUFFICES ASSUME NEW i \in DOMAIN addrs, i < l + 1
               PROVE  addrs[r] - addrs[i] > Window
    BY <1>1 DEF LeftOutOfReach, Window
  <2>1. i = l \/ i < l
    BY <1>2
  <2> QED BY <1>1, <2>1 DEF IInv, LeftOutOfReach, TooWide
<1>7. WindowsSeen' /\ BestFits'
  BY <1>1 DEF IInv, WindowsSeen, BestFits, Window
<1>8. DefaultScored' /\ Result'
  <2>1. DataSections' = DataSections /\ DefaultGpVA' = DefaultGpVA
    BY <1>1 DEF DataSections, DefaultGpVA, DefaultSec
  <2>2. countCoveredRefs(addrs, DefaultGpVA)' = countCoveredRefs(addrs, DefaultGpVA)
    BY <1>1, <2>1 DEF countCoveredRefs, Covered, InReach
  <2> QED BY <1>1, <2>1, <2>2 DEF IInv, DefaultScored, Result,
        NoWorseThanDefault, BestOfAll, BestOf
<1> QED BY <1>3, <1>5, <1>6, <1>7, <1>8 DEF IInv

\* The right end moves: of the windows that end at r, the one from l is the
\* longest that fits.
LEMMA GrowStep == ASSUME IInv, Grow PROVE IInv'
<1>1. /\ pc = "window" /\ ~TooWide /\ r' = r + 1
      /\ pc' = IF r = Len(addrs) THEN "choose" ELSE "window"
      /\ UNCHANGED <<outputSections, refs, addrs, l, gp, score>>
      /\ IF Count > bestCount THEN bestCount' = Count /\ bestL' = l
         ELSE bestCount' = bestCount /\ bestL' = bestL
  BY DEF Grow, inputs
<1>2. /\ addrs \in Seq(Nat) /\ l \in Nat \ {0} /\ r \in Nat \ {0}
      /\ l <= r /\ r <= Len(addrs) /\ Sorted(addrs) /\ bestCount \in Nat
      /\ bestL \in Nat \ {0} /\ Len(addrs) \in Nat
  BY <1>1 DEF IInv, TypeOK, Bounds
<1>3. Count \in Nat \ {0} /\ Count = r - l + 1
  BY <1>2 DEF Count
<1>4. TypeOK' /\ Sorted(addrs)'
  BY <1>1, <1>2, <1>3 DEF IInv, TypeOK, Sorted
<1>5. bestCount' > 0 /\ bestCount' >= bestCount /\ bestCount' >= r - l + 1
  BY <1>1, <1>2, <1>3
<1>6. Bounds'
  BY <1>1, <1>2, <1>3, <1>5 DEF IInv, Bounds
<1>7. WindowsSeen'
  <2> SUFFICES ASSUME NEW i \in DOMAIN addrs, NEW j \in DOMAIN addrs,
                      i <= j, j < r + 1, addrs[j] - addrs[i] <= Window
               PROVE  j - i + 1 <= bestCount'
    BY <1>1 DEF WindowsSeen, Window
  <2>0. bestCount' \in Nat
    BY <1>4 DEF TypeOK
  <2>1. i \in Nat /\ j \in Nat /\ bestCount' \in Nat
    BY <1>2, <2>0
  <2>2. CASE j < r
    <3>1. j - i + 1 <= bestCount
      BY <1>1, <2>2 DEF IInv, WindowsSeen
    <3> QED BY SMTT(30), <1>2, <1>5, <2>1, <3>1
  <2>3. CASE j = r
    <3>1. ~ (i < l)
      <4> SUFFICES ASSUME i < l PROVE FALSE
        OBVIOUS
      <4>1. addrs[r] - addrs[i] > Window
        BY <1>1 DEF IInv, LeftOutOfReach
      <4>2. addrs[r] \in Nat /\ addrs[i] \in Nat /\ Window \in Nat
        BY SMTT(30), <1>2, GPAssumption DEF Window
      <4> QED BY <2>3, <4>1, <4>2
    <3> QED BY <1>2, <1>5, <2>1, <2>3, <3>1
  <2> QED BY <1>2, <2>1, <2>2, <2>3
<1>8. LeftOutOfReach'
  <2> SUFFICES ASSUME pc' = "window", NEW i \in DOMAIN addrs, i < l
               PROVE  addrs[r + 1] - addrs[i] > Window
    BY <1>1 DEF LeftOutOfReach, Window
  <2>1. r + 1 \in DOMAIN addrs /\ r \in DOMAIN addrs
    BY <1>1, <1>2
  <2>2. addrs[r] - addrs[i] > Window
    BY <1>1 DEF IInv, LeftOutOfReach
  <2>3. addrs[r] <= addrs[r + 1]
    BY <1>2, <2>1 DEF Sorted
  <2>4. addrs[r] \in Nat /\ addrs[r + 1] \in Nat /\ addrs[i] \in Nat
        /\ Window \in Nat
    BY <1>2, <2>1, GPAssumption DEF Window
  <2> QED BY <2>2, <2>3, <2>4
<1>9. BestFits'
  <2>1. CASE Count > bestCount
    <3>1. bestL' = l /\ bestL' + bestCount' - 1 = r
      BY <1>1, <1>2, <1>3, <2>1
    <3>2. addrs[r] - addrs[l] <= Window
      <4>1. addrs[r] \in Nat /\ addrs[l] \in Nat /\ Window \in Nat
        BY <1>2, GPAssumption DEF Window
      <4> QED BY <1>1, <4>1 DEF TooWide
    <3> QED BY <1>1, <3>1, <3>2 DEF BestFits, Window
  <2>2. CASE ~ (Count > bestCount)
    BY <1>1, <2>2 DEF IInv, BestFits, Window
  <2> QED BY <2>1, <2>2
<1>10. DefaultScored' /\ Result'
  <2>1. DataSections' = DataSections /\ DefaultGpVA' = DefaultGpVA
    BY <1>1 DEF DataSections, DefaultGpVA, DefaultSec
  <2>2. countCoveredRefs(addrs, DefaultGpVA)' = countCoveredRefs(addrs, DefaultGpVA)
    BY <1>1, <2>1 DEF countCoveredRefs, Covered, InReach
  <2>3. pc' # "done"
    BY <1>1
  <2> QED BY <1>1, <2>1, <2>2, <2>3 DEF IInv, DefaultScored, Result,
        NoWorseThanDefault, BestOfAll, BestOf
<1> QED BY <1>4, <1>6, <1>7, <1>8, <1>9, <1>10 DEF IInv

LEMMA ChooseStep == ASSUME IInv, Choose PROVE IInv'
<1>1. /\ pc = "choose" /\ pc' = "done"
      /\ UNCHANGED <<outputSections, refs, addrs, l, r, bestL, bestCount>>
      /\ IF Worthwhile THEN gp' = BestGpVA /\ score' = bestCount
         ELSE gp' = gp /\ score' = score
  BY DEF Choose, inputs
<1>2. /\ addrs \in Seq(Nat) /\ Sorted(addrs) /\ bestCount \in Nat \ {0}
      /\ bestL \in Nat \ {0} /\ r = Len(addrs) + 1 /\ Len(addrs) \in Nat
      /\ bestL + bestCount <= r /\ gp \in Nat /\ score \in Nat
  BY <1>1 DEF IInv, TypeOK, Bounds
<1>3. /\ DataSections # {} /\ gp = DefaultGpVA
      /\ score = countCoveredRefs(addrs, DefaultGpVA)
  BY <1>1 DEF IInv, DefaultScored
<1>4. /\ bestL \in DOMAIN addrs /\ bestL + bestCount - 1 \in DOMAIN addrs
      /\ bestL <= bestL + bestCount - 1
      /\ (bestL + bestCount - 1) - bestL + 1 = bestCount
  BY <1>2
<1>5. BestGpVA \in Nat
  BY <1>2, <1>4, GPAssumption DEF BestGpVA
<1>6. countCoveredRefs(addrs, BestGpVA) >= bestCount
  <2>1. addrs[bestL + bestCount - 1] - addrs[bestL] <= Window
    BY <1>2 DEF IInv, BestFits
  <2> DEFINE b == bestL + bestCount - 1
  <2>2. countCoveredRefs(addrs, addrs[bestL] + Half) >= b - bestL + 1
    <3>1. b \in DOMAIN addrs /\ bestL <= b /\ addrs[b] - addrs[bestL] <= Window
      BY <1>4, <2>1
    <3> HIDE DEF b
    <3> QED BY <1>2, <1>4, <3>1, WindowCovered
  <2> QED BY <1>4, <2>2 DEF BestGpVA
<1>7. \A g \in Int : countCoveredRefs(addrs, g) <= bestCount
  <2> TAKE g \in Int
  <2>1. CASE Covered(addrs, g) = {}
    <3>1. countCoveredRefs(addrs, g) = 0
      BY <2>1, FS_EmptySet DEF countCoveredRefs
    <3> QED BY <1>2, <3>1
  <2>2. CASE Covered(addrs, g) # {}
    <3>1. PICK a \in DOMAIN addrs, b \in DOMAIN addrs :
             /\ a <= b /\ addrs[b] - addrs[a] <= Window
             /\ countCoveredRefs(addrs, g) <= b - a + 1
      BY <1>2, <2>2, CoveredInWindow
    <3>2. b < r /\ a \in Nat /\ b \in Nat
      BY <1>2
    <3>3. b - a + 1 <= bestCount
      BY <1>1, <3>1, <3>2 DEF IInv, WindowsSeen
    <3>4. countCoveredRefs(addrs, g) \in Nat
      BY <1>2, CoveredFinite
    <3> QED BY <1>2, <3>1, <3>2, <3>3, <3>4
  <2> QED BY <2>1, <2>2
<1>8. TypeOK'
  BY <1>1, <1>2, <1>5 DEF IInv, TypeOK
<1>9. DataSections' = DataSections /\ DefaultGpVA' = DefaultGpVA
  BY <1>1 DEF DataSections, DefaultGpVA, DefaultSec
<1>10. /\ countCoveredRefs(addrs, DefaultGpVA)' = score
       /\ countCoveredRefs(addrs, gp)' = countCoveredRefs(addrs, gp')
       /\ \A g \in Int : countCoveredRefs(addrs, g)' = countCoveredRefs(addrs, g)
  BY <1>1, <1>3, <1>9 DEF countCoveredRefs, Covered, InReach
<1>11. Result'
  <2>1. CASE Worthwhile
    <3>1. gp' = BestGpVA /\ score' = bestCount /\ bestCount > score
      BY <1>1, <2>1 DEF Worthwhile
    <3>2. countCoveredRefs(addrs, BestGpVA) \in Nat
      <4>1. BestGpVA \in Int
        BY <1>5
      <4> QED BY <1>2, <4>1, CoveredFinite
    <3>3. NoWorseThanDefault'
      BY <1>2, <1>6, <1>10, <3>1, <3>2 DEF NoWorseThanDefault
    <3>4. BestOfAll'
      <4> SUFFICES ASSUME NEW g \in Int
                   PROVE  countCoveredRefs(addrs, g)
                            <= countCoveredRefs(addrs, BestGpVA)
        BY <1>10, <3>1 DEF BestOfAll, BestOf
      <4>1. countCoveredRefs(addrs, g) <= bestCount
        BY <1>7
      <4>2. countCoveredRefs(addrs, g) \in Nat
        BY <1>2, CoveredFinite
      <4> QED BY <1>2, <1>6, <3>2, <4>1, <4>2
    <3> QED BY <3>3, <3>4 DEF Result
  <2>2. CASE ~ Worthwhile
    <3>1. gp' = DefaultGpVA' /\ score' = score
      BY <1>1, <1>3, <1>9, <2>2
    <3>2. countCoveredRefs(addrs, gp)' = score
      BY <1>3, <1>9, <1>10, <3>1
    <3> QED BY <1>2, <1>10, <3>1, <3>2
        DEF Result, NoWorseThanDefault, BestOfAll, BestOf
  <2> QED BY <2>1, <2>2
<1>12. Sorted(addrs)' /\ Bounds' /\ LeftOutOfReach' /\ WindowsSeen' /\ BestFits'
       /\ DefaultScored'
  BY <1>1, <1>2 DEF IInv, Sorted, Bounds, LeftOutOfReach, WindowsSeen, BestFits,
     DefaultScored, Window
<1> QED BY <1>8, <1>11, <1>12 DEF IInv

LEMMA Stutter == ASSUME IInv, UNCHANGED vars PROVE IInv'
<1> USE DEF vars
<1>1. TypeOK' /\ Sorted(addrs)' /\ Bounds' /\ LeftOutOfReach' /\ WindowsSeen'
      /\ BestFits'
  BY DEF IInv, TypeOK, Sorted, Bounds, LeftOutOfReach, WindowsSeen, BestFits, Window
<1>2. DataSections' = DataSections /\ DefaultGpVA' = DefaultGpVA
  BY DEF DataSections, DefaultGpVA, DefaultSec
<1>3. \A g : countCoveredRefs(addrs, g)' = countCoveredRefs(addrs, g)
  BY DEF countCoveredRefs, Covered, InReach
<1>4. DefaultScored' /\ Result'
  BY <1>2, <1>3 DEF IInv, DefaultScored, Result, NoWorseThanDefault, BestOfAll, BestOf,
     Window
<1> QED BY <1>1, <1>4 DEF IInv

THEOREM Inductive == Spec => []IInv
<1>1. IInv /\ [Next]_vars => IInv'
  <2> SUFFICES ASSUME IInv, [Next]_vars PROVE IInv'
    OBVIOUS
  <2> QED BY CollectStep, ShrinkStep, GrowStep, ChooseStep, Stutter
      DEF Next, Done
<1> QED BY InitIInv, <1>1, PTL DEF Spec

\* The variables of calculateRISCVGP keep their types, for every input.
THEOREM TypeCorrect == Spec => []TypeOK
<1>1. IInv => TypeOK
  BY DEF IInv
<1> QED BY Inductive, <1>1, PTL

\* The vector is never indexed outside its bounds by the two loops.
THEOREM IndicesCorrect == Spec => []IndicesInRange
<1>1. IInv => IndicesInRange
  BY DEF IInv, TypeOK, Bounds, IndicesInRange
<1> QED BY Inductive, <1>1, PTL

\* What the sliding window claims of everything to its left.
THEOREM WindowsCorrect == Spec => []WindowsSeen
<1>1. IInv => WindowsSeen
  BY DEF IInv
<1> QED BY Inductive, <1>1, PTL

\* The placement never covers fewer references than the default one.
THEOREM PlacementNoWorse == Spec => []NoWorseThanDefault
<1>1. IInv => NoWorseThanDefault
  BY DEF IInv, Result
<1> QED BY Inductive, <1>1, PTL

\* A moved pointer covers as many references as any pointer can, wherever it is.
THEOREM PlacementBest == Spec => [](MovedIsBest /\ BestOf(Int))
<1>1. IInv => MovedIsBest /\ BestOf(Int)
  <2> SUFFICES ASSUME IInv PROVE MovedIsBest /\ BestOf(Int)
    OBVIOUS
  <2>1. BestOf(Int) /\ addrs \in Seq(Nat)
    BY DEF IInv, Result, BestOfAll, TypeOK
  <2>2. ASSUME NEW g \in Useful PROVE g \in Int
    <3>1. PICK i \in DOMAIN addrs : g \in addrs[i] - (Half - 1) .. addrs[i] + Half
      BY DEF Useful
    <3> QED BY <3>1
  <2>3. BestOf(Useful)
    BY <2>1, <2>2 DEF BestOf
  <2> QED BY <2>1, <2>3 DEF MovedIsBest
<1> QED BY Inductive, <1>1, PTL
-----------------------------------------------------------------------------
(***************************************************************************)
(* Addresses.                                                              *)
(***************************************************************************)
LEMMA AlignUpBounds ==
    ASSUME NEW a \in Int, NEW n \in Nat \ {0}
    PROVE  /\ AlignUp(a, n) \in Int
           /\ a <= AlignUp(a, n) /\ AlignUp(a, n) <= a + n - 1
<1> DEFINE b == a + n - 1
           q == b \div n
<1>1. b \in Int /\ n \in Int /\ n > 0
  OBVIOUS
<1> HIDE DEF b
<1>2. q \in Int
  BY <1>1
<1>3. n * q <= b /\ b < n * q + n
  BY <1>1, SMTT(30)
<1> HIDE DEF q
<1>4. n * q = q * n /\ n * q \in Int
  BY <1>1, <1>2
<1>5. AlignUp(a, n) = q * n
  BY DEF AlignUp, q, b
<1> QED BY <1>1, <1>3, <1>4, <1>5 DEF b

LEMMA AlignUpNat ==
    ASSUME NEW a \in Nat, NEW n \in Nat \ {0} PROVE AlignUp(a, n) \in Nat
BY AlignUpBounds

\* What LoopAssumption says of one program.
LEMMA ProgramTyped ==
    ASSUME NEW p \in Programs
    PROVE  /\ p.size \in Nat /\ p.relocs \in Seq(Reloc) /\ p.data \in Seq(DataSec)
           /\ Len(p.relocs) \in Nat /\ DOMAIN p.relocs = 1 .. Len(p.relocs)
           /\ Len(p.data) \in Nat /\ DOMAIN p.data = 1 .. Len(p.data)
           /\ InOrder(p)
           /\ \A i \in DOMAIN p.relocs : p.relocs[i] \in Reloc
           /\ \A i \in DOMAIN p.relocs :
                 IsData(p.relocs[i]) => p.relocs[i].sec \in DOMAIN p.data
           /\ \A k \in DOMAIN p.data : p.data[k] \in DataSec
<1>1. p \in Program
  BY LoopAssumption
<1>2. p.size \in Nat /\ p.relocs \in Seq(Reloc) /\ p.data \in Seq(DataSec)
  BY <1>1 DEF Program
<1> HIDE DEF Reloc, DataSec
<1> QED BY <1>2, LoopAssumption

LEMMA DataSecTyped ==
    ASSUME NEW s \in DataSec
    PROVE  s.name \in Name /\ s.size \in Nat /\ s.align \in Nat \ {0}
BY DEF DataSec

LEMMA RelocTyped ==
    ASSUME NEW x \in Reloc
    PROVE  /\ x.kind \in {"HI20", "LO12_I", "LO12_S", "CALL", "ALIGN"}
           /\ x.at \in Nat /\ Width(x) \in Nat
           /\ IsData(x) => x.sec \in Nat /\ x.off \in Nat
           /\ x.kind = "ALIGN" => x.addend \in Nat
           /\ x.kind = "CALL" => x.dest \in Nat
<1>1. CASE x \in [kind : {"HI20", "LO12_I", "LO12_S"}, at : Nat, sec : Nat, off : Nat,
                  relax : BOOLEAN]
  BY <1>1 DEF Width, IsData
<1>2. CASE x \in [kind : {"CALL"}, at : Nat, dest : Nat, relax : BOOLEAN]
  BY <1>2 DEF Width, IsData
<1>3. CASE x \in [kind : {"ALIGN"}, at : Nat, addend : Padding]
  <2>1. x.addend \in Nat
    BY <1>3 DEF Padding
  <2> QED BY <1>3, <2>1 DEF Width, IsData
<1> QED BY <1>1, <1>2, <1>3 DEF Reloc

\* The addresses assignAddresses gives are numbers, whatever was dropped.
LEMMA AddrsType ==
    ASSUME NEW p \in Programs, NEW dropped \in 0 .. p.size
    PROVE  Addrs(p, dropped) \in [DOMAIN p.data -> Nat]
<1> DEFINE n == Len(p.data)
           base == TextBase + p.size - dropped
           Start(k, v) == IF k = 1 THEN v ELSE v + p.data[k - 1].size
           F == [k \in 1 .. n |-> [v \in Nat |-> AlignUp(Start(k, v), p.data[k].align)]]
           Eq(addr) == addr = [k \in DOMAIN p.data |->
                          AlignUp(IF k = 1 THEN TextBase + p.size - dropped
                                  ELSE addr[k - 1] + p.data[k - 1].size, p.data[k].align)]
<1>1. /\ n \in Nat /\ DOMAIN p.data = 1 .. n /\ base \in Nat
      /\ \A k \in 1 .. n : p.data[k].size \in Nat /\ p.data[k].align \in Nat \ {0}
  <2>1. \A k \in DOMAIN p.data : p.data[k].size \in Nat /\ p.data[k].align \in Nat \ {0}
    BY ProgramTyped, DataSecTyped
  <2> QED BY <2>1, ProgramTyped, LoopAssumption
<1>2. ASSUME NEW k \in 1 .. n, NEW v \in Nat
      PROVE  AlignUp(Start(k, v), p.data[k].align) \in Nat
  <2>1. Start(k, v) \in Nat
    <3>1. CASE k = 1
      BY <3>1
    <3>2. CASE k # 1
      <4>1. k - 1 \in 1 .. n
        BY <3>2, <1>1
      <4> QED BY <4>1, <1>1, <3>2
    <3> QED BY <3>1, <3>2
  <2> HIDE DEF Start
  <2> QED BY <2>1, <1>1, AlignUpNat
<1> HIDE DEF n, base
<1>3. PICK f : Iterates(f, F, n, Nat, base)
  <2>1. F \in [1 .. n -> [Nat -> Nat]]
    BY <1>2
  <2>2. Steps(F, n, Nat)
    BY <2>1 DEF Steps
  <2> HIDE DEF F
  <2> QED BY <1>1, <2>2, IterateExists
<1>4. f \in [0 .. n -> Nat] /\ f[0] = base /\ \A k \in 1 .. n : f[k] = F[k][f[k - 1]]
  BY <1>3 DEF Iterates
<1>5. \A k \in 1 .. n : f[k] \in Nat /\ f[k] = AlignUp(Start(k, f[k - 1]), p.data[k].align)
  <2> TAKE k \in 1 .. n
  <2>1. f[k - 1] \in Nat /\ f[k] \in Nat
    BY <1>1, <1>4
  <2> HIDE DEF Start
  <2> QED BY <2>1, <1>4
<1> DEFINE addr == [k \in 1 .. n |-> f[k]]
<1>6. Eq(addr)
  <2>1. \A k \in 1 .. n :
           addr[k] = AlignUp(IF k = 1 THEN TextBase + p.size - dropped
                             ELSE addr[k - 1] + p.data[k - 1].size, p.data[k].align)
    <3> TAKE k \in 1 .. n
    <3>1. CASE k = 1
      BY <3>1, <1>4, <1>5 DEF base
    <3>2. CASE k # 1
      <4>1. k - 1 \in 1 .. n /\ addr[k - 1] = f[k - 1]
        BY <3>2, <1>1
      <4> QED BY <4>1, <3>2, <1>5
    <3> QED BY <3>1, <3>2
  <2> QED BY <2>1, <1>1
<1>7. Addrs(p, dropped) = CHOOSE a : Eq(a)
  BY DEF Addrs
<1> HIDE DEF addr
<1>8. Eq(Addrs(p, dropped))
  <2> HIDE DEF Eq
  <2> QED BY <1>6, <1>7
<1> DEFINE A == Addrs(p, dropped)
<1>9. /\ DOMAIN A = 1 .. n /\ A = [k \in 1 .. n |-> A[k]]
      /\ \A k \in 1 .. n : A[k] = AlignUp(IF k = 1 THEN base ELSE A[k - 1] + p.data[k - 1].size,
                                          p.data[k].align)
  BY <1>8, <1>1 DEF base
<1> HIDE DEF A
<1>10. \A k \in 1 .. n : A[k] \in Nat
  <2> DEFINE Bad == {k \in 1 .. n : A[k] \notin Nat}
  <2> SUFFICES ASSUME Bad # {} PROVE FALSE
    OBVIOUS
  <2>1. PICK k \in Bad : \A j \in Bad : k <= j
    <3>1. Bad \in SUBSET Nat
      BY <1>1
    <3> HIDE DEF Bad
    <3> QED BY <3>1, LeastNat
  <2>2. k \in 1 .. n /\ A[k] \notin Nat
    OBVIOUS
  <2>3. CASE k = 1
    <3>1. A[k] = AlignUp(base, p.data[k].align)
      BY <1>9, <2>2, <2>3
    <3> QED BY <3>1, <1>1, <2>2, AlignUpNat
  <2>4. CASE k # 1
    <3>1. k - 1 \in 1 .. n /\ ~(k <= k - 1)
      BY <2>2, <2>4, <1>1
    <3>2. k - 1 \notin Bad
      <4> HIDE DEF Bad
      <4> QED BY <3>1, <2>1
    <3>3. A[k - 1] \in Nat /\ p.data[k - 1].size \in Nat
      BY <3>1, <3>2, <1>1
    <3>4. A[k - 1] + p.data[k - 1].size \in Nat
      BY <3>3
    <3>5. A[k] = AlignUp(A[k - 1] + p.data[k - 1].size, p.data[k].align)
      BY <1>9, <2>2, <2>4
    <3> QED BY <3>4, <3>5, <1>1, <2>2, AlignUpNat
  <2> QED BY <2>3, <2>4
<1> QED BY <1>1, <1>9, <1>10 DEF A

LEMMA ConcatType ==
    ASSUME NEW S, NEW s \in Seq(S), NEW t \in Seq(S)
    PROVE  s \o t \in Seq(S) /\ Len(s \o t) = Len(s) + Len(t)
OBVIOUS

\* The output sections that assignAddresses leaves are sections.
LEMMA SectionsType ==
    ASSUME NEW p \in Programs, NEW dropped \in 0 .. p.size
    PROVE  /\ Sections(p, dropped) \in Seq(Section)
           /\ Len(Sections(p, dropped)) = Len(p.data) + 1
<1> DEFINE t == <<[name |-> ".text", addr |-> TextBase, size |-> p.size - dropped]>>
           d == [k \in DOMAIN p.data |-> [name |-> p.data[k].name,
                                          addr |-> Addrs(p, dropped)[k],
                                          size |-> p.data[k].size]]
<1>1. t \in Seq(Section) /\ Len(t) = 1
  <2>1. p.size \in Nat
    BY ProgramTyped
  <2>2. [name |-> ".text", addr |-> TextBase, size |-> p.size - dropped] \in Section
    BY <2>1, LoopAssumption DEF Section, Name
  <2> QED BY <2>2
<1>2. d \in Seq(Section) /\ Len(d) = Len(p.data)
  <2> DEFINE n == Len(p.data)
  <2>1. \A k \in DOMAIN p.data : d[k] \in Section
    <3> TAKE k \in DOMAIN p.data
    <3>1. p.data[k].name \in Name /\ p.data[k].size \in Nat
      BY ProgramTyped, DataSecTyped
    <3>2. Addrs(p, dropped)[k] \in Nat
      BY AddrsType
    <3> HIDE DEF Name
    <3> QED BY <3>1, <3>2 DEF Section
  <2>2. n \in Nat /\ DOMAIN p.data = 1 .. n
    BY ProgramTyped
  <2> HIDE DEF n
  <2>3. d \in [1 .. n -> Section]
    BY <2>1, <2>2
  <2> HIDE DEF d
  <2> QED BY <2>2, <2>3 DEF n
<1>3. Sections(p, dropped) = t \o d
  BY DEF Sections
<1> HIDE DEF t, d
<1>4. t \o d \in Seq(Section) /\ Len(t \o d) = Len(t) + Len(d)
  BY <1>1, <1>2, ConcatType, Zenon
<1>5. Len(p.data) \in Nat
  BY ProgramTyped
<1> QED BY <1>1, <1>2, <1>3, <1>4, <1>5

LEMMA RefsType ==
    ASSUME NEW p \in Programs, NEW dropped \in 0 .. p.size
    PROVE  RefsOf(p, dropped) \in Seq(Ref)
<1> DEFINE S == Sections(p, dropped)
           R == RefsOf(p, dropped)
           n == Len(p.relocs)
<1>1. n \in Nat /\ DOMAIN p.relocs = 1 .. n
  BY ProgramTyped
<1>2. \A i \in DOMAIN p.relocs : R[i] \in Ref
  <2> TAKE i \in DOMAIN p.relocs
  <2> DEFINE x == p.relocs[i]
  <2>1. x \in Reloc
    BY ProgramTyped
  <2>2. CASE IsData(x)
    <3>1. x.sec \in Nat /\ x.off \in Nat /\ x.sec + 1 \in 1 .. Len(p.data) + 1
      <4>1. x.sec \in DOMAIN p.data /\ DOMAIN p.data = 1 .. Len(p.data) /\ Len(p.data) \in Nat
        BY <2>2, ProgramTyped
      <4>2. x.off \in Nat
        BY <2>1, <2>2, RelocTyped
      <4> HIDE DEF x
      <4> QED BY <4>1, <4>2
    <3>2. S[x.sec + 1] \in Section
      <4>1. S \in Seq(Section) /\ Len(S) = Len(p.data) + 1
        BY SectionsType
      <4> HIDE DEF S, x
      <4> QED BY <3>1, <4>1
    <3>3. S[x.sec + 1].addr \in Nat
      <4> HIDE DEF S, x
      <4> QED BY <3>2 DEF Section
    <3>4. VA(x, S) \in Nat
      <4> HIDE DEF S, x
      <4> QED BY <3>1, <3>3 DEF VA
    <3>5. R[i] = [type |-> x.kind, sec |-> x.sec + 1, addr |-> VA(x, S)]
      BY <2>2 DEF RefsOf
    <3>6. x.kind \in {"HI20", "LO12_I", "LO12_S"}
      BY <2>2 DEF IsData
    <3> HIDE DEF S, x, R
    <3> QED BY <3>1, <3>4, <3>5, <3>6 DEF Ref
  <2>3. CASE ~IsData(x)
    <3>1. R[i] = [type |-> "other", sec |-> 0, addr |-> 0]
      BY <2>3 DEF RefsOf
    <3> HIDE DEF R
    <3> QED BY <3>1 DEF Ref
  <2> QED BY <2>2, <2>3
<1>3. R = [i \in DOMAIN p.relocs |-> R[i]]
  BY DEF RefsOf
<1> HIDE DEF R, n
<1>4. R \in [1 .. n -> Ref]
  BY <1>1, <1>2, <1>3
<1> QED BY <1>1, <1>4 DEF R

(***************************************************************************)
(* What relaxOnce removes, against a pointer g.                            *)
(***************************************************************************)
RemoveAt(x, loc, g) ==
    IF x.kind = "HI20" /\ x.relax /\ InReach(VA(x, outputSections), g) THEN 1
    ELSE IF x.kind = "CALL" /\ x.relax /\ relaxCall(x, loc) THEN 1
    ELSE IF x.kind = "ALIGN"
         THEN loc + x.addend - AlignUp(loc, x.addend + 1)
    ELSE 0

DeltasWith(g) ==
    LET d[i \in 0 .. Len(Relocs)] ==
          IF i = 0 THEN 0
          ELSE d[i - 1] + RemoveAt(Relocs[i], TextBase + Relocs[i].at - d[i - 1], g)
    IN  [i \in DOMAIN Relocs |-> d[i]]

TypesWith(g) ==
    [i \in DOMAIN Relocs |->
        IF IsData(Relocs[i]) /\ Relocs[i].relax /\ InReach(VA(Relocs[i], outputSections), g)
        THEN IF Relocs[i].kind = "HI20" THEN "removed" ELSE "gprel"
        ELSE "none"]

LEMMA RelaxedWith == RelaxedDeltas = DeltasWith(gp) /\ RelaxedTypes = TypesWith(gp)
BY DEF RelaxedDeltas, DeltasWith, RelaxedTypes, TypesWith, Remove, RemoveAt, relaxHi20Lo12

LEMMA RemoveBounds ==
    ASSUME NEW x \in Reloc, NEW loc \in Int, NEW g
    PROVE  RemoveAt(x, loc, g) \in 0 .. Width(x)
<1>1. CASE x.kind = "ALIGN"
  <2>1. x.addend \in Nat /\ x.addend + 1 \in Nat \ {0}
    BY <1>1, RelocTyped
  <2>2. /\ AlignUp(loc, x.addend + 1) \in Int /\ loc <= AlignUp(loc, x.addend + 1)
        /\ AlignUp(loc, x.addend + 1) <= loc + (x.addend + 1) - 1
    BY <2>1, AlignUpBounds
  <2>3. RemoveAt(x, loc, g) = loc + x.addend - AlignUp(loc, x.addend + 1)
    BY <1>1 DEF RemoveAt
  <2>4. Width(x) = x.addend
    BY <1>1 DEF Width
  <2> QED BY <2>1, <2>2, <2>3, <2>4
<1>2. CASE x.kind # "ALIGN"
  <2>1. RemoveAt(x, loc, g) \in {0, 1}
    BY <1>2 DEF RemoveAt
  <2>2. Width(x) \in {1, 2}
    BY <1>2 DEF Width
  <2> QED BY <2>1, <2>2
<1> QED BY <1>1, <1>2

\* What is removed in front of relocation i.
Prev(D, i) == IF i = 1 THEN 0 ELSE D[i - 1]

LEMMA DeltasRec ==
    ASSUME prog \in Programs, NEW g
    PROVE  /\ DOMAIN DeltasWith(g) = DOMAIN Relocs
           /\ DeltasWith(g) = [i \in DOMAIN Relocs |-> DeltasWith(g)[i]]
           /\ \A i \in DOMAIN Relocs :
                 /\ DeltasWith(g)[i] \in Nat
                 /\ Prev(DeltasWith(g), i) \in Nat
                 /\ DeltasWith(g)[i] = Prev(DeltasWith(g), i)
                      + RemoveAt(Relocs[i], TextBase + Relocs[i].at - Prev(DeltasWith(g), i), g)
                 /\ DeltasWith(g)[i] <= Relocs[i].at + Width(Relocs[i])
<1> DEFINE n == Len(Relocs)
           Off(i, v) == TextBase + Relocs[i].at - v
           F == [i \in 1 .. n |-> [v \in Int |-> v + RemoveAt(Relocs[i], Off(i, v), g)]]
           Eq(d) == d = [i \in 0 .. n |-> IF i = 0 THEN 0
                           ELSE d[i - 1] + RemoveAt(Relocs[i], TextBase + Relocs[i].at - d[i - 1], g)]
<1>1. /\ n \in Nat /\ DOMAIN Relocs = 1 .. n /\ TextBase \in Nat
      /\ \A i \in 1 .. n : /\ Relocs[i] \in Reloc /\ Relocs[i].at \in Nat
                           /\ Width(Relocs[i]) \in Nat
  <2>1. DOMAIN Relocs = 1 .. n /\ n \in Nat /\ \A i \in DOMAIN Relocs : Relocs[i] \in Reloc
    BY ProgramTyped DEF Relocs
  <2> QED BY <2>1, RelocTyped, LoopAssumption
<1> HIDE DEF n
<1>2. ASSUME NEW i \in 1 .. n, NEW v \in Int
      PROVE  /\ RemoveAt(Relocs[i], Off(i, v), g) \in Int
             /\ 0 <= RemoveAt(Relocs[i], Off(i, v), g)
             /\ RemoveAt(Relocs[i], Off(i, v), g) <= Width(Relocs[i])
  <2>1. Off(i, v) \in Int
    BY <1>1
  <2> HIDE DEF Off
  <2>2. RemoveAt(Relocs[i], Off(i, v), g) \in 0 .. Width(Relocs[i])
    BY <1>1, <2>1, RemoveBounds
  <2> QED BY <1>1, <2>2
<1>3. PICK f : Iterates(f, F, n, Int, 0)
  <2>1. F \in [1 .. n -> [Int -> Int]]
    <3>1. \A i \in 1 .. n, v \in Int : v + RemoveAt(Relocs[i], Off(i, v), g) \in Int
      BY <1>2
    <3> HIDE DEF Off
    <3> QED BY <3>1
  <2>2. Steps(F, n, Int)
    BY <2>1 DEF Steps
  <2>3. 0 \in Int
    OBVIOUS
  <2> HIDE DEF F
  <2> QED BY <1>1, <2>2, <2>3, IterateExists
<1>4. f \in [0 .. n -> Int] /\ f[0] = 0 /\ \A i \in 1 .. n : f[i] = F[i][f[i - 1]]
  BY <1>3 DEF Iterates
<1>5. Eq(f)
  <2>1. \A i \in 0 .. n : f[i] = IF i = 0 THEN 0 ELSE f[i - 1]
           + RemoveAt(Relocs[i], TextBase + Relocs[i].at - f[i - 1], g)
    <3> TAKE i \in 0 .. n
    <3>1. CASE i = 0
      BY <3>1, <1>4
    <3>2. CASE i # 0
      <4>1. i \in 1 .. n /\ i - 1 \in 0 .. n
        BY <3>2, <1>1
      <4>2. f[i - 1] \in Int
        BY <4>1, <1>4
      <4>3. f[i] = F[i][f[i - 1]]
        BY <4>1, <1>4
      <4>4. F[i][f[i - 1]] = f[i - 1] + RemoveAt(Relocs[i], Off(i, f[i - 1]), g)
        BY <4>1, <4>2
      <4> QED BY <4>3, <4>4, <3>2
    <3> QED BY <3>1, <3>2
  <2> QED BY <2>1, <1>4
<1> DEFINE d == CHOOSE e : Eq(e)
<1>6. Eq(d)
  <2> HIDE DEF Eq
  <2> QED BY <1>5
<1>7. DeltasWith(g) = [i \in DOMAIN Relocs |-> d[i]]
  BY DEF DeltasWith, n
<1>8. \A i \in 0 .. n : d[i] = IF i = 0 THEN 0 ELSE d[i - 1]
           + RemoveAt(Relocs[i], TextBase + Relocs[i].at - d[i - 1], g)
  <2> HIDE DEF d
  <2> QED BY <1>6
<1> HIDE DEF d
<1>9. \A i \in 1 .. n : d[i] \in Nat /\ d[i] <= Relocs[i].at + Width(Relocs[i])
  <2> DEFINE Bad == {i \in 1 .. n : ~(d[i] \in Nat /\ d[i] <= Relocs[i].at + Width(Relocs[i]))}
  <2> SUFFICES ASSUME Bad # {} PROVE FALSE
    OBVIOUS
  <2>1. PICK i \in Bad : \A j \in Bad : i <= j
    <3>1. Bad \in SUBSET Nat
      BY <1>1
    <3> HIDE DEF Bad
    <3> QED BY <3>1, LeastNat
  <2>2. i \in 1 .. n /\ i \in 0 .. n /\ i # 0 /\ i - 1 \in 0 .. n
    BY <1>1
  <2>3. ~(d[i] \in Nat /\ d[i] <= Relocs[i].at + Width(Relocs[i]))
    OBVIOUS
  <2>4. d[i - 1] \in Nat /\ d[i - 1] <= Relocs[i].at
    <3>1. CASE i = 1
      BY <3>1, <1>1, <1>8, <2>2
    <3>2. CASE i # 1
      <4>1. i - 1 \in 1 .. n /\ ~(i <= i - 1) /\ i - 1 + 1 = i /\ i - 1 # n
        BY <2>2, <3>2, <1>1
      <4>2. i - 1 \notin Bad
        <5> HIDE DEF Bad
        <5> QED BY <4>1, <2>1
      <4>3. d[i - 1] \in Nat /\ d[i - 1] <= Relocs[i - 1].at + Width(Relocs[i - 1])
        BY <4>1, <4>2
      <4>4. Relocs[i - 1].at + Width(Relocs[i - 1]) <= Relocs[i].at
        <5>1. InOrder(prog)
          BY ProgramTyped
        <5>2. Relocs[i - 1].at + Width(Relocs[i - 1]) <= IF i - 1 = n THEN prog.size ELSE Relocs[i - 1 + 1].at
          BY <1>1, <4>1, <5>1 DEF InOrder, Relocs, n
        <5> QED BY <5>2, <4>1
      <4> QED BY <1>1, <2>2, <4>1, <4>3, <4>4
    <3> QED BY <3>1, <3>2
  <2>5. d[i] = d[i - 1] + RemoveAt(Relocs[i], Off(i, d[i - 1]), g)
    BY <1>8, <2>2
  <2>6. /\ RemoveAt(Relocs[i], Off(i, d[i - 1]), g) \in Int
        /\ 0 <= RemoveAt(Relocs[i], Off(i, d[i - 1]), g)
        /\ RemoveAt(Relocs[i], Off(i, d[i - 1]), g) <= Width(Relocs[i])
    BY <1>2, <2>2, <2>4
  <2> HIDE DEF Off
  <2> QED BY SMTT(30), <1>1, <2>2, <2>3, <2>4, <2>5, <2>6
<1> DEFINE D == DeltasWith(g)
<1>10. DOMAIN D = 1 .. n /\ \A i \in 1 .. n : D[i] = d[i]
  BY <1>1, <1>7
<1>11. D = [i \in DOMAIN Relocs |-> D[i]]
  BY <1>7
<1> HIDE DEF D
<1>12. ASSUME NEW i \in 1 .. n
       PROVE  /\ D[i] \in Nat /\ Prev(D, i) \in Nat
              /\ D[i] = Prev(D, i) + RemoveAt(Relocs[i], TextBase + Relocs[i].at - Prev(D, i), g)
              /\ D[i] <= Relocs[i].at + Width(Relocs[i])
  <2>1. i \in 0 .. n /\ 0 \in 0 .. n /\ i # 0
    BY <1>1
  <2>2. Prev(D, i) = d[i - 1] /\ Prev(D, i) \in Nat
    <3>1. CASE i = 1
      BY <3>1, <1>8, <2>1 DEF Prev
    <3>2. CASE i # 1
      <4>1. i - 1 \in 1 .. n
        BY <3>2, <1>1
      <4> QED BY <4>1, <3>2, <1>9, <1>10 DEF Prev
    <3> QED BY <3>1, <3>2
  <2> QED BY <1>8, <1>9, <1>10, <2>1, <2>2
<1> QED BY <1>1, <1>10, <1>11, <1>12 DEF D

\* No pass removes more than the text has.
LEMMA DeltasEnd ==
    ASSUME prog \in Programs, NEW g, Len(Relocs) \in DOMAIN Relocs
    PROVE  DeltasWith(g)[Len(Relocs)] \in 0 .. prog.size
<1> DEFINE n == Len(Relocs)
<1>1. n \in Nat /\ prog.size \in Nat /\ Relocs[n] \in Reloc /\ Relocs = prog.relocs
  BY ProgramTyped DEF Relocs
<1>2. DeltasWith(g)[n] \in Nat /\ DeltasWith(g)[n] <= Relocs[n].at + Width(Relocs[n])
  BY DeltasRec
<1>3. Relocs[n].at + Width(Relocs[n]) <= prog.size
  <2>1. InOrder(prog)
    BY ProgramTyped
  <2> QED BY <1>1, <2>1 DEF InOrder
<1>4. Relocs[n].at \in Nat /\ Width(Relocs[n]) \in Nat
  BY <1>1, RelocTyped
<1> QED BY <1>1, <1>2, <1>3, <1>4

(***************************************************************************)
(* calculateRISCVGP is a function of the sections and the references: what *)
(* it chooses is determined, so that it chooses the same again.            *)
(***************************************************************************)
\* The start of the first longest window and its length.
BestWindow(xs, b, c) ==
    /\ b \in Nat \ {0} /\ c \in Nat \ {0} /\ b + c - 1 <= Len(xs)
    /\ xs[b + c - 1] - xs[b] <= Window
    /\ \A i, j \in DOMAIN xs : i <= j /\ xs[j] - xs[i] <= Window => j - i + 1 <= c
    /\ \A i \in DOMAIN xs : i < b => xs[i + c - 1] - xs[i] > Window

Chosen(xs, b, c) ==
    IF c > countCoveredRefs(xs, DefaultGpVA) /\ InSection(xs[b] + Half)
    THEN xs[b] + Half ELSE DefaultGpVA

PlacedFrom(xs, g) ==
    IF xs = <<>> THEN g = DefaultGpVA
    ELSE \E b, c \in Nat : BestWindow(xs, b, c) /\ g = Chosen(xs, b, c)

\* g is where calculateRISCVGP puts the pointer.
PlacedAt(g) ==
    IF DataSections = {} THEN g = Half
    ELSE \E xs \in SortedAddrs : PlacedFrom(xs, g)

\* How often a is among the first n.
Times(xs, n, a) == Cardinality({k \in 1 .. n : xs[k] = a})

\* Where two sorted lists first differ, the one with the smaller number has it
\* more often.
LEMMA FirstDifference ==
    ASSUME NEW n \in Nat, NEW xs \in [1 .. n -> Nat], NEW ys \in [1 .. n -> Nat],
           Sorted(ys), NEW m \in 1 .. n,
           \A k \in 1 .. n : k < m => xs[k] = ys[k], xs[m] < ys[m]
    PROVE  Times(xs, n, xs[m]) # Times(ys, n, xs[m])
<1> DEFINE A == {k \in 1 .. n : ys[k] = xs[m]}
           B == {k \in 1 .. n : xs[k] = xs[m]}
<1>1. A \subseteq B
  <2> SUFFICES ASSUME NEW k \in 1 .. n, ys[k] = xs[m] PROVE xs[k] = xs[m]
    OBVIOUS
  <2>1. k < m
    <3> SUFFICES ASSUME m <= k PROVE FALSE
      OBVIOUS
    <3>1. ys[m] <= ys[k]
      <4>1. CASE k = m
        BY <4>1
      <4>2. CASE m < k
        BY <4>2 DEF Sorted
      <4> QED BY <4>1, <4>2
    <3>2. xs[m] \in Nat /\ ys[m] \in Nat /\ ys[k] \in Nat
      OBVIOUS
    <3> QED BY <3>1, <3>2
  <2> QED BY <2>1
<1>2. m \in B /\ m \notin A
  <2>1. xs[m] \in Nat /\ ys[m] \in Nat
    OBVIOUS
  <2> QED BY <2>1
<1>3. IsFiniteSet(B)
  <2>1. IsFiniteSet(1 .. n) /\ B \in SUBSET (1 .. n)
    BY FS_Interval
  <2> HIDE DEF B
  <2> QED BY <2>1, FS_Subset
<1>4. Cardinality(A) # Cardinality(B)
  <2> HIDE DEF A, B
  <2>1. A \in SUBSET B /\ A # B
    BY <1>1, <1>2
  <2>2. Cardinality(B) = Cardinality(A) => B = A
    BY <1>3, <2>1, FS_Subset
  <2> QED BY <2>1, <2>2
<1> QED BY <1>4 DEF Times

LEMMA SortedUnique ==
    ASSUME refs \in Seq(Ref), NEW xs \in SortedAddrs, NEW ys \in SortedAddrs PROVE xs = ys
<1> DEFINE n == Cardinality(Counted)
           found == {refs[i].addr : i \in Counted}
<1>1. /\ xs \in Seq(Nat) /\ Sorted(xs) /\ DOMAIN xs = 1 .. n /\ n \in Nat
      /\ ys \in Seq(Nat) /\ Sorted(ys) /\ DOMAIN ys = 1 .. n
  BY SortedAddrsType
<1>2. /\ xs \in [1 .. n -> found] /\ ys \in [1 .. n -> found]
      /\ \A a \in found : Cardinality({i \in DOMAIN xs : xs[i] = a})
                            = Cardinality({i \in DOMAIN ys : ys[i] = a})
  BY DEF SortedAddrs
<1> HIDE DEF n, found
<1>3. xs \in [1 .. n -> Nat] /\ ys \in [1 .. n -> Nat]
  <2>1. xs = [i \in 1 .. n |-> xs[i]] /\ ys = [i \in 1 .. n |-> ys[i]]
    BY <1>2
  <2>2. \A i \in 1 .. n : xs[i] \in Nat /\ ys[i] \in Nat
    BY <1>1
  <2> QED BY <2>1, <2>2
<1>4. \A a \in found : Times(xs, n, a) = Times(ys, n, a)
  BY <1>1, <1>2 DEF Times
<1>5. \A i \in 1 .. n : xs[i] = ys[i]
  <2> DEFINE Bad == {i \in 1 .. n : xs[i] # ys[i]}
  <2> SUFFICES ASSUME Bad # {} PROVE FALSE
    OBVIOUS
  <2>1. PICK m \in Bad : \A j \in Bad : m <= j
    <3>1. Bad \in SUBSET Nat
      BY <1>1
    <3> HIDE DEF Bad
    <3> QED BY <3>1, LeastNat
  <2>2. m \in 1 .. n /\ xs[m] # ys[m] /\ xs[m] \in Nat /\ ys[m] \in Nat
    BY <1>3
  <2>3. \A k \in 1 .. n : k < m => xs[k] = ys[k]
    <3> SUFFICES ASSUME NEW k \in 1 .. n, k < m, xs[k] # ys[k] PROVE FALSE
      OBVIOUS
    <3>1. k \in Bad
      OBVIOUS
    <3>2. ~(m <= k)
      BY <2>2, <1>1
    <3> HIDE DEF Bad
    <3> QED BY <2>1, <3>1, <3>2
  <2>4. xs[m] \in found /\ ys[m] \in found
    BY <1>2, <2>2
  <2> HIDE DEF Bad
  <2>5. CASE xs[m] < ys[m]
    <3>1. Times(xs, n, xs[m]) # Times(ys, n, xs[m])
      BY <1>1, <1>3, <2>2, <2>3, <2>5, FirstDifference
    <3> QED BY <1>4, <2>4, <3>1
  <2>6. CASE ys[m] < xs[m]
    <3>1. \A k \in 1 .. n : k < m => ys[k] = xs[k]
      BY <2>3
    <3>2. Times(ys, n, ys[m]) # Times(xs, n, ys[m])
      BY <1>1, <1>3, <2>2, <3>1, <2>6, FirstDifference
    <3> QED BY <1>4, <2>4, <3>2
  <2> QED BY <2>2, <2>5, <2>6
<1>6. xs = [i \in 1 .. n |-> xs[i]] /\ ys = [i \in 1 .. n |-> ys[i]]
  BY <1>3
<1> QED BY <1>5, <1>6

LEMMA BestUnique ==
    ASSUME NEW xs \in Seq(Nat), NEW b \in Nat, NEW c \in Nat, NEW e \in Nat, NEW f \in Nat,
           BestWindow(xs, b, c), BestWindow(xs, e, f)
    PROVE  b = e /\ c = f
<1>0. Len(xs) \in Nat /\ DOMAIN xs = 1 .. Len(xs)
  OBVIOUS
<1>1. /\ b # 0 /\ c # 0 /\ b + c - 1 <= Len(xs) /\ xs[b + c - 1] - xs[b] <= Window
      /\ e # 0 /\ f # 0 /\ e + f - 1 <= Len(xs) /\ xs[e + f - 1] - xs[e] <= Window
  BY DEF BestWindow
<1>2. /\ b \in DOMAIN xs /\ b + c - 1 \in DOMAIN xs /\ b <= b + c - 1
      /\ e \in DOMAIN xs /\ e + f - 1 \in DOMAIN xs /\ e <= e + f - 1
      /\ (b + c - 1) - b + 1 = c /\ (e + f - 1) - e + 1 = f
  BY SMTT(30), <1>0, <1>1
<1>3. c <= f
  BY <1>1, <1>2 DEF BestWindow
<1>4. f <= c
  BY <1>1, <1>2 DEF BestWindow
<1>5. c = f
  BY <1>3, <1>4
<1>6. \A i, j \in DOMAIN xs : xs[i] - xs[j] \in Int /\ Window \in Int
  BY GPAssumption DEF Window
<1>7. ~(b < e)
  <2> SUFFICES ASSUME b < e PROVE FALSE
    OBVIOUS
  <2>1. xs[b + f - 1] - xs[b] > Window
    BY <1>2 DEF BestWindow
  <2>2. xs[b + c - 1] - xs[b] > Window
    BY <1>5, <2>1
  <2>3. xs[b + c - 1] - xs[b] \in Int /\ Window \in Int
    BY <1>2, <1>6
  <2> QED BY <1>1, <2>2, <2>3
<1>8. ~(e < b)
  <2> SUFFICES ASSUME e < b PROVE FALSE
    OBVIOUS
  <2>1. xs[e + c - 1] - xs[e] > Window
    BY <1>2 DEF BestWindow
  <2>2. xs[e + f - 1] - xs[e] > Window
    BY <1>5, <2>1
  <2>3. xs[e + f - 1] - xs[e] \in Int /\ Window \in Int
    BY <1>2, <1>6
  <2> QED BY <1>1, <2>2, <2>3
<1> QED BY <1>5, <1>7, <1>8

LEMMA PlacedUnique ==
    ASSUME refs \in Seq(Ref), NEW g, NEW h, PlacedAt(g), PlacedAt(h) PROVE g = h
<1>1. CASE DataSections = {}
  BY <1>1 DEF PlacedAt
<1>2. CASE DataSections # {}
  <2>1. PICK xs \in SortedAddrs : PlacedFrom(xs, g)
    BY <1>2 DEF PlacedAt
  <2>2. PICK ys \in SortedAddrs : PlacedFrom(ys, h)
    BY <1>2 DEF PlacedAt
  <2>3. xs = ys /\ xs \in Seq(Nat)
    BY SortedUnique, SortedAddrsType
  <2>4. CASE xs = <<>>
    BY <2>1, <2>2, <2>3, <2>4 DEF PlacedFrom
  <2>5. CASE xs # <<>>
    <3>1. PICK b \in Nat, c \in Nat : BestWindow(xs, b, c) /\ g = Chosen(xs, b, c)
      BY <2>1, <2>5 DEF PlacedFrom
    <3>2. PICK e \in Nat, f \in Nat : BestWindow(xs, e, f) /\ h = Chosen(xs, e, f)
      BY <2>2, <2>3, <2>5 DEF PlacedFrom
    <3>3. b = e /\ c = f
      BY <2>3, <3>1, <3>2, BestUnique
    <3> QED BY <3>1, <3>2, <3>3
  <2> QED BY <2>4, <2>5
<1> QED BY <1>1, <1>2
-----------------------------------------------------------------------------
(***************************************************************************)
(* The inductive invariant.                                                *)
(***************************************************************************)
LoopTypes ==
    /\ prog \in Programs
    /\ step \in {"relax", "assign", "place", "converged", "notConverged"}
    /\ pass \in Nat /\ changed \in BOOLEAN
    /\ Dropped \in 0 .. prog.size

\* Where the loop is and what it has done.
Control ==
    /\ step = "relax" /\ pass = 0 => deltas = [i \in DOMAIN Relocs |-> 0]
    /\ step # "relax" => pass > 0
    /\ step = "converged" => ~changed

\* The sections and references are those of the text as it was last relaxed.
InputsCurrent ==
    step \in {"relax", "place", "converged"} \/ (step = "assign" /\ ~changed) =>
        outputSections = Sections(prog, Dropped) /\ refs = RefsOf(prog, Dropped)

\* No earlier window is as long as the best one.
BestFirst ==
    bestCount > 0 => \A i \in DOMAIN addrs :
                        i < bestL => addrs[i + bestCount - 1] - addrs[i] > Window

\* The search for the pointer in progress.
Searching ==
    step = "place" =>
        /\ pc = "collect" => gp = Half
        /\ pc \in {"window", "choose"} =>
              addrs \in SortedAddrs /\ addrs # <<>> /\ BestFirst

Placed ==
    \/ step = "relax" /\ pass > 0
    \/ step = "place" /\ pc = "done"
    \/ step = "converged"
    => PlacedAt(gp)

\* When a later pass has changed nothing, it relaxed against the pointer that
\* the placement gives for the sections as they are.
Settled ==
    ~changed /\ pass > 1 /\ step \in {"assign", "place", "converged"} =>
        \E g : PlacedAt(g) /\ deltas = DeltasWith(g) /\ types = TypesWith(g)

\* When the first pass has changed nothing, it relaxed no access.
NothingRelaxed ==
    ~changed /\ pass = 1 /\ step \in {"assign", "place", "converged"} /\ Paired(prog) =>
        \A i \in DOMAIN Relocs : types[i] # "gprel"

LoopIInv == /\ LoopTypes /\ IInv /\ Control /\ InputsCurrent /\ Searching /\ Placed
            /\ Settled /\ NothingRelaxed

\* The placement and the relaxation depend on the input alone.
LEMMA Frame ==
    ASSUME outputSections' = outputSections, refs' = refs, prog' = prog
    PROVE  /\ Relocs' = Relocs /\ SortedAddrs' = SortedAddrs
           /\ DataSections' = DataSections /\ DefaultGpVA' = DefaultGpVA
           /\ \A g : /\ PlacedAt(g)' <=> PlacedAt(g)
                     /\ DeltasWith(g)' = DeltasWith(g) /\ TypesWith(g)' = TypesWith(g)
<1>1. Relocs' = Relocs /\ DataSections' = DataSections
  BY DEF Relocs, DataSections
<1>2. DefaultGpVA' = DefaultGpVA /\ SortedAddrs' = SortedAddrs
  BY <1>1 DEF DefaultGpVA, DefaultSec, SortedAddrs, Counted
<1>3. \A xs, b, c : Chosen(xs, b, c)' = Chosen(xs, b, c)
  BY <1>1, <1>2 DEF Chosen, countCoveredRefs, Covered, InReach, InSection
<1>4. \A xs, g : PlacedFrom(xs, g)' <=> PlacedFrom(xs, g)
  BY SMTT(30), <1>2, <1>3 DEF PlacedFrom, BestWindow, Window
<1>5. \A g : PlacedAt(g)' <=> PlacedAt(g)
  BY <1>1, <1>2, <1>4 DEF PlacedAt
<1>6. \A g : DeltasWith(g)' = DeltasWith(g) /\ TypesWith(g)' = TypesWith(g)
  BY <1>1 DEF DeltasWith, TypesWith, RemoveAt, InReach, relaxCall
<1> QED BY <1>1, <1>2, <1>5, <1>6

\* setReservedSymbolSections gives gp an address.
LEMMA InitialGpType == ASSUME NEW p \in Programs PROVE InitialGp(p) \in Nat
<1> DEFINE sdata == {k \in DOMAIN p.data : p.data[k].name = ".sdata"}
           first == CHOOSE k \in sdata : \A j \in sdata : k <= j
<1>1. CASE sdata = {}
  BY <1>1, GPAssumption DEF InitialGp
<1>2. CASE sdata # {}
  <2>1. sdata \in SUBSET Nat /\ sdata \subseteq DOMAIN p.data
    BY ProgramTyped
  <2>2. first \in sdata
    <3> HIDE DEF sdata
    <3>1. \E k \in sdata : \A j \in sdata : k <= j
      BY <1>2, <2>1, LeastNat
    <3> QED BY <3>1
  <2>3. 0 \in 0 .. p.size
    BY ProgramTyped
  <2>4. Addrs(p, 0) \in [DOMAIN p.data -> Nat]
    BY <2>3, AddrsType
  <2>5. Addrs(p, 0)[first] \in Nat
    <3> HIDE DEF first, sdata
    <3> QED BY <2>1, <2>2, <2>4
  <2>6. InitialGp(p) = Half + Addrs(p, 0)[first]
    BY <1>2 DEF InitialGp
  <2> HIDE DEF first
  <2> QED BY <2>5, <2>6, GPAssumption
<1> QED BY <1>1, <1>2

LEMMA InitLoop == LoopInit => LoopIInv
<1> SUFFICES ASSUME LoopInit PROVE LoopIInv
  OBVIOUS
<1>1. /\ prog \in Programs /\ gp = InitialGp(prog) /\ score = 0 /\ pc = "done"
      /\ outputSections = Sections(prog, 0) /\ refs = RefsOf(prog, 0)
      /\ addrs = <<>> /\ l = 1 /\ r = 1 /\ bestL = 1 /\ bestCount = 0
      /\ step = "relax" /\ pass = 0 /\ changed = FALSE
      /\ deltas = [i \in DOMAIN Relocs |-> 0]
  BY DEF LoopInit
<1>2. Relocs = prog.relocs /\ Len(Relocs) \in Nat /\ DOMAIN Relocs = 1 .. Len(Relocs)
      /\ prog.size \in Nat /\ Relocs \in Seq(Reloc)
  BY <1>1, ProgramTyped DEF Relocs
<1>3. Dropped = 0
  <2>1. CASE Relocs = <<>>
    BY <2>1 DEF Dropped
  <2>2. CASE Relocs # <<>>
    <3>1. Len(Relocs) \in DOMAIN Relocs
      BY <1>2, <2>2
    <3> QED BY <1>1, <2>2, <3>1 DEF Dropped
  <2> QED BY <2>1, <2>2
<1>4. 0 \in 0 .. prog.size
  BY <1>2
<1>5. LoopTypes
  BY <1>1, <1>3, <1>4 DEF LoopTypes
<1>6. TypeOK
  <2>1. outputSections \in Seq(Section) /\ refs \in Seq(Ref)
    BY <1>1, <1>4, SectionsType, RefsType
  <2>2. gp \in Nat
    BY <1>1, InitialGpType
  <2> QED BY <1>1, <2>1, <2>2 DEF TypeOK
<1>7. \A g : countCoveredRefs(addrs, g) = 0
  <2> TAKE g
  <2>1. Covered(addrs, g) = {}
    BY <1>1 DEF Covered
  <2> QED BY <2>1, FS_EmptySet DEF countCoveredRefs
<1>8. Result
  BY <1>1, <1>7 DEF Result, NoWorseThanDefault, BestOfAll, BestOf
<1>9. Sorted(addrs) /\ Bounds /\ LeftOutOfReach /\ WindowsSeen /\ BestFits /\ DefaultScored
  BY <1>1 DEF Sorted, Bounds, LeftOutOfReach, WindowsSeen, BestFits, DefaultScored
<1>10. Control /\ InputsCurrent /\ Searching /\ Placed /\ Settled /\ NothingRelaxed
  BY <1>1, <1>3 DEF Control, InputsCurrent, Searching, Placed, Settled, NothingRelaxed
<1> QED BY <1>5, <1>6, <1>8, <1>9, <1>10 DEF LoopIInv, IInv

\* A first pass that removes nothing finds no lui in reach.
LEMMA NoneInReach ==
    ASSUME prog \in Programs, Paired(prog), NEW g,
           DeltasWith(g) = [i \in DOMAIN Relocs |-> 0]
    PROVE  \A i \in DOMAIN Relocs : TypesWith(g)[i] # "gprel"
<1> SUFFICES ASSUME NEW i \in DOMAIN Relocs, TypesWith(g)[i] = "gprel" PROVE FALSE
  OBVIOUS
<1>1. /\ IsData(Relocs[i]) /\ Relocs[i].kind # "HI20" /\ Relocs[i].relax
      /\ InReach(VA(Relocs[i], outputSections), g)
  BY DEF TypesWith
<1>2. Relocs[i].kind \in {"LO12_I", "LO12_S"}
  BY <1>1 DEF IsData
<1>3. PICK j \in DOMAIN Relocs : /\ Relocs[j].kind = "HI20" /\ Relocs[j].relax
                                 /\ Relocs[j].sec = Relocs[i].sec
                                 /\ Relocs[j].off = Relocs[i].off
  BY <1>1, <1>2 DEF Paired, Relocs
<1>4. InReach(VA(Relocs[j], outputSections), g)
  BY <1>1, <1>3 DEF VA
<1> DEFINE D == DeltasWith(g)
<1>5. /\ Prev(D, j) \in Nat /\ D[j] = 0
      /\ D[j] = Prev(D, j) + RemoveAt(Relocs[j], TextBase + Relocs[j].at - Prev(D, j), g)
  BY DeltasRec
<1>6. RemoveAt(Relocs[j], TextBase + Relocs[j].at - Prev(D, j), g) = 1
  BY <1>3, <1>4 DEF RemoveAt
<1> HIDE DEF D
<1> QED BY <1>5, <1>6

LEMMA RelaxStep == ASSUME LoopIInv, Relax PROVE LoopIInv'
<1>1. /\ step = "relax" /\ deltas' = RelaxedDeltas /\ types' = RelaxedTypes
      /\ changed' = (deltas' # deltas) /\ pass' = pass + 1
      /\ step' = IF changed' /\ pass' >= MaxPass THEN "notConverged" ELSE "assign"
      /\ UNCHANGED vars /\ prog' = prog
  BY DEF Relax
<1>2. /\ prog \in Programs /\ pass \in Nat /\ IInv
      /\ outputSections = Sections(prog, Dropped) /\ refs = RefsOf(prog, Dropped)
      /\ pass = 0 => deltas = [i \in DOMAIN Relocs |-> 0]
      /\ pass > 0 => PlacedAt(gp)
  BY <1>1 DEF LoopIInv, LoopTypes, InputsCurrent, Control, Placed
<1>3. IInv'
  BY <1>1, <1>2, Stutter
<1>4. outputSections' = outputSections /\ refs' = refs /\ gp' = gp
  BY <1>1 DEF vars
<1>5. /\ Relocs' = Relocs
      /\ \A g : /\ PlacedAt(g)' <=> PlacedAt(g)
                /\ DeltasWith(g)' = DeltasWith(g) /\ TypesWith(g)' = TypesWith(g)
  BY <1>1, <1>4, Frame
<1>6. deltas' = DeltasWith(gp) /\ types' = TypesWith(gp)
  BY <1>1, RelaxedWith
<1>7. Dropped' \in 0 .. prog.size
  <2>1. PICK g : g = gp
    OBVIOUS
  <2>2. deltas' = DeltasWith(g)'
    BY <1>5, <1>6, <2>1
  <2>3. Relocs = prog.relocs /\ Len(Relocs) \in Nat /\ DOMAIN Relocs = 1 .. Len(Relocs)
        /\ prog.size \in Nat /\ Relocs \in Seq(Reloc)
    BY <1>2, ProgramTyped DEF Relocs
  <2>4. CASE Relocs = <<>>
    BY <1>5, <2>3, <2>4 DEF Dropped
  <2>5. CASE Relocs # <<>>
    <3>1. Len(Relocs) \in DOMAIN Relocs
      BY <2>3, <2>5
    <3>2. Dropped' = DeltasWith(gp)[Len(Relocs)]
      BY <1>5, <1>6, <2>5 DEF Dropped
    <3> QED BY <1>2, <2>3, <3>1, <3>2, DeltasEnd
  <2> QED BY <2>4, <2>5
<1>8. LoopTypes'
  BY <1>1, <1>2, <1>7 DEF LoopTypes
<1>9. Control' /\ Searching' /\ Placed'
  BY <1>1, <1>2 DEF Control, Searching, Placed
<1>10. InputsCurrent'
  <2> SUFFICES ASSUME ~changed' PROVE Dropped' = Dropped
    BY <1>1, <1>2, <1>4 DEF InputsCurrent
  <2> QED BY <1>1, <1>5 DEF Dropped
<1>11. Settled'
  <2> SUFFICES ASSUME ~changed', pass' > 1
               PROVE  \E g : PlacedAt(g)' /\ deltas' = DeltasWith(g)' /\ types' = TypesWith(g)'
    BY DEF Settled
  <2>1. PlacedAt(gp)
    BY <1>1, <1>2
  <2>2. PICK g : g = gp
    OBVIOUS
  <2>3. PlacedAt(g) /\ deltas' = DeltasWith(g) /\ types' = TypesWith(g)
    BY <1>6, <2>1, <2>2
  <2> QED BY <1>5, <2>3
<1>12. NothingRelaxed'
  <2> SUFFICES ASSUME ~changed', pass' = 1, Paired(prog)
               PROVE  \A i \in DOMAIN Relocs : types'[i] # "gprel"
    BY <1>1, <1>5 DEF NothingRelaxed
  <2>1. deltas = [i \in DOMAIN Relocs |-> 0]
    BY <1>1, <1>2
  <2>2. DeltasWith(gp) = [i \in DOMAIN Relocs |-> 0]
    BY <1>1, <1>6, <2>1
  <2> QED BY <1>2, <1>6, <2>2, NoneInReach
<1> QED BY <1>3, <1>8, <1>9, <1>10, <1>11, <1>12 DEF LoopIInv

LEMMA AssignStep == ASSUME LoopIInv, Assign PROVE LoopIInv'
<1>1. /\ step = "assign" /\ step' = "place"
      /\ outputSections' = Sections(prog, Dropped) /\ refs' = RefsOf(prog, Dropped)
      /\ gp' = Half /\ score' = 0 /\ pc' = "collect"
      /\ addrs' = <<>> /\ l' = 1 /\ r' = 1 /\ bestL' = 1 /\ bestCount' = 0
      /\ UNCHANGED <<prog, pass, changed, deltas, types>>
  BY DEF Assign
<1>2. /\ prog \in Programs /\ Dropped \in 0 .. prog.size /\ pass \in Nat /\ pass > 0
      /\ ~changed => outputSections = Sections(prog, Dropped) /\ refs = RefsOf(prog, Dropped)
  BY <1>1 DEF LoopIInv, LoopTypes, InputsCurrent, Control
<1>3. Relocs' = Relocs /\ Dropped' = Dropped
  BY <1>1 DEF Relocs, Dropped
<1>4. TypeOK'
  <2>1. outputSections' \in Seq(Section) /\ refs' \in Seq(Ref)
    BY <1>1, <1>2, SectionsType, RefsType
  <2> QED BY <1>1, <2>1, GPAssumption DEF TypeOK
<1>5. IInv'
  <2>1. Sorted(addrs)'
    BY <1>1 DEF Sorted
  <2> QED BY <1>1, <1>4, <2>1 DEF IInv, Bounds, LeftOutOfReach, WindowsSeen,
        BestFits, DefaultScored, Result, NoWorseThanDefault, BestOfAll, BestOf
<1>6. LoopTypes' /\ Control' /\ Searching' /\ Placed'
  BY <1>1, <1>2, <1>3 DEF LoopIInv, LoopTypes, Control, Searching, Placed
<1>7. InputsCurrent'
  BY <1>1, <1>3 DEF InputsCurrent
<1>8. Settled'
  <2> SUFFICES ASSUME ~changed, pass > 1
               PROVE  \E g : PlacedAt(g)' /\ deltas' = DeltasWith(g)' /\ types' = TypesWith(g)'
    BY <1>1 DEF Settled
  <2>1. outputSections' = outputSections /\ refs' = refs /\ prog' = prog
    BY <1>1, <1>2
  <2>2. PICK g : PlacedAt(g) /\ deltas = DeltasWith(g) /\ types = TypesWith(g)
    BY <1>1 DEF LoopIInv, Settled
  <2>3. /\ PlacedAt(g)' <=> PlacedAt(g)
        /\ DeltasWith(g)' = DeltasWith(g) /\ TypesWith(g)' = TypesWith(g)
    BY <2>1, Frame
  <2> QED BY <1>1, <2>2, <2>3
<1>9. NothingRelaxed'
  BY <1>1, <1>3 DEF LoopIInv, NothingRelaxed
<1> QED BY <1>5, <1>6, <1>7, <1>8, <1>9 DEF LoopIInv

\* What the placement leaves alone, whichever step of it is taken.
LEMMA PlaceFrame ==
    ASSUME LoopIInv, step = "place", UNCHANGED loopVars, UNCHANGED inputs
    PROVE  /\ LoopTypes' /\ Control' /\ InputsCurrent' /\ Settled' /\ NothingRelaxed'
           /\ outputSections' = outputSections /\ refs' = refs /\ prog' = prog
           /\ step' = "place"
<1>1. /\ outputSections' = outputSections /\ refs' = refs /\ prog' = prog
      /\ step' = step /\ pass' = pass /\ changed' = changed /\ deltas' = deltas
      /\ types' = types
  BY DEF loopVars, inputs
<1>2. Relocs' = Relocs /\ Dropped' = Dropped
  BY <1>1 DEF Relocs, Dropped
<1>3. LoopTypes' /\ Control' /\ NothingRelaxed'
  BY <1>1, <1>2 DEF LoopIInv, LoopTypes, Control, NothingRelaxed
<1>4. InputsCurrent'
  <2>1. outputSections' = Sections(prog, Dropped) /\ refs' = RefsOf(prog, Dropped)
    BY <1>1 DEF LoopIInv, InputsCurrent
  <2> QED BY <1>1, <1>2, <2>1 DEF InputsCurrent
<1>5. Settled'
  <2> SUFFICES ASSUME ~changed, pass > 1
               PROVE  \E g : PlacedAt(g)' /\ deltas' = DeltasWith(g)' /\ types' = TypesWith(g)'
    BY <1>1 DEF Settled
  <2>1. PICK g : PlacedAt(g) /\ deltas = DeltasWith(g) /\ types = TypesWith(g)
    BY DEF LoopIInv, Settled
  <2>2. /\ PlacedAt(g)' <=> PlacedAt(g)
        /\ DeltasWith(g)' = DeltasWith(g) /\ TypesWith(g)' = TypesWith(g)
    BY <1>1, Frame
  <2> QED BY <1>1, <2>1, <2>2
<1> QED BY <1>1, <1>3, <1>4, <1>5

LEMMA PlaceCollect ==
    ASSUME LoopIInv, step = "place", UNCHANGED loopVars, Collect PROVE LoopIInv'
<1>1. UNCHANGED inputs /\ pc = "collect" /\ gp = Half /\ bestCount' = bestCount
      /\ IInv /\ bestCount = 0
  BY DEF Collect, LoopIInv, Searching, IInv, Bounds
<1>2. /\ LoopTypes' /\ Control' /\ InputsCurrent' /\ Settled' /\ NothingRelaxed'
      /\ outputSections' = outputSections /\ refs' = refs /\ prog' = prog
      /\ step' = "place"
  BY <1>1, PlaceFrame
<1>3. IInv'
  BY <1>1, CollectStep
<1>4. /\ SortedAddrs' = SortedAddrs /\ DataSections' = DataSections
      /\ \A g : PlacedAt(g)' <=> PlacedAt(g)
  BY <1>2, Frame
<1>5. PICK g : g = gp'
  OBVIOUS
<1>6. CASE DataSections = {}
  <2>1. pc' = "done" /\ gp' = gp
    BY <1>6 DEF Collect
  <2>2. PlacedAt(g)
    BY <1>1, <1>5, <1>6, <2>1 DEF PlacedAt
  <2>3. Searching' /\ Placed'
    BY <1>2, <1>4, <1>5, <2>1, <2>2 DEF Searching, Placed
  <2> QED BY <1>2, <1>3, <2>3 DEF LoopIInv
<1>7. CASE DataSections # {}
  <2>1. /\ addrs' \in SortedAddrs /\ gp' = DefaultGpVA
        /\ pc' = IF addrs' = <<>> THEN "done" ELSE "window"
    BY <1>7 DEF Collect
  <2>2. BestFirst'
    BY <1>1 DEF BestFirst
  <2>3. Searching'
    BY <1>2, <1>4, <2>1, <2>2 DEF Searching
  <2>4. Placed'
    <3> SUFFICES ASSUME pc' = "done" PROVE PlacedAt(g)'
      BY <1>2, <1>5 DEF Placed
    <3>1. addrs' = <<>>
      BY <2>1
    <3>2. PlacedFrom(addrs', g)
      BY <1>5, <2>1, <3>1 DEF PlacedFrom
    <3>3. PlacedAt(g)
      BY <1>7, <2>1, <3>2 DEF PlacedAt
    <3> QED BY <1>4, <3>3
  <2> QED BY <1>2, <1>3, <2>3, <2>4 DEF LoopIInv
<1> QED BY <1>6, <1>7

LEMMA PlaceShrink ==
    ASSUME LoopIInv, step = "place", UNCHANGED loopVars, Shrink PROVE LoopIInv'
<1>1. /\ UNCHANGED inputs /\ pc = "window" /\ pc' = "window" /\ IInv
      /\ addrs' = addrs /\ bestL' = bestL /\ bestCount' = bestCount
      /\ addrs \in SortedAddrs /\ addrs # <<>> /\ BestFirst
  BY DEF Shrink, LoopIInv, Searching
<1>2. /\ LoopTypes' /\ Control' /\ InputsCurrent' /\ Settled' /\ NothingRelaxed'
      /\ outputSections' = outputSections /\ refs' = refs /\ prog' = prog
      /\ step' = "place"
  BY <1>1, PlaceFrame
<1>3. IInv'
  BY <1>1, ShrinkStep
<1>4. SortedAddrs' = SortedAddrs
  BY <1>2, Frame
<1>5. Searching' /\ Placed'
  BY <1>1, <1>2, <1>4 DEF Searching, Placed, BestFirst, Window
<1> QED BY <1>2, <1>3, <1>5 DEF LoopIInv

\* A longer window than the best is the first of its length: one to the left of
\* it would have been seen.
LEMMA PlaceGrow ==
    ASSUME LoopIInv, step = "place", UNCHANGED loopVars, Grow PROVE LoopIInv'
<1>1. /\ UNCHANGED inputs /\ pc = "window" /\ IInv /\ addrs' = addrs
      /\ pc' \in {"choose", "window"}
      /\ addrs \in SortedAddrs /\ addrs # <<>> /\ BestFirst
      /\ IF Count > bestCount THEN bestCount' = Count /\ bestL' = l
         ELSE bestCount' = bestCount /\ bestL' = bestL
  BY DEF Grow, LoopIInv, Searching
<1>2. /\ LoopTypes' /\ Control' /\ InputsCurrent' /\ Settled' /\ NothingRelaxed'
      /\ outputSections' = outputSections /\ refs' = refs /\ prog' = prog
      /\ step' = "place"
  BY <1>1, PlaceFrame
<1>3. IInv'
  BY <1>1, GrowStep
<1>4. SortedAddrs' = SortedAddrs
  BY <1>2, Frame
<1>5. /\ addrs \in Seq(Nat) /\ Len(addrs) \in Nat /\ DOMAIN addrs = 1 .. Len(addrs)
      /\ l \in Nat \ {0} /\ r \in Nat \ {0} /\ l <= r /\ r <= Len(addrs)
      /\ bestCount \in Nat /\ WindowsSeen
  BY <1>1 DEF IInv, TypeOK, Bounds
<1>6. BestFirst'
  <2>1. CASE ~(Count > bestCount)
    BY <1>1, <2>1 DEF BestFirst, Window
  <2>2. CASE Count > bestCount
    <3>1. bestCount' = r - l + 1 /\ bestL' = l /\ r - l + 1 > bestCount
      BY <1>1, <2>2 DEF Count
    <3> SUFFICES ASSUME NEW i \in DOMAIN addrs, i < l
                 PROVE  addrs[i + (r - l + 1) - 1] - addrs[i] > Window
      BY <1>1, <3>1 DEF BestFirst, Window
    <3> DEFINE j == i + (r - l + 1) - 1
    <3>2. j \in DOMAIN addrs /\ i <= j /\ j < r /\ j - i + 1 = r - l + 1
      BY SMTT(30), <1>5
    <3>3. addrs[j] - addrs[i] \in Int /\ Window \in Int
      BY SMTT(30), <1>5, <3>2, GPAssumption DEF Window
    <3> HIDE DEF j
    <3>4. ~(addrs[j] - addrs[i] <= Window)
      <4> SUFFICES ASSUME addrs[j] - addrs[i] <= Window PROVE FALSE
        OBVIOUS
      <4>1. j - i + 1 <= bestCount
        BY <1>1, <1>5, <3>2 DEF WindowsSeen
      <4> QED BY <1>5, <3>1, <3>2, <4>1
    <3>5. addrs[j] - addrs[i] > Window
      BY <3>3, <3>4
    <3> QED BY <3>5 DEF j
  <2> QED BY <2>1, <2>2
<1>7. Searching' /\ Placed'
  BY <1>1, <1>2, <1>4, <1>6 DEF Searching, Placed
<1> QED BY <1>2, <1>3, <1>7 DEF LoopIInv

LEMMA PlaceChoose ==
    ASSUME LoopIInv, step = "place", UNCHANGED loopVars, Choose PROVE LoopIInv'
<1>1. /\ UNCHANGED inputs /\ pc = "choose" /\ pc' = "done" /\ IInv
      /\ addrs \in SortedAddrs /\ addrs # <<>> /\ BestFirst
      /\ IF Worthwhile THEN gp' = BestGpVA ELSE gp' = gp
  BY DEF Choose, LoopIInv, Searching
<1>2. /\ LoopTypes' /\ Control' /\ InputsCurrent' /\ Settled' /\ NothingRelaxed'
      /\ outputSections' = outputSections /\ refs' = refs /\ prog' = prog
      /\ step' = "place"
  BY <1>1, PlaceFrame
<1>3. IInv'
  BY <1>1, ChooseStep
<1>4. /\ addrs \in Seq(Nat) /\ bestCount \in Nat /\ bestCount > 0 /\ bestL \in Nat \ {0}
      /\ r = Len(addrs) + 1 /\ Len(addrs) \in Nat /\ bestL + bestCount <= r
      /\ DataSections # {} /\ gp = DefaultGpVA
      /\ score = countCoveredRefs(addrs, DefaultGpVA)
      /\ WindowsSeen /\ BestFits
  BY <1>1 DEF IInv, TypeOK, Bounds, DefaultScored
<1>5. BestWindow(addrs, bestL, bestCount)
  <2>1. \A i, j \in DOMAIN addrs : i <= j /\ addrs[j] - addrs[i] <= Window
                                     => j - i + 1 <= bestCount
    <3>1. \A j \in DOMAIN addrs : j < r
      BY <1>4
    <3> QED BY <1>1, <1>4, <3>1 DEF WindowsSeen
  <2>2. \A i \in DOMAIN addrs : i < bestL => addrs[i + bestCount - 1] - addrs[i] > Window
    BY <1>1, <1>4 DEF BestFirst
  <2>3. addrs[bestL + bestCount - 1] - addrs[bestL] <= Window
    BY <1>4 DEF BestFits
  <2>4. bestCount \in Nat \ {0} /\ bestL + bestCount - 1 <= Len(addrs)
    BY <1>4
  <2> QED BY <1>4, <2>1, <2>2, <2>3, <2>4 DEF BestWindow
<1>6. gp' = Chosen(addrs, bestL, bestCount)
  BY <1>1, <1>4 DEF Chosen, Worthwhile, BestGpVA
<1>7. PICK g : g = gp'
  OBVIOUS
<1>8. PlacedAt(g)
  <2>1. PlacedFrom(addrs, g)
    BY <1>1, <1>4, <1>5, <1>6, <1>7 DEF PlacedFrom
  <2> QED BY <1>1, <1>4, <2>1 DEF PlacedAt
<1>9. PlacedAt(g)'
  BY <1>2, <1>8, Frame
<1>10. Searching' /\ Placed'
  BY <1>1, <1>2, <1>7, <1>9 DEF Searching, Placed
<1> QED BY <1>2, <1>3, <1>10 DEF LoopIInv

LEMMA PlaceStep == ASSUME LoopIInv, Place PROVE LoopIInv'
BY PlaceCollect, PlaceShrink, PlaceGrow, PlaceChoose DEF Place

\* A step that leaves everything but step.
LEMMA TestStep == ASSUME LoopIInv, Test PROVE LoopIInv'
<1>1. /\ step = "place" /\ pc = "done"
      /\ step' = IF changed THEN "relax" ELSE "converged"
      /\ UNCHANGED vars
      /\ prog' = prog /\ pass' = pass /\ changed' = changed /\ deltas' = deltas
      /\ types' = types
  BY DEF Test
<1>2. /\ outputSections' = outputSections /\ refs' = refs /\ gp' = gp /\ pc' = pc
  BY <1>1 DEF vars
<1>3. IInv'
  BY <1>1, Stutter DEF LoopIInv
<1>4. /\ Relocs' = Relocs
      /\ \A g : /\ PlacedAt(g)' <=> PlacedAt(g)
                /\ DeltasWith(g)' = DeltasWith(g) /\ TypesWith(g)' = TypesWith(g)
  BY <1>1, <1>2, Frame
<1>5. Dropped' = Dropped
  BY <1>1, <1>4 DEF Dropped
<1>6. LoopTypes' /\ Control' /\ Searching' /\ NothingRelaxed'
  BY <1>1, <1>4, <1>5 DEF LoopIInv, LoopTypes, Control, Searching, NothingRelaxed
<1>7. InputsCurrent'
  <2>1. outputSections' = Sections(prog, Dropped) /\ refs' = RefsOf(prog, Dropped)
    BY <1>1, <1>2 DEF LoopIInv, InputsCurrent
  <2> QED BY <1>1, <1>5, <2>1 DEF InputsCurrent
<1>8. Placed'
  <2>1. PlacedAt(gp)
    BY <1>1 DEF LoopIInv, Placed
  <2>2. PICK g : g = gp
    OBVIOUS
  <2>3. PlacedAt(g)'
    BY <1>4, <2>1, <2>2
  <2>4. PlacedAt(gp)'
    BY <1>2, <2>2, <2>3
  <2> QED BY <2>4 DEF Placed
<1>9. Settled'
  <2> SUFFICES ASSUME ~changed, pass > 1
               PROVE  \E g : PlacedAt(g)' /\ deltas' = DeltasWith(g)' /\ types' = TypesWith(g)'
    BY <1>1 DEF Settled
  <2>1. PICK g : PlacedAt(g) /\ deltas = DeltasWith(g) /\ types = TypesWith(g)
    BY <1>1 DEF LoopIInv, Settled
  <2> QED BY <1>1, <1>4, <2>1
<1> QED BY <1>3, <1>6, <1>7, <1>8, <1>9 DEF LoopIInv

LEMMA LoopStutter == ASSUME LoopIInv, UNCHANGED allVars PROVE LoopIInv'
<1>1. /\ UNCHANGED vars /\ step' = step
      /\ prog' = prog /\ pass' = pass /\ changed' = changed /\ deltas' = deltas
      /\ types' = types
  BY DEF allVars, loopVars
<1>2. /\ outputSections' = outputSections /\ refs' = refs /\ gp' = gp /\ pc' = pc
      /\ addrs' = addrs /\ bestL' = bestL /\ bestCount' = bestCount
  BY <1>1 DEF vars
<1>3. IInv'
  BY <1>1, Stutter DEF LoopIInv
<1>4. /\ Relocs' = Relocs /\ SortedAddrs' = SortedAddrs
      /\ \A g : /\ PlacedAt(g)' <=> PlacedAt(g)
                /\ DeltasWith(g)' = DeltasWith(g) /\ TypesWith(g)' = TypesWith(g)
  BY <1>1, <1>2, Frame
<1>5. Dropped' = Dropped
  BY <1>1, <1>4 DEF Dropped
<1>6. LoopTypes' /\ Control' /\ NothingRelaxed'
  BY <1>1, <1>4, <1>5 DEF LoopIInv, LoopTypes, Control, NothingRelaxed
<1>7. InputsCurrent'
  <2>1. Sections(prog, Dropped)' = Sections(prog, Dropped)
        /\ RefsOf(prog, Dropped)' = RefsOf(prog, Dropped)
    BY <1>1, <1>5 DEF Sections, RefsOf, Addrs, AlignUp, VA
  <2> QED BY <1>1, <1>2, <2>1 DEF LoopIInv, InputsCurrent
<1>8. Searching'
  BY <1>1, <1>2, <1>4 DEF LoopIInv, Searching, BestFirst, Window
<1>9. Placed'
  <2> SUFFICES ASSUME \/ step = "relax" /\ pass > 0
                      \/ step = "place" /\ pc = "done"
                      \/ step = "converged"
               PROVE  PlacedAt(gp)'
    BY <1>1, <1>2 DEF Placed
  <2>1. PlacedAt(gp)
    BY DEF LoopIInv, Placed
  <2>2. PICK g : g = gp
    OBVIOUS
  <2>3. PlacedAt(g)'
    BY <1>4, <2>1, <2>2
  <2> QED BY <1>2, <2>2, <2>3
<1>10. Settled'
  <2> SUFFICES ASSUME ~changed, pass > 1, step \in {"assign", "place", "converged"}
               PROVE  \E g : PlacedAt(g)' /\ deltas' = DeltasWith(g)' /\ types' = TypesWith(g)'
    BY <1>1 DEF Settled
  <2>1. PICK g : PlacedAt(g) /\ deltas = DeltasWith(g) /\ types = TypesWith(g)
    BY DEF LoopIInv, Settled
  <2> QED BY <1>1, <1>4, <2>1
<1> QED BY <1>3, <1>6, <1>7, <1>8, <1>9, <1>10 DEF LoopIInv

\* The inductive invariant of the loop holds for every program, reach and bound.
THEOREM LoopInductive == LoopSpec => []LoopIInv
<1>1. LoopIInv /\ [LoopNext]_allVars => LoopIInv'
  <2> SUFFICES ASSUME LoopIInv, [LoopNext]_allVars PROVE LoopIInv'
    OBVIOUS
  <2> QED BY RelaxStep, AssignStep, PlaceStep, TestStep, LoopStutter DEF LoopNext, Ended
<1> QED BY InitLoop, <1>1, PTL DEF LoopSpec

\* Where a later pass has ended the loop, it relaxed against the final pointer.
LEMMA FinalPass ==
    ASSUME LoopIInv, step = "converged", pass > 1
    PROVE  deltas = RelaxedDeltas /\ types = RelaxedTypes
<1>1. PlacedAt(gp) /\ ~changed /\ refs \in Seq(Ref)
  BY DEF LoopIInv, Placed, Control, IInv, TypeOK
<1>2. PICK g : PlacedAt(g) /\ deltas = DeltasWith(g) /\ types = TypesWith(g)
  BY <1>1 DEF LoopIInv, Settled
<1>3. g = gp
  BY <1>1, <1>2, PlacedUnique
<1> QED BY <1>2, <1>3, RelaxedWith

(***************************************************************************)
(* Whenever the loop of finalizeAddressDependentContent ends after its     *)
(* first pass, relaxing once more would change nothing: gp and the         *)
(* addresses are those the text was relaxed against.                       *)
(***************************************************************************)
THEOREM LoopSettles == LoopSpec => []SettledAfterFirst
<1>1. LoopIInv => SettledAfterFirst
  <2> SUFFICES ASSUME LoopIInv, step = "converged", pass > 1
               PROVE  /\ RelaxedDeltas = deltas /\ RelaxedTypes = types
                      /\ outputSections = Sections(prog, Dropped)
    BY DEF SettledAfterFirst
  <2> QED BY FinalPass DEF LoopIInv, InputsCurrent
<1> QED BY LoopInductive, <1>1, PTL

(***************************************************************************)
(* In a program where every user of a lui that may be relaxed goes with a  *)
(* lui that may be and has its symbol and addend, every access made        *)
(* relative to gp reaches its variable in the output.                      *)
(***************************************************************************)
THEOREM AccessesReach == LoopSpec => [](Paired(prog) => GprelInReach)
<1>1. LoopIInv => (Paired(prog) => GprelInReach)
  <2> SUFFICES ASSUME LoopIInv, Paired(prog), step = "converged",
                      NEW i \in DOMAIN Relocs, types[i] = "gprel"
               PROVE  InReach(VA(Relocs[i], outputSections), gp)
    BY DEF GprelInReach
  <2>1. pass \in Nat /\ pass > 0 /\ ~changed
    BY DEF LoopIInv, LoopTypes, Control
  <2>2. pass # 1
    BY <2>1 DEF LoopIInv, NothingRelaxed
  <2>3. types = TypesWith(gp)
    BY <2>1, <2>2, FinalPass, RelaxedWith
  <2> QED BY <2>3 DEF TypesWith
<1> QED BY LoopInductive, <1>1, PTL
=============================================================================
