----------------------- MODULE CompressPeepholeProofs -----------------------
(***************************************************************************)
(* Proofs about riscv-compress-peephole for every function and every reach *)
(* of C.J, and about compressInst for every register and immediate.        *)
(***************************************************************************)
EXTENDS CompressPeephole, WellFoundedInduction, SequenceTheorems, TLAPS

\* A set of natural numbers that is not empty has a least element.
LEMMA LeastNat ==
    ASSUME NEW S \in SUBSET Nat, S # {}
    PROVE  \E m \in S : \A k \in S : m <= k
<1> DEFINE R == OpToRel(<, Nat)
<1>1. PICK m \in S : \A k \in S : ~ (<<k, m>> \in R)
  <2>1. IsWellFoundedOn(R, Nat)
    BY NatLessThanWellFounded
  <2> HIDE DEF R
  <2> QED BY <2>1, WFMin
<1>2. \A k \in S : k < m => <<k, m>> \in R
  BY DEF OpToRel
<1> HIDE DEF R
<1>3. \A k \in S : ~ (k < m)
  BY <1>1, <1>2
<1>4. \A k \in S : k \in Nat
  OBVIOUS
<1> QED BY <1>3, <1>4

\* F gives for each of 1 .. n a function on T.
Steps(F, n, T) == F \in [1 .. n -> [T -> T]]

\* f starts with base and takes these steps.
Iterates(f, F, n, T, base) ==
    /\ f \in [0 .. n -> T] /\ f[0] = base
    /\ \A i \in 1 .. n : f[i] = F[i][f[i - 1]]

\* A recursion over 1 .. n has a solution.
LEMMA IterateExists ==
    ASSUME NEW n \in Nat, NEW T, NEW base \in T, NEW F, Steps(F, n, T)
    PROVE  \E f : Iterates(f, F, n, T, base)
<1> USE DEF Steps
<1> DEFINE Sol(f, m) == /\ f \in [0 .. m -> T] /\ f[0] = base
                        /\ \A i \in 1 .. m : f[i] = F[i][f[i - 1]]
           Bad == {m \in 0 .. n : ~ \E f : Sol(f, m)}
<1>1. Bad = {}
  <2> SUFFICES ASSUME Bad # {} PROVE FALSE
    OBVIOUS
  <2>1. PICK m \in Bad : \A k \in Bad : m <= k
    <3>1. Bad \in SUBSET Nat
      OBVIOUS
    <3> HIDE DEF Bad
    <3> QED BY <3>1, LeastNat
  <2>2. CASE m = 0
    <3> DEFINE f == [i \in 0 .. 0 |-> base]
    <3>1. f \in [0 .. 0 -> T] /\ f[0] = base
      OBVIOUS
    <3>2. Sol(f, 0)
      BY <3>1
    <3> QED BY <2>1, <2>2, <3>2
  <2>3. CASE m # 0
    <3>1. m \in 1 .. n /\ m - 1 \in 0 .. n /\ m - 1 < m
      BY <2>3
    <3>2. m - 1 \notin Bad
      <4>1. ~(m <= m - 1)
        BY <3>1
      <4> HIDE DEF Bad
      <4> QED BY <4>1, <2>1
    <3>3. PICK f : Sol(f, m - 1)
      BY <3>1, <3>2
    <3> DEFINE g == [i \in 0 .. m |-> IF i < m THEN f[i] ELSE F[m][f[m - 1]]]
    <3>4. f[m - 1] \in T /\ F[m] \in [T -> T]
      BY <3>1, <3>3
    <3>5. g \in [0 .. m -> T]
      BY <3>1, <3>3, <3>4
    <3>6. g[0] = base
      BY <3>1, <3>3
    <3>7. \A i \in 1 .. m : g[i] = F[i][g[i - 1]]
      <4> TAKE i \in 1 .. m
      <4>1. CASE i = m
        BY <4>1, <3>1
      <4>2. CASE i # m
        <5>1. i \in 1 .. (m - 1) /\ i < m /\ i - 1 < m /\ i \in 0 .. m /\ i - 1 \in 0 .. m
          BY <4>2, <3>1
        <5> QED BY <5>1, <3>3
      <4> QED BY <4>1, <4>2
    <3>8. Sol(g, m)
      BY <3>5, <3>6, <3>7
    <3> QED BY <3>8, <2>1
  <2> QED BY <2>2, <2>3
<1>2. n \in 0 .. n
  OBVIOUS
<1>3. PICK f : Sol(f, n)
  BY <1>1, <1>2
<1>4. Iterates(f, F, n, T, base)
  BY <1>3 DEF Iterates
<1> QED BY <1>4

LEMMA InstructionTyped ==
    \A i \in Instruction : /\ i.op \in Opcode /\ i.regs \in Seq(0 .. 31) /\ i.imm \in Int
                           /\ i.sym \in BOOLEAN /\ i.target \in Nat
                           /\ i.size \in {2, 4} /\ i.size \in Int
BY DEF Instruction

LEMMA EvenSum == ASSUME NEW x \in Int, NEW y \in {2, 4}, x % 2 = 0 PROVE (x + y) % 2 = 0
OBVIOUS

LEMMA EvenOpposite == ASSUME NEW x \in Int, NEW y \in Int, (x - y) % 2 = 0
                      PROVE  (y - x) % 2 = 0
OBVIOUS

(***************************************************************************)
(* The offsets that computeInstructionSize adds up: the recursion has a    *)
(* solution, so that LayOut is what its equation says.                     *)
(***************************************************************************)
LEMMA LayOutRec ==
    ASSUME NEW s \in Seq(Instruction)
    PROVE  /\ LayOut(s) \in [1 .. Len(s) -> Int]
           /\ \A k \in 1 .. Len(s) :
                 LayOut(s)[k] = IF k = 1 THEN 0 ELSE LayOut(s)[k - 1] + s[k - 1].size
<1> DEFINE n == Len(s)
           Eq(at) == at = [k \in 1 .. n |-> IF k = 1 THEN 0 ELSE at[k - 1] + s[k - 1].size]
           F == [k \in 1 .. n |-> [x \in Int |-> x + s[k].size]]
<1>1. n \in Nat /\ DOMAIN s = 1 .. n /\ \A k \in 1 .. n : s[k].size \in Int
  <2>1. n \in Nat /\ DOMAIN s = 1 .. n /\ \A k \in 1 .. n : s[k] \in Instruction
    OBVIOUS
  <2> HIDE DEF n
  <2> QED BY <2>1, InstructionTyped
<1> HIDE DEF n
<1>2. F \in [1 .. n -> [Int -> Int]]
  BY <1>1
<1>3. PICK f \in [0 .. n -> Int] :
         f[0] = 0 /\ \A i \in 1 .. n : f[i] = F[i][f[i - 1]]
  <2>1. 0 \in Int /\ Steps(F, n, Int)
    BY <1>2 DEF Steps
  <2> HIDE DEF F
  <2>2. PICK f : Iterates(f, F, n, Int, 0)
    BY <1>1, <2>1, IterateExists
  <2> QED BY <2>2 DEF Iterates
<1>4. \A i \in 1 .. n : f[i] = f[i - 1] + s[i].size
  <2> TAKE i \in 1 .. n
  <2>1. f[i - 1] \in Int
    BY <1>1
  <2> QED BY <1>3, <2>1
<1> HIDE DEF F
<1> DEFINE at == [k \in 1 .. n |-> f[k - 1]]
<1>5. Eq(at)
  <2>1. \A k \in 1 .. n : at[k] = IF k = 1 THEN 0 ELSE at[k - 1] + s[k - 1].size
    <3> TAKE k \in 1 .. n
    <3>1. CASE k = 1
      BY <3>1, <1>3
    <3>2. CASE k # 1
      <4>1. k - 1 \in 1 .. n /\ at[k - 1] = f[k - 1 - 1]
        BY <3>2, <1>1
      <4>2. f[k - 1] = f[k - 1 - 1] + s[k - 1].size
        BY <4>1, <1>4
      <4> QED BY <4>1, <4>2, <3>2
    <3> QED BY <3>1, <3>2
  <2> QED BY <2>1
<1>6. LayOut(s) = CHOOSE g : Eq(g)
  BY DEF LayOut, n
<1> HIDE DEF at
<1>7. Eq(LayOut(s))
  <2> HIDE DEF Eq
  <2> QED BY <1>5, <1>6
<1> DEFINE L == LayOut(s)
<1>8. \A k \in 1 .. n : L[k] = IF k = 1 THEN 0 ELSE L[k - 1] + s[k - 1].size
  BY <1>7
<1>9. DOMAIN L = 1 .. n /\ L = [k \in 1 .. n |-> L[k]]
  BY <1>7
<1> HIDE DEF L
<1>10. \A k \in 1 .. n : L[k] \in Int
  <2> DEFINE Bad == {k \in 1 .. n : L[k] \notin Int}
  <2> SUFFICES ASSUME Bad # {} PROVE FALSE
    OBVIOUS
  <2>1. PICK k \in Bad : \A j \in Bad : k <= j
    <3>1. Bad \in SUBSET Nat
      BY <1>1
    <3> HIDE DEF Bad
    <3> QED BY <3>1, LeastNat
  <2>2. k \in 1 .. n /\ L[k] \notin Int
    OBVIOUS
  <2>3. k # 1 /\ k - 1 \in 1 .. n
    BY <1>8, <2>2, <1>1
  <2>4. k - 1 \notin Bad
    <3>1. ~(k <= k - 1)
      BY <2>2, <1>1
    <3> HIDE DEF Bad
    <3> QED BY <3>1, <2>1
  <2>5. L[k - 1] \in Int
    BY <2>3, <2>4
  <2>6. L[k] = L[k - 1] + s[k - 1].size
    BY <1>8, <2>2, <2>3
  <2>7. s[k - 1].size \in Int
    BY <1>1, <2>3
  <2> QED BY <2>2, <2>5, <2>6, <2>7
<1> QED BY <1>8, <1>9, <1>10 DEF L, n

\* t is s with some instructions made smaller.
Shrunk(s, t) == /\ s \in Seq(Instruction) /\ t \in Seq(Instruction) /\ Len(t) = Len(s)
                /\ \A k \in 1 .. Len(s) : t[k].size <= s[k].size

(***************************************************************************)
(* Between two positions the distance shrinks, but never below zero, and   *)
(* it stays even.                                                          *)
(***************************************************************************)
LEMMA DistanceShrinks ==
    ASSUME NEW s, NEW t, Shrunk(s, t), NEW i \in 1 .. Len(s), NEW j \in 1 .. Len(s), i <= j
    PROVE  /\ 0 <= LayOut(t)[j] - LayOut(t)[i]
           /\ LayOut(t)[j] - LayOut(t)[i] <= LayOut(s)[j] - LayOut(s)[i]
           /\ (LayOut(t)[j] - LayOut(t)[i]) % 2 = 0
<1> DEFINE n == Len(s)
           S == LayOut(s)
           U == LayOut(t)
           Holds(k) == /\ 0 <= U[k] - U[i] /\ U[k] - U[i] <= S[k] - S[i]
                       /\ (U[k] - U[i]) % 2 = 0
           Bad == {k \in i .. n : ~Holds(k)}
<1>1. n \in Nat /\ s \in Seq(Instruction) /\ t \in Seq(Instruction) /\ Len(t) = n
  BY DEF Shrunk
<1>2. \A k \in 1 .. n : s[k].size \in {2, 4} /\ t[k].size \in {2, 4} /\ t[k].size <= s[k].size
  <2>1. \A k \in 1 .. n : s[k] \in Instruction /\ t[k] \in Instruction
    BY <1>1
  <2> QED BY <2>1, InstructionTyped DEF Shrunk
<1>3. /\ \A k \in 1 .. n : S[k] \in Int /\ U[k] \in Int
      /\ \A k \in 1 .. n : k # 1 => /\ S[k] = S[k - 1] + s[k - 1].size
                                    /\ U[k] = U[k - 1] + t[k - 1].size
  BY <1>1, LayOutRec
<1>4. i \in 1 .. n /\ j \in 1 .. n
  OBVIOUS
<1> HIDE DEF n, S, U
<1>5. Holds(i)
  BY <1>3, <1>4
<1>6. Bad = {}
  <2> SUFFICES ASSUME Bad # {} PROVE FALSE
    OBVIOUS
  <2>1. PICK k \in Bad : \A q \in Bad : k <= q
    <3>1. Bad \in SUBSET Nat
      BY <1>1, <1>4
    <3> HIDE DEF Bad
    <3> QED BY <3>1, LeastNat
  <2>2. k \in i .. n /\ ~Holds(k)
    OBVIOUS
  <2> HIDE DEF Holds
  <2>3. k # i /\ k - 1 \in i .. n /\ k - 1 \in 1 .. n /\ k \in 1 .. n /\ k # 1
    BY <1>1, <1>4, <1>5, <2>2
  <2>4. Holds(k - 1)
    <3>1. ~(k <= k - 1)
      BY <2>3, <1>1
    <3>2. k - 1 \notin Bad
      <4> HIDE DEF Bad
      <4> QED BY <3>1, <2>1
    <3> QED BY <3>2, <2>3
  <2>5. /\ S[k] = S[k - 1] + s[k - 1].size /\ U[k] = U[k - 1] + t[k - 1].size
        /\ S[k - 1] \in Int /\ U[k - 1] \in Int /\ S[i] \in Int /\ U[i] \in Int
        /\ s[k - 1].size \in {2, 4} /\ t[k - 1].size \in {2, 4}
        /\ t[k - 1].size <= s[k - 1].size
    BY <1>2, <1>3, <1>4, <2>3
  <2>6. Holds(k)
    <3>1. U[k] - U[i] = (U[k - 1] - U[i]) + t[k - 1].size /\ U[k - 1] - U[i] \in Int
      <4> DEFINE a == U[k - 1]
                 b == U[i]
                 x == t[k - 1].size
      <4>1. a \in Int /\ b \in Int /\ x \in {2, 4} /\ U[k] = a + x
        BY <2>5
      <4> HIDE DEF a, b, x, Bad
      <4>2. (a + x) - b = (a - b) + x /\ a - b \in Int
        BY <4>1
      <4>3. U[k] - b = (a - b) + x
        BY <4>1, <4>2
      <4> QED BY <4>2, <4>3 DEF a, b, x
    <3>2. (U[k] - U[i]) % 2 = 0
      BY <3>1, <2>4, <2>5, EvenSum DEF Holds
    <3>3. 0 <= U[k] - U[i] /\ U[k] - U[i] <= S[k] - S[i]
      <4>1. 0 <= U[k - 1] - U[i] /\ U[k - 1] - U[i] <= S[k - 1] - S[i]
        BY <2>4 DEF Holds
      <4>2. /\ 0 <= (U[k - 1] + t[k - 1].size) - U[i]
            /\ (U[k - 1] + t[k - 1].size) - U[i] <= (S[k - 1] + s[k - 1].size) - S[i]
        <5> DEFINE a == U[k - 1]
                   b == U[i]
                   c == S[k - 1]
                   d == S[i]
                   x == t[k - 1].size
                   y == s[k - 1].size
        <5>1. /\ a \in Int /\ b \in Int /\ c \in Int /\ d \in Int /\ x \in {2, 4}
              /\ y \in {2, 4} /\ x <= y
          BY <2>5
        <5>2. 0 <= a - b /\ a - b <= c - d
          BY <4>1
        <5> HIDE DEF a, b, c, d, x, y
        <5>3. 0 <= (a + x) - b /\ (a + x) - b <= (c + y) - d
          BY <5>1, <5>2
        <5> QED BY <5>3 DEF a, b, c, d, x, y
      <4> QED BY <4>2, <2>5
    <3> QED BY <3>2, <3>3 DEF Holds
  <2> QED BY <2>2, <2>6
<1>7. j \in i .. n
  BY <1>1, <1>4
<1>8. Holds(j)
  BY <1>6, <1>7
<1> QED BY <1>8 DEF S, U

(***************************************************************************)
(* What was within reach of C.J stays within reach.                        *)
(***************************************************************************)
LEMMA ReachKept ==
    ASSUME NEW s, NEW t, Shrunk(s, t), NEW i \in 1 .. Len(s), NEW j \in 1 .. Len(s),
           isCJOffset(LayOut(s)[j] - LayOut(s)[i])
    PROVE  isCJOffset(LayOut(t)[j] - LayOut(t)[i])
<1>1. /\ LayOut(s)[i] \in Int /\ LayOut(s)[j] \in Int
      /\ LayOut(t)[i] \in Int /\ LayOut(t)[j] \in Int
  BY LayOutRec DEF Shrunk
<1>2. i \in Nat /\ j \in Nat
  BY DEF Shrunk
<1>3. CASE i <= j
  BY SMTT(30), <1>1, <1>3, ReachAssumption, DistanceShrinks DEF isCJOffset
<1>4. CASE j <= i
  <2>1. /\ 0 <= LayOut(t)[i] - LayOut(t)[j]
        /\ LayOut(t)[i] - LayOut(t)[j] <= LayOut(s)[i] - LayOut(s)[j]
        /\ (LayOut(t)[i] - LayOut(t)[j]) % 2 = 0
    BY <1>4, DistanceShrinks
  <2>2. (LayOut(t)[j] - LayOut(t)[i]) % 2 = 0
    BY <2>1, <1>1, EvenOpposite
  <2>3. /\ LayOut(s)[j] - LayOut(s)[i] >= -Reach
        /\ LayOut(s)[j] - LayOut(s)[i] <= Reach - 2
    BY DEF isCJOffset
  <2>4. Reach >= 2
    <3>1. Reach >= 1
      BY <1>1, <2>3, ReachAssumption
    <3> QED BY <3>1, ReachAssumption
  <2>5. Reach \in Int
    BY ReachAssumption
  <2> DEFINE d == LayOut(t)[j] - LayOut(t)[i]
             e == LayOut(s)[j] - LayOut(s)[i]
  <2>6. d \in Int /\ e \in Int /\ d <= 0 /\ e <= d
    <3>1. d \in Int /\ e \in Int
      BY <1>1
    <3>2. /\ 0 <= LayOut(t)[i] - LayOut(t)[j]
          /\ LayOut(t)[i] - LayOut(t)[j] <= LayOut(s)[i] - LayOut(s)[j]
      BY <2>1
    <3> QED BY SMTT(30), <1>1, <3>1, <3>2
  <2>7. d >= -Reach /\ d <= Reach - 2
    <3> HIDE DEF d
    <3>1. e >= -Reach
      BY <2>3
    <3> HIDE DEF e
    <3> QED BY <2>4, <2>5, <2>6, <3>1
  <2> QED BY <2>2, <2>7 DEF isCJOffset
<1> QED BY <1>2, <1>3, <1>4
-----------------------------------------------------------------------------
(***************************************************************************)
(* The table.  Each form of the lists that compressInst is made of has the *)
(* effect of the instruction, whatever its place in the list.              *)
(***************************************************************************)
Form == [op : RVC, regs : Seq(0 .. 31), imm : Int, sym : {FALSE}]

GoodForms(i) == {f \in Form : Effect(Expand(f)) = Effect(i)}

LEMMA WhenGood ==
    ASSUME NEW i, NEW c, NEW f, c => f \in GoodForms(i)
    PROVE  When(c, f) \in Seq(GoodForms(i))
<1> DEFINE S == GoodForms(i)
<1> HIDE DEF S
<1>1. c => f \in S
  BY DEF S
<1>2. CASE c
  <2>1. f \in S
    BY <1>1, <1>2
  <2>2. <<f>> \in Seq(S)
    BY <2>1
  <2> QED BY <1>2, <2>2 DEF When, S
<1>3. CASE ~c
  <2>1. <<>> \in Seq(S)
    OBVIOUS
  <2> QED BY <1>3, <2>1 DEF When, S
<1> QED BY <1>2, <1>3

LEMMA ConcatGood ==
    ASSUME NEW i, NEW s \in Seq(GoodForms(i)), NEW t \in Seq(GoodForms(i))
    PROVE  s \o t \in Seq(GoodForms(i))
BY ConcatProperties

LEMMA MakeForm ==
    ASSUME NEW op \in RVC, NEW regs \in Seq(0 .. 31), NEW imm \in Int
    PROVE  /\ Make(op, regs, imm) \in Form
           /\ Make(op, regs, imm).op = op /\ Make(op, regs, imm).regs = regs
           /\ Make(op, regs, imm).imm = imm
BY DEF Make, Form

LEMMA RegLists ==
    /\ <<>> \in Seq(0 .. 31)
    /\ \A a \in 0 .. 31 : <<a>> \in Seq(0 .. 31)
    /\ \A a, b \in 0 .. 31 : <<a, b>> \in Seq(0 .. 31)
OBVIOUS

\* The fields of the encodings hold what the conditions let through.
LEMMA FieldsFit ==
    ASSUME NEW n \in Int
    PROVE  /\ isSImm6(n) => SExt(n, 6) = n
           /\ isCAddi16SPImm(n) => 16 * SExt(n \div 16, 6) = n /\ n # 0
           /\ isUImmScaled(n, 1020, 4) => 4 * ZExt(n \div 4, 8) = n
           /\ isUImmScaled(n, 252, 4) => 4 * ZExt(n \div 4, 6) = n
           /\ isUImmScaled(n, 124, 4) => 4 * ZExt(n \div 4, 5) = n
           /\ n \in 1 .. 31 => ZExt(n, 5) = n
           /\ isSImm6(n) /\ n \in 0 .. 2 ^ 20 - 1 => SExt(n, 6) % 2 ^ 20 = n
           /\ isGPRC(n) => CReg(n) = n
<1>1. 2 ^ 5 = 32 /\ 2 ^ 6 = 64 /\ 2 ^ 8 = 256 /\ 2 ^ (6 - 1) = 32 /\ 2 ^ 20 = 1048576
  OBVIOUS
<1>2. isSImm6(n) => SExt(n, 6) = n
  <2>1. SExt(n, 6) = ((n + 32) % 64) - 32
    BY <1>1 DEF SExt
  <2> QED BY <2>1 DEF isSImm6
<1>3. isCAddi16SPImm(n) => 16 * SExt(n \div 16, 6) = n /\ n # 0
  <2>1. SExt(n \div 16, 6) = ((n \div 16 + 32) % 64) - 32
    BY <1>1 DEF SExt
  <2> QED BY <2>1 DEF isCAddi16SPImm
<1>4. /\ isUImmScaled(n, 1020, 4) => 4 * ZExt(n \div 4, 8) = n
      /\ isUImmScaled(n, 252, 4) => 4 * ZExt(n \div 4, 6) = n
      /\ isUImmScaled(n, 124, 4) => 4 * ZExt(n \div 4, 5) = n
      /\ n \in 1 .. 31 => ZExt(n, 5) = n
  BY <1>1 DEF ZExt, isUImmScaled
<1>5. isSImm6(n) /\ n \in 0 .. 2 ^ 20 - 1 => SExt(n, 6) % 2 ^ 20 = n
  BY <1>1, <1>2 DEF isSImm6
<1>6. isGPRC(n) => CReg(n) = n
  BY DEF isGPRC, CReg
<1> QED BY <1>2, <1>3, <1>4, <1>5, <1>6

\* Coefficients: x0 adds nothing, and a sum has no order.
LEMMA Sums ==
    /\ \A r : Plus(Times(1, 0), Times(1, r)) = Times(1, r)
    /\ \A r : Plus(Times(1, r), Times(1, 0)) = Times(1, r)
    /\ \A q, r : Plus(Times(1, q), Times(1, r)) = Plus(Times(1, r), Times(1, q))
<1>1. \A r : \A q \in 1 .. 31 : Times(1, r)[q] \in Int /\ Times(1, 0)[q] = 0
  BY DEF Times
<1>2. \A r : Times(1, r) = [q \in 1 .. 31 |-> Times(1, r)[q]]
  BY DEF Times
<1>3. ASSUME NEW r PROVE Plus(Times(1, 0), Times(1, r)) = Times(1, r)
  <2>1. \A q \in 1 .. 31 : Times(1, 0)[q] + Times(1, r)[q] = Times(1, r)[q]
    BY <1>1
  <2> QED BY <2>1, <1>2 DEF Plus
<1>4. ASSUME NEW r PROVE Plus(Times(1, r), Times(1, 0)) = Times(1, r)
  <2>1. \A q \in 1 .. 31 : Times(1, r)[q] + Times(1, 0)[q] = Times(1, r)[q]
    BY <1>1
  <2> QED BY <2>1, <1>2 DEF Plus
<1>5. ASSUME NEW q, NEW r
      PROVE  Plus(Times(1, q), Times(1, r)) = Plus(Times(1, r), Times(1, q))
  <2>1. \A k \in 1 .. 31 : Times(1, q)[k] + Times(1, r)[k] = Times(1, r)[k] + Times(1, q)[k]
    BY <1>1
  <2> QED BY <2>1 DEF Plus
<1> QED BY <1>3, <1>4, <1>5

\* What the expansions of the forms are.
LEMMA Expansions ==
    /\ Expand(Make("C_NOP", <<>>, 0)) = Make("ADDI", <<0, 0>>, 0)
    /\ \A a, n : n # 0 => Expand(Make("C_ADDI16SP", <<a>>, n))
                             = Make("ADDI", <<2, 2>>, 16 * SExt(n \div 16, 6))
    /\ \A a, b, n : n # 0 => Expand(Make("C_ADDI4SPN", <<a, b>>, n))
                                = Make("ADDI", <<CReg(a), 2>>, 4 * ZExt(n \div 4, 8))
    /\ \A a, n : Expand(Make("C_LI", <<a>>, n)) = Make("ADDI", <<a, 0>>, SExt(n, 6))
    /\ \A a, n : Expand(Make("C_ADDI", <<a>>, n)) = Make("ADDI", <<a, a>>, SExt(n, 6))
    /\ \A a, b : b # 0 => Expand(Make("C_MV", <<a, b>>, 0)) = Make("ADD", <<a, 0, b>>, 0)
    /\ \A a, n : n # 0 /\ a # 2 => Expand(Make("C_LUI", <<a>>, n))
                                      = Make("LUI", <<a>>, SExt(n, 6) % 2 ^ 20)
    /\ \A a, b : b # 0 => Expand(Make("C_ADD", <<a, b>>, 0)) = Make("ADD", <<a, a, b>>, 0)
BY DEF Expand, Make

LEMMA MoreExpansions ==
    /\ \A a, n : Expand(Make("C_SLLI", <<a>>, n)) = Make("SLLI", <<a, a>>, ZExt(n, 5))
    /\ \A a, n : Expand(Make("C_SRLI", <<a>>, n))
                    = Make("SRLI", <<CReg(a), CReg(a)>>, ZExt(n, 5))
    /\ \A a, n : Expand(Make("C_SRAI", <<a>>, n))
                    = Make("SRAI", <<CReg(a), CReg(a)>>, ZExt(n, 5))
    /\ \A a, n : Expand(Make("C_ANDI", <<a>>, n))
                    = Make("ANDI", <<CReg(a), CReg(a)>>, SExt(n, 6))
    /\ \A a, b : Expand(Make("C_SUB", <<a, b>>, 0)) = Make("SUB", <<CReg(a), CReg(a), CReg(b)>>, 0)
    /\ \A a, b : Expand(Make("C_XOR", <<a, b>>, 0)) = Make("XOR", <<CReg(a), CReg(a), CReg(b)>>, 0)
    /\ \A a, b : Expand(Make("C_OR", <<a, b>>, 0)) = Make("OR", <<CReg(a), CReg(a), CReg(b)>>, 0)
    /\ \A a, b : Expand(Make("C_AND", <<a, b>>, 0)) = Make("AND", <<CReg(a), CReg(a), CReg(b)>>, 0)
    /\ \A a, b, n : a # 0 => Expand(Make("C_LWSP", <<a, b>>, n))
                                = Make("LW", <<a, 2>>, 4 * ZExt(n \div 4, 6))
    /\ \A a, b, n : Expand(Make("C_SWSP", <<a, b>>, n))
                       = Make("SW", <<a, 2>>, 4 * ZExt(n \div 4, 6))
    /\ \A a, b, n : Expand(Make("C_LW", <<a, b>>, n))
                       = Make("LW", <<CReg(a), CReg(b)>>, 4 * ZExt(n \div 4, 5))
    /\ \A a, b, n : Expand(Make("C_SW", <<a, b>>, n))
                       = Make("SW", <<CReg(a), CReg(b)>>, 4 * ZExt(n \div 4, 5))
    /\ \A a : Expand(Make("C_JR", <<a>>, 0)) = Make("JALR", <<0, a>>, 0)
    /\ Expand(Make("C_EBREAK", <<>>, 0)) = Make("EBREAK", <<>>, 0)
BY DEF Expand, Make

\* What the instructions compute.
Sum(rd, coefs, n) == IF rd = 0 THEN <<"nothing">> ELSE <<rd, <<"sum", coefs, n>>>>

LEMMA Effects ==
    ASSUME NEW i
    PROVE  /\ i.op = "ADDI" => Effect(i) = Sum(i.regs[1], Times(1, i.regs[2]), i.imm)
           /\ i.op = "ADD" => Effect(i) = Sum(i.regs[1],
                 Plus(Times(1, i.regs[2]), Times(1, i.regs[3])), 0)
           /\ i.op = "SUB" => Effect(i) = Sum(i.regs[1],
                 Plus(Times(1, i.regs[2]), Times(-1, i.regs[3])), 0)
           /\ i.op \in {"XOR", "OR", "AND"} => Effect(i) =
                 IF i.regs[1] = 0 THEN <<"nothing">>
                 ELSE <<i.regs[1], <<i.op, {i.regs[2], i.regs[3]}>>>>
           /\ i.op \in {"LUI", "SLLI", "SRLI", "SRAI", "ANDI"} => Effect(i) =
                 IF i.regs[1] = 0 THEN <<"nothing">>
                 ELSE <<i.regs[1], <<i.op, Tail(i.regs), i.imm>>>>
           /\ i.op = "LW" => Effect(i) = <<i.regs[1], <<"LW", Tail(i.regs), i.imm>>>>
           /\ i.op \in {"SW", "JALR"} => Effect(i) = <<i.op, i.regs, i.imm>>
           /\ i.op = "EBREAK" => Effect(i) = <<"EBREAK">>
BY DEF Effect, Value, Sum

\* A form is right when its expansion is an instruction with the same effect.
LEMMA GoodByExpansion ==
    ASSUME NEW i, NEW op \in RVC, NEW regs \in Seq(0 .. 31), NEW imm \in Int,
           Effect(Expand(Make(op, regs, imm))) = Effect(i)
    PROVE  Make(op, regs, imm) \in GoodForms(i)
BY MakeForm DEF GoodForms

LEMMA MadeEffects ==
    /\ \A a, b, n : Effect(Make("ADDI", <<a, b>>, n)) = Sum(a, Times(1, b), n)
    /\ \A a, b, c : Effect(Make("ADD", <<a, b, c>>, 0))
                       = Sum(a, Plus(Times(1, b), Times(1, c)), 0)
    /\ \A a, b, c : Effect(Make("SUB", <<a, b, c>>, 0))
                       = Sum(a, Plus(Times(1, b), Times(-1, c)), 0)
    /\ \A a, n : Effect(Make("LUI", <<a>>, n)) =
          IF a = 0 THEN <<"nothing">> ELSE <<a, <<"LUI", <<>>, n>>>>
    /\ \A a, b, n : Effect(Make("LW", <<a, b>>, n)) = <<a, <<"LW", <<b>>, n>>>>
    /\ \A a, b, n : \A op \in {"SW", "JALR"} : Effect(Make(op, <<a, b>>, n)) = <<op, <<a, b>>, n>>
    /\ Effect(Make("EBREAK", <<>>, 0)) = <<"EBREAK">>
<1>1. \A a, b : Tail(<<a, b>>) = <<b>> /\ Tail(<<a>>) = <<>>
  OBVIOUS
<1>2. \A a, b, n : Effect(Make("ADDI", <<a, b>>, n)) = Sum(a, Times(1, b), n)
  BY DEF Effect, Value, Make, Sum
<1>3. \A a, b, c : Effect(Make("ADD", <<a, b, c>>, 0))
                      = Sum(a, Plus(Times(1, b), Times(1, c)), 0)
  BY DEF Effect, Value, Make, Sum
<1>4. \A a, b, c : Effect(Make("SUB", <<a, b, c>>, 0))
                      = Sum(a, Plus(Times(1, b), Times(-1, c)), 0)
  BY DEF Effect, Value, Make, Sum
<1>7. \A a, n : Effect(Make("LUI", <<a>>, n)) =
         IF a = 0 THEN <<"nothing">> ELSE <<a, <<"LUI", <<>>, n>>>>
  BY <1>1 DEF Effect, Value, Make
<1>8. \A a, b, n : Effect(Make("LW", <<a, b>>, n)) = <<a, <<"LW", <<b>>, n>>>>
  BY <1>1 DEF Effect, Value, Make
<1>9. \A a, b, n : \A op \in {"SW", "JALR"} : Effect(Make(op, <<a, b>>, n)) = <<op, <<a, b>>, n>>
  BY DEF Effect, Make
<1>10. Effect(Make("EBREAK", <<>>, 0)) = <<"EBREAK">>
  BY DEF Effect, Make
<1> QED BY <1>2, <1>3, <1>4, <1>7, <1>8, <1>9, <1>10

LEMMA LogicEffect ==
    ASSUME NEW op \in {"XOR", "OR", "AND"}, NEW a, NEW b, NEW c
    PROVE  Effect(Make(op, <<a, b, c>>, 0)) =
              IF a = 0 THEN <<"nothing">> ELSE <<a, <<op, {b, c}>>>>
BY DEF Effect, Value, Make

LEMMA ShiftEffect ==
    ASSUME NEW op \in {"SLLI", "SRLI", "SRAI", "ANDI"}, NEW a, NEW b, NEW n
    PROVE  Effect(Make(op, <<a, b>>, n)) =
              IF a = 0 THEN <<"nothing">> ELSE <<a, <<op, <<b>>, n>>>>
<1> DEFINE i == Make(op, <<a, b>>, n)
<1>1. i.op = op /\ i.regs = <<a, b>> /\ i.imm = n
  BY DEF Make
<1>2. Tail(i.regs) = <<b>> /\ i.regs[1] = a
  <2>1. Tail(<<a, b>>) = <<b>> /\ <<a, b>>[1] = a
    OBVIOUS
  <2> QED BY <1>1, <2>1
<1> HIDE DEF i
<1>3. Effect(i) = IF i.regs[1] = 0 THEN <<"nothing">>
                  ELSE <<i.regs[1], <<i.op, Tail(i.regs), i.imm>>>>
  BY <1>1, Effects
<1>4. Effect(i) = IF a = 0 THEN <<"nothing">> ELSE <<a, <<op, <<b>>, n>>>>
  BY <1>1, <1>2, <1>3
<1> QED BY <1>4 DEF i

LEMMA GoodADDI ==
    ASSUME NEW i, NEW rd \in 0 .. 31, NEW rs1 \in 0 .. 31, NEW n \in Int,
           Effect(i) = Sum(rd, Times(1, rs1), n)
    PROVE  compressADDI(rd, rs1, n) \in Seq(GoodForms(i))
<1> DEFINE w1 == When(isX0(rd) /\ isX0(rs1) /\ n = 0, Make("C_NOP", <<>>, 0))
           w2 == When(isSP(rd) /\ isSP(rs1) /\ isCAddi16SPImm(n), Make("C_ADDI16SP", <<rd>>, n))
           c3 == isGPRC(rd) /\ isSP(rs1) /\ isUImmScaled(n, 1020, 4) /\ n # 0
           w3 == When(c3, Make("C_ADDI4SPN", <<rd, rs1>>, n))
           w4 == When(isNonZeroGPR(rd) /\ isX0(rs1) /\ isSImm6(n), Make("C_LI", <<rd>>, n))
           w5 == When(isNonZeroGPR(rd) /\ rd = rs1 /\ n # 0 /\ isSImm6(n),
                      Make("C_ADDI", <<rd>>, n))
           w6 == When(isNonZeroGPR(rd) /\ isNonZeroGPR(rs1) /\ n = 0,
                      Make("C_MV", <<rd, rs1>>, 0))
<1>0. /\ {"C_NOP", "C_ADDI16SP", "C_ADDI4SPN", "C_LI", "C_ADDI", "C_MV"} \subseteq RVC
      /\ 0 \in Int /\ rd \in Int
      /\ <<>> \in Seq(0 .. 31) /\ <<rd>> \in Seq(0 .. 31) /\ <<rd, rs1>> \in Seq(0 .. 31)
      /\ Effect(Make("ADDI", <<rd, rs1>>, n)) = Effect(i)
  BY RegLists, MadeEffects DEF RVC
<1>1. w1 \in Seq(GoodForms(i))
  <2> SUFFICES ASSUME isX0(rd) /\ isX0(rs1) /\ n = 0
               PROVE  Make("C_NOP", <<>>, 0) \in GoodForms(i)
    BY WhenGood
  <2>1. Effect(Make("ADDI", <<0, 0>>, 0)) = Effect(i)
    BY MadeEffects DEF isX0
  <2> QED BY <1>0, <2>1, Expansions, GoodByExpansion
<1>2. w2 \in Seq(GoodForms(i))
  <2> SUFFICES ASSUME isSP(rd) /\ isSP(rs1) /\ isCAddi16SPImm(n)
               PROVE  Make("C_ADDI16SP", <<rd>>, n) \in GoodForms(i)
    BY WhenGood
  <2>1. Expand(Make("C_ADDI16SP", <<rd>>, n)) = Make("ADDI", <<rd, rs1>>, n)
    BY FieldsFit, Expansions DEF isSP
  <2> QED BY <1>0, <2>1, GoodByExpansion
<1>3. w3 \in Seq(GoodForms(i))
  <2> SUFFICES ASSUME c3 PROVE Make("C_ADDI4SPN", <<rd, rs1>>, n) \in GoodForms(i)
    <3> HIDE DEF c3
    <3> QED BY WhenGood
  <2>1. CReg(rd) = rd /\ 4 * ZExt(n \div 4, 8) = n
    BY <1>0, FieldsFit
  <2>2. Expand(Make("C_ADDI4SPN", <<rd, rs1>>, n)) = Make("ADDI", <<rd, rs1>>, n)
    BY <2>1, Expansions DEF isSP
  <2> QED BY <1>0, <2>2, GoodByExpansion
<1>4. w4 \in Seq(GoodForms(i))
  <2> SUFFICES ASSUME isNonZeroGPR(rd) /\ isX0(rs1) /\ isSImm6(n)
               PROVE  Make("C_LI", <<rd>>, n) \in GoodForms(i)
    BY WhenGood
  <2>1. Expand(Make("C_LI", <<rd>>, n)) = Make("ADDI", <<rd, rs1>>, n)
    BY FieldsFit, Expansions DEF isX0
  <2> QED BY <1>0, <2>1, GoodByExpansion
<1>5. w5 \in Seq(GoodForms(i))
  <2> SUFFICES ASSUME isNonZeroGPR(rd) /\ rd = rs1 /\ n # 0 /\ isSImm6(n)
               PROVE  Make("C_ADDI", <<rd>>, n) \in GoodForms(i)
    BY WhenGood
  <2>1. Expand(Make("C_ADDI", <<rd>>, n)) = Make("ADDI", <<rd, rs1>>, n)
    BY FieldsFit, Expansions
  <2> QED BY <1>0, <2>1, GoodByExpansion
<1>6. w6 \in Seq(GoodForms(i))
  <2> SUFFICES ASSUME isNonZeroGPR(rd) /\ isNonZeroGPR(rs1) /\ n = 0
               PROVE  Make("C_MV", <<rd, rs1>>, 0) \in GoodForms(i)
    BY WhenGood
  <2>1. Expand(Make("C_MV", <<rd, rs1>>, 0)) = Make("ADD", <<rd, 0, rs1>>, 0)
    BY Expansions DEF isNonZeroGPR
  <2>2. Effect(Make("ADD", <<rd, 0, rs1>>, 0)) = Effect(i)
    BY MadeEffects, Sums
  <2> QED BY <1>0, <2>1, <2>2, GoodByExpansion
<1>7. compressADDI(rd, rs1, n) = w1 \o w2 \o w3 \o w4 \o w5 \o w6
  BY DEF compressADDI
<1> HIDE DEF w1, w2, w3, w4, w5, w6
<1> QED BY <1>1, <1>2, <1>3, <1>4, <1>5, <1>6, <1>7, ConcatGood

LEMMA GoodLUI ==
    ASSUME NEW i, NEW rd \in 0 .. 31, NEW n \in 0 .. 2 ^ 20 - 1,
           Effect(i) = IF rd = 0 THEN <<"nothing">> ELSE <<rd, <<"LUI", <<>>, n>>>>
    PROVE  compressLUI(rd, n) \in Seq(GoodForms(i))
<1> SUFFICES ASSUME rd \notin {0, 2} /\ n # 0 /\ isSImm6(n)
             PROVE  Make("C_LUI", <<rd>>, n) \in GoodForms(i)
  BY WhenGood DEF compressLUI
<1>0. n \in Int
  OBVIOUS
<1>1. Expand(Make("C_LUI", <<rd>>, n)) = Make("LUI", <<rd>>, n)
  BY <1>0, FieldsFit, Expansions
<1>2. Effect(Make("LUI", <<rd>>, n)) = Effect(i)
  BY MadeEffects
<1> QED BY <1>0, <1>1, <1>2, GoodByExpansion, RegLists DEF RVC

LEMMA GoodShiftOrAndI ==
    ASSUME NEW i, NEW op \in {"SLLI", "SRLI", "SRAI", "ANDI"},
           NEW rd \in 0 .. 31, NEW rs1 \in 0 .. 31, NEW n \in Int,
           Effect(i) = IF rd = 0 THEN <<"nothing">> ELSE <<rd, <<op, <<rs1>>, n>>>>
    PROVE  compressShiftOrAndI(op, rd, rs1, n) \in Seq(GoodForms(i))
<1> DEFINE w1 == When(rd = rs1 /\ op = "SLLI" /\ isNonZeroGPR(rd) /\ n \in 1 .. 31,
                      Make("C_SLLI", <<rd>>, n))
           w2 == When(rd = rs1 /\ op = "SRLI" /\ isGPRC(rd) /\ n \in 1 .. 31,
                      Make("C_SRLI", <<rd>>, n))
           w3 == When(rd = rs1 /\ op = "SRAI" /\ isGPRC(rd) /\ n \in 1 .. 31,
                      Make("C_SRAI", <<rd>>, n))
           w4 == When(rd = rs1 /\ op = "ANDI" /\ isGPRC(rd) /\ isSImm6(n),
                      Make("C_ANDI", <<rd>>, n))
<1>0. /\ {"C_SLLI", "C_SRLI", "C_SRAI", "C_ANDI"} \subseteq RVC /\ rd \in Int
      /\ <<rd>> \in Seq(0 .. 31)
      /\ Effect(Make(op, <<rd, rs1>>, n)) = Effect(i)
  <2>1. Effect(Make(op, <<rd, rs1>>, n)) =
           IF rd = 0 THEN <<"nothing">> ELSE <<rd, <<op, <<rs1>>, n>>>>
    BY ShiftEffect
  <2>2. {"C_SLLI", "C_SRLI", "C_SRAI", "C_ANDI"} \subseteq RVC /\ rd \in Int
    BY DEF RVC
  <2> QED BY <2>1, <2>2, RegLists
<1>1. w1 \in Seq(GoodForms(i))
  <2> SUFFICES ASSUME rd = rs1 /\ op = "SLLI" /\ isNonZeroGPR(rd) /\ n \in 1 .. 31
               PROVE  Make("C_SLLI", <<rd>>, n) \in GoodForms(i)
    BY WhenGood
  <2>1. Expand(Make("C_SLLI", <<rd>>, n)) = Make(op, <<rd, rs1>>, n)
    BY FieldsFit, MoreExpansions
  <2> QED BY <1>0, <2>1, GoodByExpansion
<1>2. w2 \in Seq(GoodForms(i))
  <2> SUFFICES ASSUME rd = rs1 /\ op = "SRLI" /\ isGPRC(rd) /\ n \in 1 .. 31
               PROVE  Make("C_SRLI", <<rd>>, n) \in GoodForms(i)
    BY WhenGood
  <2>1. CReg(rd) = rd /\ ZExt(n, 5) = n
    BY <1>0, FieldsFit
  <2>2. Expand(Make("C_SRLI", <<rd>>, n)) = Make(op, <<rd, rs1>>, n)
    BY <2>1, MoreExpansions
  <2> QED BY <1>0, <2>2, GoodByExpansion
<1>3. w3 \in Seq(GoodForms(i))
  <2> SUFFICES ASSUME rd = rs1 /\ op = "SRAI" /\ isGPRC(rd) /\ n \in 1 .. 31
               PROVE  Make("C_SRAI", <<rd>>, n) \in GoodForms(i)
    BY WhenGood
  <2>1. CReg(rd) = rd /\ ZExt(n, 5) = n
    BY <1>0, FieldsFit
  <2>2. Expand(Make("C_SRAI", <<rd>>, n)) = Make(op, <<rd, rs1>>, n)
    BY <2>1, MoreExpansions
  <2> QED BY <1>0, <2>2, GoodByExpansion
<1>4. w4 \in Seq(GoodForms(i))
  <2> SUFFICES ASSUME rd = rs1 /\ op = "ANDI" /\ isGPRC(rd) /\ isSImm6(n)
               PROVE  Make("C_ANDI", <<rd>>, n) \in GoodForms(i)
    BY WhenGood
  <2>1. CReg(rd) = rd /\ SExt(n, 6) = n
    BY <1>0, FieldsFit
  <2>2. Expand(Make("C_ANDI", <<rd>>, n)) = Make(op, <<rd, rs1>>, n)
    BY <2>1, MoreExpansions
  <2> QED BY <1>0, <2>2, GoodByExpansion
<1>5. compressShiftOrAndI(op, rd, rs1, n) = w1 \o w2 \o w3 \o w4
  BY DEF compressShiftOrAndI
<1> HIDE DEF w1, w2, w3, w4
<1> QED BY <1>1, <1>2, <1>3, <1>4, <1>5, ConcatGood

\* The two-operand forms; the second source may stand first if the operation
\* is commutative.
LEMMA GoodCA ==
    ASSUME NEW i, NEW rd \in 0 .. 31, NEW rs1 \in 0 .. 31, NEW rs2 \in 0 .. 31,
           NEW cop \in RVC, NEW op, NEW commutative \in BOOLEAN,
           \A a, b : Expand(Make(cop, <<a, b>>, 0)) = Make(op, <<CReg(a), CReg(a), CReg(b)>>, 0),
           Effect(Make(op, <<rd, rs1, rs2>>, 0)) = Effect(i),
           commutative => Effect(Make(op, <<rd, rs2, rs1>>, 0)) = Effect(i)
    PROVE  TryCA(cop, commutative, rd, rs1, rs2) \in Seq(GoodForms(i))
<1> DEFINE c1 == isGPRC(rd) /\ rd = rs1 /\ isGPRC(rs2)
           c2 == commutative /\ isGPRC(rd) /\ rd = rs2 /\ isGPRC(rs1)
           w1 == When(c1, Make(cop, <<rd, rs2>>, 0))
           w2 == When(c2, Make(cop, <<rd, rs1>>, 0))
<1>0. /\ 0 \in Int /\ rd \in Int /\ rs1 \in Int /\ rs2 \in Int
      /\ <<rd, rs1>> \in Seq(0 .. 31) /\ <<rd, rs2>> \in Seq(0 .. 31)
  BY RegLists
<1>1. w1 \in Seq(GoodForms(i))
  <2> SUFFICES ASSUME c1 PROVE Make(cop, <<rd, rs2>>, 0) \in GoodForms(i)
    <3> HIDE DEF c1
    <3> QED BY WhenGood
  <2>1. CReg(rd) = rd /\ CReg(rs2) = rs2 /\ rd = rs1
    BY <1>0, FieldsFit
  <2>2. Expand(Make(cop, <<rd, rs2>>, 0)) = Make(op, <<rd, rs1, rs2>>, 0)
    BY <2>1
  <2>3. Effect(Expand(Make(cop, <<rd, rs2>>, 0))) = Effect(i)
    BY <2>2
  <2> QED BY <1>0, <2>3, GoodByExpansion
<1>2. w2 \in Seq(GoodForms(i))
  <2> SUFFICES ASSUME c2 PROVE Make(cop, <<rd, rs1>>, 0) \in GoodForms(i)
    <3> HIDE DEF c2
    <3> QED BY WhenGood
  <2>1. CReg(rd) = rd /\ CReg(rs1) = rs1 /\ rd = rs2
    BY <1>0, FieldsFit
  <2>2. Expand(Make(cop, <<rd, rs1>>, 0)) = Make(op, <<rd, rs2, rs1>>, 0)
    BY <2>1
  <2>3. Effect(Expand(Make(cop, <<rd, rs1>>, 0))) = Effect(i)
    BY <2>2
  <2> QED BY <1>0, <2>3, GoodByExpansion
<1>3. TryCA(cop, commutative, rd, rs1, rs2) = w1 \o w2
  BY DEF TryCA
<1> HIDE DEF w1, w2
<1> QED BY <1>1, <1>2, <1>3, ConcatGood

LEMMA GoodADD ==
    ASSUME NEW i, NEW rd \in 0 .. 31, NEW rs1 \in 0 .. 31, NEW rs2 \in 0 .. 31,
           Effect(i) = Sum(rd, Plus(Times(1, rs1), Times(1, rs2)), 0)
    PROVE  compressALU("ADD", rd, rs1, rs2) \in Seq(GoodForms(i))
<1> DEFINE c1 == isNonZeroGPR(rd) /\ isX0(rs1) /\ isX0(rs2)
           c2 == isNonZeroGPR(rd) /\ isX0(rs1) /\ isNonZeroGPR(rs2)
           c3 == isNonZeroGPR(rd) /\ isNonZeroGPR(rs1) /\ isX0(rs2)
           c4 == isNonZeroGPR(rd) /\ rd = rs1 /\ isNonZeroGPR(rs2)
           c5 == isNonZeroGPR(rd) /\ rd = rs2 /\ isNonZeroGPR(rs1)
           w1 == When(c1, Make("C_LI", <<rd>>, 0))
           w2 == When(c2, Make("C_MV", <<rd, rs2>>, 0))
           w3 == When(c3, Make("C_MV", <<rd, rs1>>, 0))
           w4 == When(c4, Make("C_ADD", <<rd, rs2>>, 0))
           w5 == When(c5, Make("C_ADD", <<rd, rs1>>, 0))
<1>0. /\ {"C_LI", "C_MV", "C_ADD"} \subseteq RVC /\ 0 \in Int
      /\ <<rd>> \in Seq(0 .. 31) /\ <<rd, rs1>> \in Seq(0 .. 31) /\ <<rd, rs2>> \in Seq(0 .. 31)
  BY RegLists DEF RVC
<1>1. w1 \in Seq(GoodForms(i))
  <2> SUFFICES ASSUME c1 PROVE Make("C_LI", <<rd>>, 0) \in GoodForms(i)
    <3> HIDE DEF c1
    <3> QED BY WhenGood
  <2>1. SExt(0, 6) = 0
    BY FieldsFit DEF isSImm6
  <2>2. Expand(Make("C_LI", <<rd>>, 0)) = Make("ADDI", <<rd, 0>>, 0)
    BY <2>1, Expansions
  <2>3. rs1 = 0 /\ rs2 = 0
    BY DEF isX0
  <2>4. Effect(Make("ADDI", <<rd, 0>>, 0)) = Sum(rd, Times(1, 0), 0)
    BY MadeEffects
  <2>5. Effect(Make("ADDI", <<rd, 0>>, 0)) = Effect(i)
    BY <2>3, <2>4, Sums
  <2> QED BY <1>0, <2>2, <2>5, GoodByExpansion
<1>2. w2 \in Seq(GoodForms(i))
  <2> SUFFICES ASSUME c2 PROVE Make("C_MV", <<rd, rs2>>, 0) \in GoodForms(i)
    <3> HIDE DEF c2
    <3> QED BY WhenGood
  <2>1. Expand(Make("C_MV", <<rd, rs2>>, 0)) = Make("ADD", <<rd, 0, rs2>>, 0)
    BY Expansions DEF isNonZeroGPR
  <2>2. Effect(Make("ADD", <<rd, 0, rs2>>, 0)) = Effect(i)
    BY MadeEffects DEF isX0
  <2> QED BY <1>0, <2>1, <2>2, GoodByExpansion
<1>3. w3 \in Seq(GoodForms(i))
  <2> SUFFICES ASSUME c3 PROVE Make("C_MV", <<rd, rs1>>, 0) \in GoodForms(i)
    <3> HIDE DEF c3
    <3> QED BY WhenGood
  <2>1. Expand(Make("C_MV", <<rd, rs1>>, 0)) = Make("ADD", <<rd, 0, rs1>>, 0)
    BY Expansions DEF isNonZeroGPR
  <2>2. Effect(Make("ADD", <<rd, 0, rs1>>, 0)) = Sum(rd, Plus(Times(1, 0), Times(1, rs1)), 0)
    BY MadeEffects
  <2>3. Plus(Times(1, 0), Times(1, rs1)) = Plus(Times(1, rs1), Times(1, rs2))
    BY Sums DEF isX0
  <2> QED BY <1>0, <2>1, <2>2, <2>3, GoodByExpansion
<1>4. w4 \in Seq(GoodForms(i))
  <2> SUFFICES ASSUME c4 PROVE Make("C_ADD", <<rd, rs2>>, 0) \in GoodForms(i)
    <3> HIDE DEF c4
    <3> QED BY WhenGood
  <2>1. Expand(Make("C_ADD", <<rd, rs2>>, 0)) = Make("ADD", <<rd, rs1, rs2>>, 0)
    BY Expansions DEF isNonZeroGPR
  <2>2. Effect(Make("ADD", <<rd, rs1, rs2>>, 0)) = Effect(i)
    BY MadeEffects
  <2> QED BY <1>0, <2>1, <2>2, GoodByExpansion
<1>5. w5 \in Seq(GoodForms(i))
  <2> SUFFICES ASSUME c5 PROVE Make("C_ADD", <<rd, rs1>>, 0) \in GoodForms(i)
    <3> HIDE DEF c5
    <3> QED BY WhenGood
  <2>1. Expand(Make("C_ADD", <<rd, rs1>>, 0)) = Make("ADD", <<rd, rs2, rs1>>, 0)
    BY Expansions DEF isNonZeroGPR
  <2>2. Effect(Make("ADD", <<rd, rs2, rs1>>, 0))
           = Sum(rd, Plus(Times(1, rs2), Times(1, rs1)), 0)
    BY MadeEffects
  <2>3. Plus(Times(1, rs2), Times(1, rs1)) = Plus(Times(1, rs1), Times(1, rs2))
    BY Sums
  <2> QED BY <1>0, <2>1, <2>2, <2>3, GoodByExpansion
<1>6. compressALU("ADD", rd, rs1, rs2) = w1 \o w2 \o w3 \o w4 \o w5
  BY DEF compressALU
<1> HIDE DEF w1, w2, w3, w4, w5
<1>7. w1 \o w2 \o w3 \in Seq(GoodForms(i))
  BY <1>1, <1>2, <1>3, ConcatGood
<1>8. w1 \o w2 \o w3 \o w4 \in Seq(GoodForms(i))
  BY <1>4, <1>7, ConcatGood
<1> QED BY <1>5, <1>6, <1>8, ConcatGood

LEMMA GoodALU ==
    ASSUME NEW i, NEW op \in {"SUB", "XOR", "OR", "AND"},
           NEW rd \in 0 .. 31, NEW rs1 \in 0 .. 31, NEW rs2 \in 0 .. 31,
           Effect(i) = Effect(Make(op, <<rd, rs1, rs2>>, 0))
    PROVE  compressALU(op, rd, rs1, rs2) \in Seq(GoodForms(i))
<1>0. "C_SUB" \in RVC /\ "C_XOR" \in RVC /\ "C_OR" \in RVC /\ "C_AND" \in RVC
  BY DEF RVC
<1>1. CASE op = "SUB"
  <2>1. compressALU(op, rd, rs1, rs2) = TryCA("C_SUB", FALSE, rd, rs1, rs2)
    BY <1>1 DEF compressALU
  <2>2. \A a, b : Expand(Make("C_SUB", <<a, b>>, 0)) = Make(op, <<CReg(a), CReg(a), CReg(b)>>, 0)
    BY <1>1, MoreExpansions
  <2> QED BY <1>0, <2>1, <2>2, GoodCA
<1>2. CASE op # "SUB"
  <2>0. op \in {"XOR", "OR", "AND"}
    BY <1>2
  <2>1. Effect(Make(op, <<rd, rs2, rs1>>, 0)) = Effect(i)
    <3>1. {rs1, rs2} = {rs2, rs1}
      OBVIOUS
    <3>2. /\ Effect(Make(op, <<rd, rs1, rs2>>, 0)) =
                IF rd = 0 THEN <<"nothing">> ELSE <<rd, <<op, {rs1, rs2}>>>>
          /\ Effect(Make(op, <<rd, rs2, rs1>>, 0)) =
                IF rd = 0 THEN <<"nothing">> ELSE <<rd, <<op, {rs2, rs1}>>>>
      BY <2>0, LogicEffect
    <3> QED BY <3>1, <3>2, Zenon
  <2>2. CASE op = "XOR"
    <3>1. compressALU(op, rd, rs1, rs2) = TryCA("C_XOR", TRUE, rd, rs1, rs2)
      BY <2>2 DEF compressALU
    <3>2. \A a, b : Expand(Make("C_XOR", <<a, b>>, 0))
                       = Make(op, <<CReg(a), CReg(a), CReg(b)>>, 0)
      BY <2>2, MoreExpansions
    <3> QED BY <1>0, <2>1, <3>1, <3>2, GoodCA
  <2>3. CASE op = "OR"
    <3>1. compressALU(op, rd, rs1, rs2) = TryCA("C_OR", TRUE, rd, rs1, rs2)
      BY <2>3 DEF compressALU
    <3>2. \A a, b : Expand(Make("C_OR", <<a, b>>, 0))
                       = Make(op, <<CReg(a), CReg(a), CReg(b)>>, 0)
      BY <2>3, MoreExpansions
    <3> QED BY <1>0, <2>1, <3>1, <3>2, GoodCA
  <2>4. CASE op = "AND"
    <3>1. compressALU(op, rd, rs1, rs2) = TryCA("C_AND", TRUE, rd, rs1, rs2)
      BY <2>4 DEF compressALU
    <3>2. \A a, b : Expand(Make("C_AND", <<a, b>>, 0))
                       = Make(op, <<CReg(a), CReg(a), CReg(b)>>, 0)
      BY <2>4, MoreExpansions
    <3> QED BY <1>0, <2>1, <3>1, <3>2, GoodCA
  <2> QED BY <2>0, <2>2, <2>3, <2>4
<1> QED BY <1>1, <1>2

LEMMA GoodLoadStore ==
    ASSUME NEW i, NEW op \in {"LW", "SW"}, NEW r \in 0 .. 31, NEW base \in 0 .. 31, NEW n \in Int,
           Effect(i) = Effect(Make(op, <<r, base>>, n))
    PROVE  compressLoadStore(op, r, base, n) \in Seq(GoodForms(i))
<1> DEFINE c1 == op = "LW" /\ isNonZeroGPR(r) /\ isSP(base) /\ isUImmScaled(n, 252, 4)
           c2 == op = "SW" /\ isSP(base) /\ isUImmScaled(n, 252, 4)
           c3 == isGPRC(r) /\ isGPRC(base) /\ isUImmScaled(n, 124, 4)
           f3 == Make(IF op = "LW" THEN "C_LW" ELSE "C_SW", <<r, base>>, n)
           w1 == When(c1, Make("C_LWSP", <<r, base>>, n))
           w2 == When(c2, Make("C_SWSP", <<r, base>>, n))
           w3 == When(c3, f3)
<1>0. /\ {"C_LWSP", "C_SWSP", "C_LW", "C_SW"} \subseteq RVC /\ r \in Int /\ base \in Int
      /\ <<r, base>> \in Seq(0 .. 31)
  BY RegLists DEF RVC
<1>1. w1 \in Seq(GoodForms(i))
  <2> SUFFICES ASSUME c1 PROVE Make("C_LWSP", <<r, base>>, n) \in GoodForms(i)
    <3> HIDE DEF c1
    <3> QED BY WhenGood
  <2>1. 4 * ZExt(n \div 4, 6) = n
    BY FieldsFit
  <2>2. Expand(Make("C_LWSP", <<r, base>>, n)) = Make(op, <<r, base>>, n)
    BY <2>1, MoreExpansions DEF isNonZeroGPR, isSP
  <2> QED BY <1>0, <2>2, GoodByExpansion
<1>2. w2 \in Seq(GoodForms(i))
  <2> SUFFICES ASSUME c2 PROVE Make("C_SWSP", <<r, base>>, n) \in GoodForms(i)
    <3> HIDE DEF c2
    <3> QED BY WhenGood
  <2>1. 4 * ZExt(n \div 4, 6) = n
    BY FieldsFit
  <2>2. Expand(Make("C_SWSP", <<r, base>>, n)) = Make(op, <<r, base>>, n)
    BY <2>1, MoreExpansions DEF isSP
  <2> QED BY <1>0, <2>2, GoodByExpansion
<1>3. w3 \in Seq(GoodForms(i))
  <2> SUFFICES ASSUME c3 PROVE f3 \in GoodForms(i)
    <3> HIDE DEF c3, f3
    <3> QED BY WhenGood
  <2>1. 4 * ZExt(n \div 4, 5) = n /\ CReg(r) = r /\ CReg(base) = base
    BY <1>0, FieldsFit
  <2>2. CASE op = "LW"
    <3>1. Expand(Make("C_LW", <<r, base>>, n)) = Make(op, <<r, base>>, n)
      BY <2>1, <2>2, MoreExpansions
    <3>2. Make("C_LW", <<r, base>>, n) \in GoodForms(i)
      BY <1>0, <3>1, GoodByExpansion
    <3> QED BY <2>2, <3>2
  <2>3. CASE op = "SW"
    <3>1. Expand(Make("C_SW", <<r, base>>, n)) = Make(op, <<r, base>>, n)
      BY <2>1, <2>3, MoreExpansions
    <3>2. Make("C_SW", <<r, base>>, n) \in GoodForms(i)
      BY <1>0, <3>1, GoodByExpansion
    <3> QED BY <2>3, <3>2
  <2> QED BY <2>2, <2>3
<1>4. compressLoadStore(op, r, base, n) = w1 \o w2 \o w3
  BY DEF compressLoadStore
<1> HIDE DEF w1, w2, w3
<1> QED BY <1>1, <1>2, <1>3, <1>4, ConcatGood

LEMMA GoodJALR ==
    ASSUME NEW i, NEW rd \in 0 .. 31, NEW rs1 \in 0 .. 31, NEW n \in Int,
           Effect(i) = Effect(Make("JALR", <<rd, rs1>>, n))
    PROVE  compressJALR(rd, rs1, n) \in Seq(GoodForms(i))
<1> DEFINE c == n = 0 /\ isNonZeroGPR(rs1) /\ rd = 0
<1> SUFFICES ASSUME c PROVE Make("C_JR", <<rs1>>, 0) \in GoodForms(i)
  <2>1. compressJALR(rd, rs1, n) = When(c, Make("C_JR", <<rs1>>, 0))
    BY DEF compressJALR
  <2> HIDE DEF c
  <2> QED BY <2>1, WhenGood
<1>1. Effect(Expand(Make("C_JR", <<rs1>>, 0))) = Effect(i)
  BY MoreExpansions
<1> QED BY <1>1, GoodByExpansion, RegLists DEF RVC

LEMMA RegTuples ==
    ASSUME NEW s \in Seq(0 .. 31)
    PROVE  /\ Len(s) = 1 => s[1] \in 0 .. 31 /\ s = <<s[1]>>
           /\ Len(s) = 2 => s[1] \in 0 .. 31 /\ s[2] \in 0 .. 31 /\ s = <<s[1], s[2]>>
           /\ Len(s) = 3 => s[1] \in 0 .. 31 /\ s[2] \in 0 .. 31 /\ s[3] \in 0 .. 31
<1>1. \A k \in 1 .. Len(s) : s[k] \in 0 .. 31
  <2> DEFINE R == 0 .. 31
  <2> HIDE DEF R
  <2>1. ASSUME s \in Seq(R) PROVE \A k \in 1 .. Len(s) : s[k] \in R
    BY <2>1
  <2> QED BY <2>1 DEF R
<1>2. DOMAIN s = 1 .. Len(s)
  OBVIOUS
<1>3. CASE Len(s) = 1
  <2>1. s[1] \in 0 .. 31
    BY <1>1, <1>3
  <2>2. s = <<s[1]>>
    BY <1>2, <1>3
  <2> QED BY <1>3, <2>1, <2>2
<1>4. CASE Len(s) = 2
  <2>1. s[1] \in 0 .. 31 /\ s[2] \in 0 .. 31
    BY <1>1, <1>4
  <2>2. s = <<s[1], s[2]>>
    BY <1>2, <1>4
  <2> QED BY <1>4, <2>1, <2>2
<1>5. CASE Len(s) = 3
  <2>1. s[1] \in 0 .. 31 /\ s[2] \in 0 .. 31 /\ s[3] \in 0 .. 31
    BY <1>1, <1>5
  <2> QED BY <1>5, <2>1
<1> QED BY <1>3, <1>4, <1>5

(***************************************************************************)
(* compressInst for every well-formed instruction, every register and      *)
(* every immediate.                                                        *)
(***************************************************************************)
LEMMA TableGood ==
    ASSUME NEW i \in Instruction, WellFormed(i)
    PROVE  compressInst(i) \in Seq(GoodForms(i))
<1> DEFINE a == i.regs[1]
           b == i.regs[2]
           c == i.regs[3]
           n == i.imm
<1>0. i.regs \in Seq(0 .. 31) /\ n \in Int /\ i.op \in Opcode /\ i.sym \in BOOLEAN
  BY InstructionTyped
<1>1. CASE i.op = "EBREAK"
  <2>1. Effect(Expand(Make("C_EBREAK", <<>>, 0))) = Effect(i)
    BY <1>1, MoreExpansions, MadeEffects, Effects
  <2>2. Make("C_EBREAK", <<>>, 0) \in GoodForms(i)
    <3>1. "C_EBREAK" \in RVC /\ 0 \in Int
      BY DEF RVC
    <3> QED BY <2>1, <3>1, GoodByExpansion, RegLists
  <2>3. compressInst(i) = <<Make("C_EBREAK", <<>>, 0)>>
    BY <1>1 DEF compressInst
  <2> QED BY <2>2, <2>3
<1>2. CASE i.op \in {"ADD", "SUB", "XOR", "OR", "AND"}
  <2>1. Len(i.regs) = 3
    BY <1>2 DEF WellFormed
  <2>2. a \in 0 .. 31 /\ b \in 0 .. 31 /\ c \in 0 .. 31
    BY <1>0, <2>1, RegTuples
  <2>3. compressInst(i) = compressALU(i.op, a, b, c)
    BY <1>2 DEF compressInst
  <2> HIDE DEF a, b, c
  <2>4. CASE i.op = "ADD"
    <3>1. Effect(i) = Sum(a, Plus(Times(1, b), Times(1, c)), 0)
      BY <2>4, Effects DEF a, b, c
    <3> QED BY <2>2, <2>3, <2>4, <3>1, GoodADD
  <2>5. CASE i.op = "SUB"
    <3>1. Effect(i) = Sum(a, Plus(Times(1, b), Times(-1, c)), 0)
      BY <2>5, Effects DEF a, b, c
    <3>2. Effect(Make("SUB", <<a, b, c>>, 0)) = Sum(a, Plus(Times(1, b), Times(-1, c)), 0)
      BY MadeEffects
    <3> QED BY <2>2, <2>3, <2>5, <3>1, <3>2, GoodALU
  <2>6. CASE i.op \in {"XOR", "OR", "AND"}
    <3>1. Effect(i) = IF a = 0 THEN <<"nothing">> ELSE <<a, <<i.op, {b, c}>>>>
      BY <2>6, Effects DEF a, b, c
    <3>2. Effect(Make(i.op, <<a, b, c>>, 0))
             = IF a = 0 THEN <<"nothing">> ELSE <<a, <<i.op, {b, c}>>>>
      BY <2>6, LogicEffect
    <3> QED BY ZenonT(40), <2>2, <2>3, <2>6, <3>1, <3>2, GoodALU
  <2> QED BY <1>2, <2>4, <2>5, <2>6
<1>3. CASE /\ i.op \in {"ADDI", "SLLI", "SRLI", "SRAI", "ANDI", "LW", "SW", "JALR"}
           /\ ~i.sym
  <2>1. Len(i.regs) = 2
    BY <1>3 DEF WellFormed
  <2>2. a \in 0 .. 31 /\ b \in 0 .. 31
    BY <1>0, <2>1, RegTuples
  <2>3. i.regs = <<a, b>> /\ Tail(i.regs) = <<b>>
    <3>1. i.regs = <<a, b>>
      BY <1>0, <2>1, RegTuples
    <3>2. Tail(<<a, b>>) = <<b>>
      OBVIOUS
    <3> QED BY <3>1, <3>2
  <2>4. CASE i.op = "ADDI"
    <3>1. compressInst(i) = compressADDI(a, b, n)
      BY <1>3, <2>4 DEF compressInst
    <3>2. Effect(i) = Sum(a, Times(1, b), n)
      BY <2>4, Effects
    <3> HIDE DEF a, b, n
    <3> QED BY <1>0, <2>2, <3>1, <3>2, GoodADDI
  <2>5. CASE i.op \in {"SLLI", "SRLI", "SRAI", "ANDI"}
    <3>1. compressInst(i) = compressShiftOrAndI(i.op, a, b, n)
      BY <1>3, <2>5 DEF compressInst
    <3>2. Effect(i) = IF a = 0 THEN <<"nothing">> ELSE <<a, <<i.op, <<b>>, n>>>>
      BY <2>3, <2>5, Effects
    <3> HIDE DEF a, b, n
    <3> QED BY ZenonT(40), <1>0, <2>2, <2>5, <3>1, <3>2, GoodShiftOrAndI
  <2>6. CASE i.op \in {"LW", "SW"}
    <3>1. compressInst(i) = compressLoadStore(i.op, a, b, n)
      BY <1>3, <2>6 DEF compressInst
    <3>2. Effect(i) = Effect(Make(i.op, <<a, b>>, n))
      <4>1. CASE i.op = "LW"
        <5>1. Effect(i) = <<a, <<"LW", Tail(i.regs), n>>>>
          BY <4>1, Effects
        <5>2. Effect(Make("LW", <<a, b>>, n)) = <<a, <<"LW", <<b>>, n>>>>
          BY MadeEffects
        <5> QED BY <4>1, <2>3, <5>1, <5>2
      <4>2. CASE i.op = "SW"
        BY SMTT(30), <4>2, <2>3, Effects, MadeEffects
      <4> QED BY <2>6, <4>1, <4>2
    <3> HIDE DEF a, b, n
    <3> QED BY <1>0, <2>2, <2>6, <3>1, <3>2, GoodLoadStore
  <2>7. CASE i.op = "JALR"
    <3>1. compressInst(i) = compressJALR(a, b, n)
      BY <1>3, <2>7 DEF compressInst
    <3>2. Effect(i) = Effect(Make("JALR", <<a, b>>, n))
      BY SMTT(30), <2>3, <2>7, Effects, MadeEffects
    <3> HIDE DEF a, b, n
    <3> QED BY <1>0, <2>2, <3>1, <3>2, GoodJALR
  <2> QED BY <1>3, <2>4, <2>5, <2>6, <2>7
<1>4. CASE i.op = "LUI" /\ ~i.sym
  <2>1. Len(i.regs) = 1 /\ n \in 0 .. 2 ^ 20 - 1
    BY <1>4 DEF WellFormed
  <2>2. a \in 0 .. 31 /\ i.regs = <<a>>
    BY <1>0, <2>1, RegTuples
  <2>3. Tail(<<a>>) = <<>>
    OBVIOUS
  <2>4. compressInst(i) = compressLUI(a, n)
    BY <1>4 DEF compressInst
  <2>5. Effect(i) = IF a = 0 THEN <<"nothing">> ELSE <<a, <<"LUI", <<>>, n>>>>
    BY <1>4, <2>2, <2>3, Effects
  <2> HIDE DEF a, n
  <2> QED BY <2>1, <2>2, <2>4, <2>5, GoodLUI
<1>5. CASE /\ i.op \notin {"EBREAK", "ADD", "SUB", "XOR", "OR", "AND"}
           /\ i.sym \/ i.op \notin {"ADDI", "SLLI", "SRLI", "SRAI", "ANDI", "LW", "SW",
                                    "JALR", "LUI"}
  <2>1. compressInst(i) = <<>>
    BY <1>5 DEF compressInst
  <2> QED BY <2>1
<1> QED BY <1>1, <1>2, <1>3, <1>4, <1>5

\* What the pass puts in the place of an instruction.
LEMMA FormKept ==
    ASSUME NEW i \in Instruction, WellFormed(i), compressInst(i) # <<>>
    PROVE  /\ Compressed(i) \in Instruction
           /\ Compressed(i).size = 2 /\ Compressed(i).target = i.target
           /\ Compressed(i).op \in RVC
           /\ Effect(Expand(Compressed(i))) = Effect(i)
<1> DEFINE f == Head(compressInst(i))
<1>1. f \in GoodForms(i)
  <2> DEFINE S == GoodForms(i)
  <2>1. compressInst(i) \in Seq(S)
    BY TableGood
  <2> HIDE DEF S
  <2>2. f \in S
    BY <2>1
  <2> QED BY <2>2 DEF S
<1>2. f \in Form /\ Effect(Expand(f)) = Effect(i)
  BY <1>1 DEF GoodForms
<1>3. f.op \in RVC /\ f.op \in Opcode /\ f.regs \in Seq(0 .. 31) /\ f.imm \in Int /\ f.sym = FALSE
  <2> HIDE DEF f
  <2>1. f.op \in RVC /\ f.regs \in Seq(0 .. 31) /\ f.imm \in Int /\ f.sym = FALSE
    BY <1>2 DEF Form
  <2>2. RVC \subseteq Opcode
    BY DEF Opcode
  <2> QED BY <2>1, <2>2
<1> HIDE DEF f
<1> DEFINE g == [i EXCEPT !.op = f.op, !.regs = f.regs, !.imm = f.imm, !.sym = f.sym, !.size = 2]
<1>4. g = Compressed(i)
  BY DEF Compressed, f
<1>5. /\ g \in Instruction /\ g.op = f.op /\ g.regs = f.regs /\ g.imm = f.imm
      /\ g.size = 2 /\ g.target = i.target
  BY <1>3 DEF Instruction
<1> HIDE DEF g
<1>6. Expand(g) = Expand(f)
  BY <1>5 DEF Expand
<1> QED BY <1>2, <1>3, <1>4, <1>5, <1>6

LEMMA JumpKept ==
    ASSUME NEW i \in Instruction
    PROVE  /\ C_J(i) \in Instruction /\ C_J(i).size = 2 /\ C_J(i).target = i.target
           /\ C_J(i).op = "C_J"
<1> DEFINE e == <<>>
           R == 0 .. 31
           g == [i EXCEPT !.op = "C_J", !.regs = e, !.size = 2]
<1>1. e \in Seq(R) /\ "C_J" \in Opcode
  BY DEF Opcode
<1>2. Instruction = [op : Opcode, regs : Seq(R), imm : Int, sym : BOOLEAN,
                     size : {2, 4}, target : Nat]
  BY DEF Instruction
<1>3. C_J(i) = g
  BY DEF C_J
<1> HIDE DEF e, R
<1>4. g \in Instruction /\ g.size = 2 /\ g.target = i.target /\ g.op = "C_J"
  BY <1>1, <1>2
<1> QED BY <1>3, <1>4
-----------------------------------------------------------------------------
(***************************************************************************)
(* The pass.  Every instruction is the one of the input or what replaced   *)
(* it, and the offsets of the round are those of a function that was at    *)
(* least as large in every instruction.                                    *)
(***************************************************************************)
CameFrom(a, b) == \/ b = a
                  \/ compressInst(a) # <<>> /\ b = Compressed(a)
                  \/ IsJump(a) /\ b = C_J(a)

Types ==
    /\ input \in Functions
    /\ insts \in Seq(Instruction) /\ Len(insts) = Len(input)
    /\ phase \in {"single", "jumps"} /\ pos \in 0 .. Len(insts) + 1
    /\ round \in Nat /\ done \in BOOLEAN /\ dryRun \in BOOLEAN

Origin ==
    \A k \in 1 .. Len(input) : /\ CameFrom(input[k], insts[k])
                               /\ insts[k].target = input[k].target
                               /\ phase = "single" /\ k >= pos => insts[k] = input[k]

RoundInv ==
    phase = "jumps" /\ pos # 0 =>
        /\ \E s : Shrunk(s, insts) /\ offsets = LayOut(s)
        /\ round = 0 => /\ offsets = LayOut(insts)
                        /\ \A k \in 1 .. Len(insts) : k < pos => ~Fits(k)

DoneInv == done => phase = "jumps" /\ pos = 0

IInv == Types /\ Origin /\ RoundInv /\ DoneInv /\ CompressedInReach /\ NoFurtherFits

\* What FunctionsAssumption says of the function in hand.
LEMMA InputFacts ==
    ASSUME Types
    PROVE  /\ input \in Seq(Instruction) /\ Len(input) \in Nat
           /\ DOMAIN input = 1 .. Len(input) /\ DOMAIN insts = 1 .. Len(input)
           /\ \A k \in 1 .. Len(input) :
                 /\ input[k] \in Instruction /\ WellFormed(input[k])
                 /\ input[k].target \in 0 .. Len(input)
                 /\ insts[k] \in Instruction
<1>1. input \in Seq(Instruction)
  BY FunctionsAssumption DEF Types
<1>2. Len(input) \in Nat /\ DOMAIN input = 1 .. Len(input) /\ DOMAIN insts = 1 .. Len(input)
  BY <1>1 DEF Types
<1>3. \A k \in 1 .. Len(input) : WellFormed(input[k]) /\ input[k].target \in 0 .. Len(input)
  BY <1>2, FunctionsAssumption DEF Types
<1>4. \A k \in 1 .. Len(input) : input[k] \in Instruction /\ insts[k] \in Instruction
  BY <1>1 DEF Types
<1> QED BY <1>1, <1>2, <1>3, <1>4

LEMMA ShrunkSelf == ASSUME NEW s \in Seq(Instruction) PROVE Shrunk(s, s)
<1>1. \A k \in 1 .. Len(s) : s[k] \in Instruction
  OBVIOUS
<1>2. \A k \in 1 .. Len(s) : s[k].size \in Int
  BY <1>1, InstructionTyped
<1> QED BY <1>2 DEF Shrunk

LEMMA ShrunkAgain == ASSUME NEW s, NEW t, NEW u, Shrunk(s, t), Shrunk(t, u) PROVE Shrunk(s, u)
<1>1. \A k \in 1 .. Len(s) : s[k] \in Instruction /\ t[k] \in Instruction /\ u[k] \in Instruction
  BY DEF Shrunk
<1>2. \A k \in 1 .. Len(s) : s[k].size \in Int /\ t[k].size \in Int /\ u[k].size \in Int
  BY <1>1, InstructionTyped
<1> QED BY SMTT(30), <1>2 DEF Shrunk

\* Replacing one instruction by one of two bytes.
LEMMA Replacement ==
    ASSUME NEW s \in Seq(Instruction), NEW p \in 1 .. Len(s), NEW x \in Instruction, x.size = 2
    PROVE  /\ [s EXCEPT ![p] = x] \in Seq(Instruction)
           /\ Len([s EXCEPT ![p] = x]) = Len(s)
           /\ [s EXCEPT ![p] = x][p] = x
           /\ \A k \in 1 .. Len(s) : k # p => [s EXCEPT ![p] = x][k] = s[k]
           /\ Shrunk(s, [s EXCEPT ![p] = x])
<1> DEFINE t == [s EXCEPT ![p] = x]
<1>1. t \in Seq(Instruction) /\ Len(t) = Len(s) /\ t[p] = x
  OBVIOUS
<1>2. \A k \in 1 .. Len(s) : k # p => t[k] = s[k]
  OBVIOUS
<1> HIDE DEF t
<1>3. \A k \in 1 .. Len(s) : s[k].size \in {2, 4}
  <2>1. \A k \in 1 .. Len(s) : s[k] \in Instruction
    OBVIOUS
  <2> QED BY <2>1, InstructionTyped
<1>4. \A k \in 1 .. Len(s) : t[k].size <= s[k].size
  BY <1>1, <1>2, <1>3
<1>5. Shrunk(s, t)
  BY <1>1, <1>4 DEF Shrunk
<1> QED BY <1>1, <1>2, <1>5 DEF t

\* No replacement is a JAL, so a jump still there is the one of the input.
LEMMA JumpsOld ==
    ASSUME NEW a \in Instruction, WellFormed(a), NEW b, CameFrom(a, b), IsJump(b)
    PROVE  b = a
<1>1. compressInst(a) # <<>> => Compressed(a).op \in RVC
  BY FormKept
<1>2. "JAL" \notin RVC
  BY DEF RVC
<1>3. C_J(a).op = "C_J"
  BY JumpKept
<1> QED BY <1>1, <1>2, <1>3 DEF CameFrom, IsJump

LEMMA InitIInv == Init => IInv
<1> SUFFICES ASSUME Init PROVE IInv
  OBVIOUS
<1>1. input \in Seq(Instruction) /\ Len(input) \in Nat /\ DOMAIN input = 1 .. Len(input)
  BY FunctionsAssumption DEF Init
<1>2. Types
  <2>1. 1 \in 0 .. Len(input) + 1 /\ 0 \in Nat
    BY <1>1
  <2> QED BY <1>1, <2>1 DEF Init, Types
<1>3. Origin /\ RoundInv /\ DoneInv /\ NoFurtherFits
  BY <1>1 DEF Init, Origin, CameFrom, RoundInv, DoneInv, NoFurtherFits
<1>4. CompressedInReach
  BY FunctionsAssumption DEF Init, CompressedInReach, Local
<1> QED BY <1>2, <1>3, <1>4 DEF IInv

\* The first loop: the form takes at most the room of the instruction, so
\* every C.J still reaches.
LEMMA SingleStep == IInv /\ CompressSingle => IInv'
<1> SUFFICES ASSUME IInv, CompressSingle PROVE IInv'
  OBVIOUS
<1>1. /\ phase = "single" /\ phase' = "single" /\ pos \in 1 .. Len(insts) /\ pos' = pos + 1
      /\ UNCHANGED <<input, offsets, round, done, dryRun>> /\ ~done
      /\ Types /\ Origin
  BY DEF CompressSingle, IInv, DoneInv
<1>2. /\ insts \in Seq(Instruction) /\ Len(insts) = Len(input) /\ Len(input) \in Nat
      /\ DOMAIN insts = 1 .. Len(input)
      /\ \A k \in 1 .. Len(input) : /\ insts[k] \in Instruction /\ input[k] \in Instruction
                                    /\ WellFormed(input[k])
                                    /\ input[k].target \in 0 .. Len(input)
  BY <1>1, InputFacts DEF Types
<1>3. insts[pos] = input[pos] /\ pos \in 1 .. Len(input)
  BY <1>1, <1>2 DEF Origin
<1>4. CASE insts' = insts
  <2>1. Types' /\ RoundInv' /\ DoneInv' /\ NoFurtherFits'
    BY <1>1, <1>2, <1>4 DEF Types, RoundInv, DoneInv, NoFurtherFits
  <2>2. Origin'
    BY <1>1, <1>2, <1>4 DEF Origin
  <2>3. CompressedInReach'
    BY <1>4 DEF IInv, CompressedInReach, Local
  <2> QED BY <2>1, <2>2, <2>3 DEF IInv
<1>5. CASE compressInst(insts[pos]) # <<>> /\ insts' = [insts EXCEPT ![pos] = Compressed(@)]
  <2> DEFINE x == Compressed(insts[pos])
  <2>1. /\ x \in Instruction /\ x.size = 2 /\ x.target = input[pos].target /\ x.op \in RVC
        /\ CameFrom(input[pos], x)
    BY <1>2, <1>3, <1>5, FormKept DEF CameFrom
  <2>2. insts' = [insts EXCEPT ![pos] = x]
    BY <1>5
  <2> HIDE DEF x
  <2>3. /\ insts' \in Seq(Instruction) /\ Len(insts') = Len(input) /\ insts'[pos] = x
        /\ \A k \in 1 .. Len(input) : k # pos => insts'[k] = insts[k]
        /\ Shrunk(insts, insts')
    BY <1>2, <1>3, <2>1, <2>2, Replacement
  <2>4. Types' /\ RoundInv' /\ DoneInv' /\ NoFurtherFits'
    BY <1>1, <1>2, <2>3 DEF Types, RoundInv, DoneInv, NoFurtherFits
  <2>5. Origin'
    BY <1>1, <1>2, <1>3, <2>1, <2>3 DEF Origin
  <2>6. CompressedInReach'
    <3> SUFFICES ASSUME NEW i \in 1 .. Len(input), insts'[i].target # 0, insts'[i].op = "C_J"
                 PROVE  isCJOffset(LayOut(insts')[insts'[i].target] - LayOut(insts')[i])
      <4>1. DOMAIN insts' = 1 .. Len(input)
        BY <2>3
      <4> QED BY <4>1 DEF CompressedInReach, Local
    <3>1. i # pos
      BY <2>1, <2>3 DEF RVC
    <3>2. insts'[i] = insts[i] /\ insts[i].target = input[i].target
      BY <3>1, <2>3, <1>1 DEF Origin
    <3>3. insts[i].target \in 1 .. Len(insts) /\ i \in 1 .. Len(insts)
      BY <3>2, <1>2
    <3>4. isCJOffset(LayOut(insts)[insts[i].target] - LayOut(insts)[i])
      BY <3>2, <1>2 DEF IInv, CompressedInReach, Local
    <3> QED BY <2>3, <3>2, <3>3, <3>4, ReachKept
  <2> QED BY <2>4, <2>5, <2>6 DEF IInv
<1> QED BY <1>4, <1>5 DEF CompressSingle

LEMMA StartSteps == IInv /\ (StartJumps \/ StartRound) => IInv'
<1> SUFFICES ASSUME IInv, StartJumps \/ StartRound PROVE IInv'
  OBVIOUS
<1>1. /\ phase' = "jumps" /\ pos' \in {0, 1} /\ ~done
      /\ UNCHANGED <<input, insts, done, dryRun>>
      /\ Types /\ Origin
  BY DEF StartJumps, StartRound, IInv, DoneInv
<1>2. insts \in Seq(Instruction) /\ Len(insts) \in Nat
  BY <1>1 DEF Types
<1>3. Types'
  BY <1>1, <1>2 DEF Types, StartJumps, StartRound
<1>4. Origin' /\ DoneInv' /\ NoFurtherFits'
  BY <1>1 DEF Origin, DoneInv, NoFurtherFits
<1>5. CompressedInReach'
  BY <1>1 DEF IInv, CompressedInReach, Local
<1>6. RoundInv'
  <2>1. CASE StartJumps
    BY <2>1 DEF StartJumps, RoundInv
  <2>2. CASE StartRound
    <3>1. offsets' = LayOut(insts) /\ pos' = 1
      BY <2>2 DEF StartRound
    <3>2. Shrunk(insts', insts') /\ offsets' = LayOut(insts')
      BY <1>1, <1>2, <3>1, ShrunkSelf
    <3>3. \A k \in 1 .. Len(insts') : ~(k < 1)
      BY <1>1, <1>2
    <3> QED BY <3>1, <3>2, <3>3 DEF RoundInv
  <2> QED BY <2>1, <2>2
<1> QED BY <1>3, <1>4, <1>5, <1>6 DEF IInv

\* A jump that fits in the offsets of the round reaches in the smaller
\* function that there is by now, and so do those that were shrunk before.
LEMMA VisitStep == IInv /\ Visit => IInv'
<1> SUFFICES ASSUME IInv, Visit PROVE IInv'
  OBVIOUS
<1>1. /\ phase = "jumps" /\ phase' = "jumps" /\ pos \in 1 .. Len(insts) /\ pos' = pos + 1
      /\ UNCHANGED <<input, offsets, done, dryRun>> /\ ~done
      /\ Types /\ Origin
  BY DEF Visit, IInv, DoneInv
<1>2. /\ insts \in Seq(Instruction) /\ Len(insts) = Len(input) /\ Len(input) \in Nat
      /\ DOMAIN insts = 1 .. Len(input) /\ pos \in 1 .. Len(input)
      /\ \A k \in 1 .. Len(input) : /\ insts[k] \in Instruction /\ input[k] \in Instruction
                                    /\ WellFormed(input[k])
                                    /\ input[k].target \in 0 .. Len(input)
                                    /\ insts[k].target = input[k].target
                                    /\ CameFrom(input[k], insts[k])
  BY <1>1, InputFacts DEF Types, Origin
<1>3. PICK s : Shrunk(s, insts) /\ offsets = LayOut(s)
  BY <1>1, <1>2 DEF IInv, RoundInv
<1>4. round' \in Nat /\ (Fits(pos) => round' # 0) /\ (~Fits(pos) => round' = round)
  BY <1>1 DEF Visit, Types
<1>5. DoneInv' /\ NoFurtherFits'
  BY <1>1 DEF DoneInv, NoFurtherFits
<1>6. CASE insts' = insts
  <2>1. Types'
    BY <1>1, <1>2, <1>4, <1>6 DEF Types
  <2>2. Origin' /\ CompressedInReach'
    BY <1>1, <1>6 DEF IInv, Origin, CompressedInReach, Local
  <2>3. RoundInv'
    <3>1. ASSUME round' = 0
          PROVE  /\ offsets' = LayOut(insts')
                 /\ \A k \in 1 .. Len(insts') : k < pos' => ~Fits(k)'
      <4>1. ~Fits(pos) /\ round = 0
        BY <1>4, <3>1
      <4>2. offsets = LayOut(insts) /\ \A k \in 1 .. Len(insts) : k < pos => ~Fits(k)
        BY <1>1, <1>2, <4>1 DEF IInv, RoundInv
      <4>3. \A k \in 1 .. Len(insts) : k < pos + 1 => ~Fits(k)
        <5>1. \A k \in 1 .. Len(insts) : k < pos + 1 => k < pos \/ k = pos
          BY <1>2
        <5> QED BY <4>1, <4>2, <5>1
      <4>4. \A k \in 1 .. Len(insts) : Fits(k)' <=> Fits(k)
        BY <1>1, <1>6 DEF Fits
      <4> QED BY <1>1, <1>6, <4>2, <4>3, <4>4
    <3>2. Shrunk(s, insts') /\ offsets' = LayOut(s)
      BY <1>1, <1>3, <1>6
    <3> QED BY <3>1, <3>2 DEF RoundInv
  <2> QED BY <1>5, <2>1, <2>2, <2>3 DEF IInv
<1>7. CASE Fits(pos) /\ insts' = [insts EXCEPT ![pos] = C_J(@)]
  <2> DEFINE x == C_J(insts[pos])
  <2>0. IsJump(insts[pos]) /\ insts[pos] = input[pos]
    BY <1>2, <1>7, JumpsOld DEF Fits
  <2>1. /\ x \in Instruction /\ x.size = 2 /\ x.target = input[pos].target
        /\ CameFrom(input[pos], x)
    BY <1>2, <2>0, JumpKept DEF CameFrom
  <2>2. insts' = [insts EXCEPT ![pos] = x]
    BY <1>7
  <2> HIDE DEF x
  <2>3. /\ insts' \in Seq(Instruction) /\ Len(insts') = Len(input) /\ insts'[pos] = x
        /\ \A k \in 1 .. Len(input) : k # pos => insts'[k] = insts[k]
        /\ Shrunk(insts, insts')
    BY <1>2, <2>1, <2>2, Replacement
  <2>4. Types'
    BY <1>1, <1>2, <1>4, <2>3 DEF Types
  <2>5. Origin'
    BY <1>1, <1>2, <2>1, <2>3 DEF Origin
  <2>6. Shrunk(s, insts')
    BY <1>3, <2>3, ShrunkAgain
  <2>7. RoundInv'
    BY <1>1, <1>3, <1>4, <1>7, <2>6 DEF RoundInv
  <2>8. CompressedInReach'
    <3> SUFFICES ASSUME NEW i \in 1 .. Len(input), insts'[i].target # 0, insts'[i].op = "C_J"
                 PROVE  isCJOffset(LayOut(insts')[insts'[i].target] - LayOut(insts')[i])
      <4>1. DOMAIN insts' = 1 .. Len(input)
        BY <2>3
      <4> QED BY <4>1 DEF CompressedInReach, Local
    <3>1. insts'[i].target = input[i].target /\ insts[i].target = input[i].target
      BY <1>2, <2>1, <2>3
    <3>2. insts[i].target \in 1 .. Len(input)
      BY <1>2, <3>1
    <3>3. CASE i = pos
      <4>1. isCJOffset(LayOut(s)[insts[i].target] - LayOut(s)[i])
        BY <1>3, <1>7, <3>3 DEF Fits
      <4>2. Len(s) = Len(input)
        BY <1>2, <1>3 DEF Shrunk
      <4> QED BY <2>6, <3>1, <3>2, <4>1, <4>2, ReachKept
    <3>4. CASE i # pos
      <4>1. isCJOffset(LayOut(insts)[insts[i].target] - LayOut(insts)[i])
        BY <1>2, <2>3, <3>4 DEF IInv, CompressedInReach, Local
      <4> QED BY <1>2, <2>3, <3>1, <3>2, <4>1, ReachKept
    <3> QED BY <3>3, <3>4
  <2> QED BY <1>5, <2>4, <2>5, <2>7, <2>8 DEF IInv
<1> QED BY <1>6, <1>7 DEF Visit

\* A round without a change has looked at every jump, in the final offsets.
LEMMA EndStep == IInv /\ EndRound => IInv'
<1> SUFFICES ASSUME IInv, EndRound PROVE IInv'
  OBVIOUS
<1>1. /\ phase = "jumps" /\ phase' = "jumps" /\ pos = Len(insts) + 1 /\ pos' = 0
      /\ UNCHANGED <<input, insts, offsets, round, dryRun>>
      /\ done' = (dryRun \/ round = 0)
      /\ Types /\ Origin
  BY DEF EndRound, IInv
<1>2. /\ insts \in Seq(Instruction) /\ Len(insts) \in Nat /\ DOMAIN insts = 1 .. Len(insts)
      /\ dryRun \in BOOLEAN
  BY <1>1 DEF Types
<1>3. Types' /\ Origin' /\ RoundInv' /\ DoneInv'
  BY <1>1, <1>2 DEF Types, Origin, RoundInv, DoneInv
<1>4. CompressedInReach'
  BY <1>1 DEF IInv, CompressedInReach, Local
<1>5. NoFurtherFits'
  <2> SUFFICES ASSUME round = 0, ~dryRun,
                      NEW i \in 1 .. Len(insts), insts[i].target # 0, IsJump(insts[i])
               PROVE  ~isCJOffset(LayOut(insts)[insts[i].target] - LayOut(insts)[i])
    BY <1>1, <1>2 DEF NoFurtherFits, Local
  <2>1. offsets = LayOut(insts) /\ ~Fits(i)
    BY <1>1, <1>2 DEF IInv, RoundInv
  <2> QED BY <2>1 DEF Fits
<1> QED BY <1>3, <1>4, <1>5 DEF IInv

(***************************************************************************)
(* IInv is an invariant of the pass, for every function and every reach.   *)
(***************************************************************************)
THEOREM IInvHolds == Spec => []IInv
<1>1. IInv /\ [Next]_vars => IInv'
  <2> SUFFICES ASSUME IInv, [Next]_vars PROVE IInv'
    OBVIOUS
  <2>1. CASE CompressSingle
    BY <2>1, SingleStep
  <2>2. CASE StartJumps \/ StartRound
    BY <2>2, StartSteps
  <2>3. CASE Visit
    BY <2>3, VisitStep
  <2>4. CASE EndRound
    BY <2>4, EndStep
  <2>5. CASE UNCHANGED vars
    BY <2>5 DEF vars, IInv, Types, Origin, RoundInv, DoneInv, CompressedInReach,
       NoFurtherFits, Local, Fits
  <2> QED BY <2>1, <2>2, <2>3, <2>4, <2>5 DEF Next, Done
<1> QED BY InitIInv, <1>1, PTL DEF Spec

(***************************************************************************)
(* Every C.J reaches its block, also after all later shrinking: offsets    *)
(* that are stale within a round are only too large.                       *)
(***************************************************************************)
THEOREM JumpsReach == Spec => []CompressedInReach
BY IInvHolds, PTL DEF IInv

(***************************************************************************)
(* When the rounds end no JAL is left that a C.J could replace.            *)
(***************************************************************************)
THEOREM NoneLeft == Spec => []NoFurtherFits
BY IInvHolds, PTL DEF IInv

(***************************************************************************)
(* compressInst: the 16-bit encoding of every form the pass puts in place  *)
(* of an instruction executes that instruction, for all registers and      *)
(* immediates.                                                             *)
(***************************************************************************)
THEOREM FormsRight == Spec => []FormsExecuteSame
<1>1. IInv => FormsExecuteSame
  <2> SUFFICES ASSUME IInv, NEW i \in RVCForms
               PROVE  Effect(Expand(insts[i])) = Effect(input[i])
    BY DEF FormsExecuteSame
  <2>1. i \in 1 .. Len(input) /\ insts[i].op # input[i].op /\ insts[i].op # "C_J"
    BY InputFacts DEF RVCForms, IInv
  <2>2. input[i] \in Instruction /\ WellFormed(input[i]) /\ CameFrom(input[i], insts[i])
    BY <2>1, InputFacts DEF IInv, Origin
  <2>3. C_J(input[i]).op = "C_J"
    BY <2>2, JumpKept
  <2>4. compressInst(input[i]) # <<>> /\ insts[i] = Compressed(input[i])
    BY <2>1, <2>2, <2>3 DEF CameFrom
  <2> QED BY <2>2, <2>4, FormKept
<1> QED BY <1>1, IInvHolds, PTL
=============================================================================
