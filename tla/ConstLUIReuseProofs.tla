------------------------ MODULE ConstLUIReuseProofs ------------------------
(***************************************************************************)
(* Proofs about the reuse of constants for every block that Tame admits:   *)
(* the map of known values is true, and the block computes what it did.    *)
(***************************************************************************)
EXTENDS ConstLUIReuse, WellFoundedInduction, SequenceTheorems, TLAPS

\* A set of natural numbers that is not empty has a least element.
LEMMA LeastNat ==
    ASSUME NEW S \in SUBSET Nat, S # {}
    PROVE  \E m \in S : \A k \in S : m <= k
<1> DEFINE R == OpToRel(<, Nat)
<1>1. PICK m \in S : \A k \in S : ~ (<<k, m>> \in R)
  <2>1. IsWellFoundedOn(R, Nat)
    BY NatLessThanWellFounded
  <2> HIDE DEF R
  <2> QED BY <2>1, WFMin
<1>2. \A k \in S : k < m => <<k, m>> \in R
  BY DEF OpToRel
<1> HIDE DEF R
<1>3. \A k \in S : ~ (k < m)
  BY <1>1, <1>2
<1>4. \A k \in S : k \in Nat
  OBVIOUS
<1> QED BY <1>3, <1>4

(***************************************************************************)
(* What a block computes, by its recursion equation.                       *)
(***************************************************************************)
\* The states a block goes through, from the initial one on.
StatesOf(c) ==
    CHOOSE f : f = [k \in 0 .. Len(c) |->
                       IF k = 0 THEN InitState ELSE Step(f[k - 1], c[k])]

\* The recursion has a solution, for the first m instructions and then all.
LEMMA StatesExist ==
    ASSUME NEW c, NEW n \in Nat
    PROVE  \E f : f = [k \in 0 .. n |-> IF k = 0 THEN InitState ELSE Step(f[k - 1], c[k])]
<1> DEFINE row(f, k) == IF k = 0 THEN InitState ELSE Step(f[k - 1], c[k])
           Sol(f, m) == f = [k \in 0 .. m |-> row(f, k)]
           Bad == {m \in 0 .. n : ~ \E f : Sol(f, m)}
<1>1. Bad = {}
  <2> SUFFICES ASSUME Bad # {} PROVE FALSE
    OBVIOUS
  <2>1. PICK m \in Bad : \A k \in Bad : m <= k
    <3>1. Bad \in SUBSET Nat
      OBVIOUS
    <3> HIDE DEF Bad
    <3> QED BY <3>1, LeastNat
  <2>2. m \in 0 .. n
    OBVIOUS
  <2>3. CASE m = 0
    <3> DEFINE f == [k \in 0 .. 0 |-> InitState]
    <3>1. \A k \in 0 .. 0 : row(f, k) = InitState
      OBVIOUS
    <3>2. Sol(f, 0)
      <4> HIDE DEF row
      <4> QED BY <3>1
    <3> HIDE DEF Sol, f
    <3> QED BY <2>1, <2>3, <3>2
  <2>4. CASE m # 0
    <3>1. m \in Nat /\ m - 1 \in 0 .. n /\ ~ (m <= m - 1)
      BY <2>2, <2>4
    <3>2. m - 1 \notin Bad
      <4> HIDE DEF Bad
      <4> QED BY <2>1, <3>1
    <3>3. PICK f : Sol(f, m - 1)
      <4> HIDE DEF Sol
      <4> QED BY <3>1, <3>2
    <3> DEFINE g == [k \in 0 .. m |-> IF k = m THEN row(f, m) ELSE f[k]]
    <3>4. \A k \in 0 .. m : g[k] = row(g, k)
      <4> TAKE k \in 0 .. m
      <4>1. CASE k = 0
        <5>1. k # m /\ k \in 0 .. m - 1
          BY <2>4, <3>1, <4>1
        <5>2. f[k] = row(f, k)
          <6> HIDE DEF row
          <6> QED BY <3>3, <5>1
        <5> QED BY <4>1, <5>1, <5>2
      <4>2. CASE k # 0
        <5>1. k - 1 \in 0 .. m /\ k - 1 # m /\ g[k - 1] = f[k - 1]
          BY <3>1, <4>2
        <5>2. row(g, k) = row(f, k)
          BY <4>2, <5>1, Zenon
        <5>3. CASE k = m
          BY <5>2, <5>3
        <5>4. CASE k # m
          <6>1. k \in 0 .. m - 1
            BY <3>1, <5>4
          <6>2. f[k] = row(f, k)
            <7> HIDE DEF row
            <7> QED BY <3>3, <6>1
          <6> QED BY <5>2, <5>4, <6>2
        <5> QED BY <5>3, <5>4
      <4> QED BY <4>1, <4>2
    <3>5. g = [k \in 0 .. m |-> g[k]]
      OBVIOUS
    <3>6. Sol(g, m)
      <4> HIDE DEF g, row
      <4> QED BY <3>4, <3>5
    <3> HIDE DEF Sol, g
    <3> QED BY <2>1, <3>6
  <2> QED BY <2>3, <2>4
<1>2. n \in 0 .. n
  OBVIOUS
<1>3. \E f : Sol(f, n)
  <2> HIDE DEF Sol
  <2> QED BY <1>1, <1>2
<1> QED BY <1>3

\* The states of a block start initially and follow its instructions.
LEMMA RunRec ==
    ASSUME NEW c, Len(c) \in Nat
    PROVE  /\ Run(c) = StatesOf(c)[Len(c)]
           /\ StatesOf(c)[0] = InitState
           /\ \A k \in 1 .. Len(c) : StatesOf(c)[k] = Step(StatesOf(c)[k - 1], c[k])
<1> DEFINE n == Len(c)
           row(f, k) == IF k = 0 THEN InitState ELSE Step(f[k - 1], c[k])
           Sol(f) == f = [k \in 0 .. n |-> row(f, k)]
           X == StatesOf(c)
<1>1. Run(c) = X[n]
  BY Zenon DEF Run, StatesOf
<1>2. X = CHOOSE f : Sol(f)
  BY Zenon DEF StatesOf
<1>3. \E f : Sol(f)
  BY StatesExist, Zenon
<1>4. Sol(X)
  <2> HIDE DEF Sol, X
  <2> QED BY <1>2, <1>3, Zenon
<1>5. \A k \in 0 .. n : X[k] = row(X, k)
  <2> HIDE DEF row, X, n
  <2> QED BY <1>4, Zenon
<1>6. n \in Nat /\ \A k \in 1 .. n : k \in 0 .. n /\ k # 0
  OBVIOUS
<1>7. X[0] = InitState
  <2>1. 0 \in 0 .. n
    BY <1>6
  <2>2. X[0] = row(X, 0)
    BY <1>5, <2>1, Zenon
  <2> QED BY <2>2, Zenon
<1>8. \A k \in 1 .. n : X[k] = Step(X[k - 1], c[k])
  <2> HIDE DEF X, n
  <2> QED BY <1>5, <1>6, Zenon
<1> QED BY <1>1, <1>7, <1>8

\* Behind p in c and behind q in d there are n instructions, the same ones.
SameCode(c, p, d, q, n) ==
    /\ Len(c) \in Nat /\ Len(d) \in Nat /\ p \in Nat /\ q \in Nat /\ n \in Nat
    /\ p + n <= Len(c) /\ q + n <= Len(d)
    /\ \A j \in 1 .. n : c[p + j] = d[q + j]

\* Two blocks that are in the same state and have the same instructions from
\* there on stay in the same states.
LEMMA Follow ==
    ASSUME NEW c, NEW d, NEW p, NEW q, NEW n, SameCode(c, p, d, q, n),
           StatesOf(c)[p] = StatesOf(d)[q]
    PROVE  \A j \in 0 .. n : StatesOf(c)[p + j] = StatesOf(d)[q + j]
<1> DEFINE Bad == {j \in 0 .. n : StatesOf(c)[p + j] # StatesOf(d)[q + j]}
<1> SUFFICES ASSUME Bad # {} PROVE FALSE
  OBVIOUS
<1> USE DEF SameCode
<1>1. PICK m \in Bad : \A k \in Bad : m <= k
  <2>1. Bad \in SUBSET Nat
    OBVIOUS
  <2> HIDE DEF Bad
  <2> QED BY <2>1, LeastNat
<1>2. m \in 0 .. n /\ StatesOf(c)[p + m] # StatesOf(d)[q + m]
  OBVIOUS
<1>3. m # 0
  <2>1. m = 0 => p + m = p /\ q + m = q
    OBVIOUS
  <2> QED BY <1>2, <2>1
<1>4. m - 1 \in 0 .. n /\ ~ (m <= m - 1) /\ m \in 1 .. n
  BY <1>2, <1>3
<1>5. StatesOf(c)[p + (m - 1)] = StatesOf(d)[q + (m - 1)]
  <2>1. m - 1 \notin Bad
    <3> HIDE DEF Bad
    <3> QED BY <1>1, <1>4
  <2> QED BY <1>4, <2>1
<1>6. /\ p + m \in 1 .. Len(c) /\ (p + m) - 1 = p + (m - 1)
      /\ q + m \in 1 .. Len(d) /\ (q + m) - 1 = q + (m - 1)
  BY <1>4
<1>7. StatesOf(c)[p + m] = Step(StatesOf(c)[(p + m) - 1], c[p + m])
  BY <1>6, RunRec
<1>8. StatesOf(d)[q + m] = Step(StatesOf(d)[(q + m) - 1], d[q + m])
  BY <1>6, RunRec
<1>9. c[p + m] = d[q + m]
  BY <1>4
<1> QED BY <1>2, <1>5, <1>6, <1>7, <1>8, <1>9, Zenon

\* The first instructions of a block bring it to one of its states.
LEMMA RunPrefix ==
    ASSUME NEW S, NEW c \in Seq(S), NEW n \in 0 .. Len(c)
    PROVE  Run(SubSeq(c, 1, n)) = StatesOf(c)[n]
<1> DEFINE d == SubSeq(c, 1, n)
<1>1. Len(d) = n /\ \A j \in 1 .. n : d[j] = c[j]
  OBVIOUS
<1> HIDE DEF d
<1>2. StatesOf(d)[0] = StatesOf(c)[0] /\ Run(d) = StatesOf(d)[n]
  BY <1>1, RunRec
<1>3. SameCode(d, 0, c, 0, n)
  BY <1>1 DEF SameCode
<1>4. \A j \in 0 .. n : StatesOf(d)[0 + j] = StatesOf(c)[0 + j]
  BY <1>2, <1>3, Follow
<1>5. n \in 0 .. n /\ 0 + n = n
  OBVIOUS
<1> QED BY <1>2, <1>4, <1>5 DEF d

(***************************************************************************)
(* States that differ in one register at most.                             *)
(***************************************************************************)
\* A state of the machine: a value for each register, and x0 is zero.
IsState(m) ==
    /\ m = [regs |-> m.regs, mem |-> m.mem, obs |-> m.obs]
    /\ m.regs = [q \in Reg |-> m.regs[q]]
    /\ m.regs[0] = Abs(0)

\* Two states that differ in register r at most.
Alike(m, k, r) ==
    /\ IsState(m) /\ IsState(k) /\ m.mem = k.mem /\ m.obs = k.obs
    /\ \A q \in Reg : q # r => m.regs[q] = k.regs[q]

\* States that differ nowhere are the same.
LEMMA AlikeEqual ==
    ASSUME NEW m, NEW k, NEW r, Alike(m, k, r), m.regs[r] = k.regs[r]
    PROVE  m = k
<1>1. \A q \in Reg : m.regs[q] = k.regs[q]
  BY DEF Alike
<1>2. [q \in Reg |-> m.regs[q]] = [q \in Reg |-> k.regs[q]]
  BY <1>1
<1>3. m.regs = k.regs
  BY <1>2, Zenon DEF Alike, IsState
<1> QED BY <1>3, Zenon DEF Alike, IsState

\* What SetReg changes.
LEMMA SetRegIs ==
    ASSUME NEW m, IsState(m), NEW r, NEW v
    PROVE  /\ IsState(SetReg(m, r, v))
           /\ SetReg(m, r, v).mem = m.mem /\ SetReg(m, r, v).obs = m.obs
           /\ \A q \in Reg : SetReg(m, r, v).regs[q] = IF q = r /\ r # 0 THEN v ELSE m.regs[q]
<1>1. CASE r = 0
  <2>1. SetReg(m, r, v) = m
    BY <1>1 DEF SetReg
  <2> QED BY <1>1, <2>1
<1>2. CASE r # 0
  <2> DEFINE s == [q \in Reg |-> m.regs[q]]
             t == [s EXCEPT ![r] = v]
  <2>1. SetReg(m, r, v) = [m EXCEPT !.regs = [m.regs EXCEPT ![r] = v]]
    BY <1>2, Zenon DEF SetReg
  <2>2. m = [regs |-> s, mem |-> m.mem, obs |-> m.obs] /\ m.regs = s
    BY Zenon DEF IsState
  <2>3. t = [q \in Reg |-> t[q]] /\ \A q \in Reg : t[q] = IF q = r THEN v ELSE m.regs[q]
    BY <2>2
  <2>4. 0 \in Reg
    BY MachineAssumption
  <2>5. t[0] = Abs(0)
    BY <1>2, <2>3, <2>4 DEF IsState
  <2> HIDE DEF t
  <2>6. [m EXCEPT !.regs = t] = [regs |-> t, mem |-> m.mem, obs |-> m.obs]
    <3> HIDE DEF s
    <3> QED BY <2>2
  <2>7. SetReg(m, r, v) = [regs |-> t, mem |-> m.mem, obs |-> m.obs]
    BY <2>1, <2>2, <2>6, Zenon DEF t
  <2> HIDE DEF s
  <2>8. SetReg(m, r, v).regs = t
    BY <2>7
  <2>9. SetReg(m, r, v).mem = m.mem /\ SetReg(m, r, v).obs = m.obs
    BY <2>7
  <2>10. IsState(SetReg(m, r, v))
    BY <2>3, <2>5, <2>7, <2>8, <2>9, Zenon DEF IsState
  <2> QED BY <1>2, <2>3, <2>8, <2>9, <2>10
<1> QED BY <1>1, <1>2

\* The same value for the same register.
LEMMA SetRegAlike ==
    ASSUME NEW m, NEW k, NEW r, NEW d, NEW v, Alike(m, k, r)
    PROVE  /\ Alike(SetReg(m, d, v), SetReg(k, d, v), r)
           /\ d = r /\ r \in Reg \ {0} => SetReg(m, d, v) = SetReg(k, d, v)
<1>1. IsState(m) /\ IsState(k)
  BY DEF Alike
<1>2. /\ IsState(SetReg(m, d, v))
      /\ SetReg(m, d, v).mem = m.mem /\ SetReg(m, d, v).obs = m.obs
      /\ \A q \in Reg : SetReg(m, d, v).regs[q] = IF q = d /\ d # 0 THEN v ELSE m.regs[q]
  BY <1>1, SetRegIs
<1>3. /\ IsState(SetReg(k, d, v))
      /\ SetReg(k, d, v).mem = k.mem /\ SetReg(k, d, v).obs = k.obs
      /\ \A q \in Reg : SetReg(k, d, v).regs[q] = IF q = d /\ d # 0 THEN v ELSE k.regs[q]
  BY <1>1, SetRegIs
<1>4. Alike(SetReg(m, d, v), SetReg(k, d, v), r)
  BY <1>2, <1>3 DEF Alike
<1>5. ASSUME d = r, r \in Reg \ {0} PROVE SetReg(m, d, v) = SetReg(k, d, v)
  <2>1. SetReg(m, d, v).regs[r] = SetReg(k, d, v).regs[r]
    BY <1>2, <1>3, <1>5
  <2> QED BY <1>4, <2>1, AlikeEqual
<1> QED BY <1>4, <1>5

\* What a load reads.
LEMMA LoadAlike ==
    ASSUME NEW m, NEW k, m.mem = k.mem, m.obs = k.obs, NEW v, NEW n
    PROVE  Load(m, v, n) = Load(k, v, n)
<1> DEFINE o == Offset(v)
           bs(s) == [j \in 0 .. (n - 1) |-> Byte(s, o + j)]
           value(s, b) ==
              CASE ~InFrame(v) -> IF n = 4 /\ JustStored(s, v) THEN s.obs[Len(s.obs)][4]
                                  ELSE <<"load", v, n, Len(s.obs), s.mem>>
                [] InFrame(v) /\ n = 4 /\ \A j \in 0 .. 3 : b[j] = ByteOf(b[0][2], j)
                      -> b[0][2]
                [] OTHER -> <<"bytes", b>>
<1>1. \A a : Byte(m, a) = Byte(k, a)
  BY DEF Byte
<1>2. bs(m) = bs(k)
  BY <1>1
<1>3. JustStored(m, v) = JustStored(k, v)
  BY DEF JustStored
<1>4. Load(m, v, n) = value(m, bs(m)) /\ Load(k, v, n) = value(k, bs(k))
  BY Zenon DEF Load
<1> HIDE DEF bs
<1>5. value(m, bs(k)) = value(k, bs(k))
  BY <1>3, Zenon
<1> QED BY <1>2, <1>4, <1>5, Zenon

\* A visible store replaces two components of a state.
LEMMA TwoFields ==
    ASSUME NEW m, NEW x, NEW y, IsState(m)
    PROVE  [m EXCEPT !.obs = y, !.mem = x] = [regs |-> m.regs, mem |-> x, obs |-> y]
<1> DEFINE a == m.regs
           b == m.mem
           c == m.obs
<1>1. m = [regs |-> a, mem |-> b, obs |-> c]
  BY DEF IsState
<1> HIDE DEF a, b, c
<1>2. [m EXCEPT !.obs = y, !.mem = x]
         = [f \in {"regs", "mem", "obs"} |->
              IF f = "mem" THEN x ELSE IF f = "obs" THEN y ELSE m[f]]
  BY <1>1, Zenon
<1>3. [m EXCEPT !.obs = y, !.mem = x] = [regs |-> a, mem |-> x, obs |-> y]
  BY <1>1, <1>2
<1> QED BY <1>3 DEF a

\* What a store does.
LEMMA StoreAlike ==
    ASSUME NEW m, NEW k, NEW r, NEW v, NEW n, NEW w, Alike(m, k, r)
    PROVE  Alike(Store(m, v, n, w), Store(k, v, n, w), r)
<1> DEFINE in(s) == [a \in DOMAIN s.mem \cup Offset(v) .. (Offset(v) + n - 1) |->
                        IF a \in Offset(v) .. (Offset(v) + n - 1)
                        THEN ByteOf(w, a - Offset(v)) ELSE s.mem[a]]
           out(s) == Append(s.obs, <<"store", v, n, w, s.mem>>)
           none == [a \in {} |-> 0]
<1>1. /\ Store(m, v, n, w) = IF InFrame(v) THEN [m EXCEPT !.mem = in(m)]
                             ELSE [m EXCEPT !.obs = out(m), !.mem = none]
      /\ Store(k, v, n, w) = IF InFrame(v) THEN [k EXCEPT !.mem = in(k)]
                             ELSE [k EXCEPT !.obs = out(k), !.mem = none]
  BY Zenon DEF Store
<1>2. in(m) = in(k) /\ out(m) = out(k)
  BY Zenon DEF Alike
<1> HIDE DEF in, out, none
<1>3. /\ m = [regs |-> m.regs, mem |-> m.mem, obs |-> m.obs]
      /\ k = [regs |-> k.regs, mem |-> k.mem, obs |-> k.obs]
  BY DEF Alike, IsState
<1>4. \E x, y : /\ Store(m, v, n, w) = [regs |-> m.regs, mem |-> x, obs |-> y]
                /\ Store(k, v, n, w) = [regs |-> k.regs, mem |-> x, obs |-> y]
  <2>1. CASE InFrame(v)
    <3>1. [m EXCEPT !.mem = in(m)] = [regs |-> m.regs, mem |-> in(m), obs |-> m.obs]
      BY <1>3
    <3>2. [k EXCEPT !.mem = in(k)] = [regs |-> k.regs, mem |-> in(k), obs |-> k.obs]
      BY <1>3
    <3>3. m.obs = k.obs
      BY DEF Alike
    <3> QED BY <1>1, <1>2, <2>1, <3>1, <3>2, <3>3, Zenon
  <2>2. CASE ~InFrame(v)
    <3>1. [m EXCEPT !.obs = out(m), !.mem = none]
             = [regs |-> m.regs, mem |-> none, obs |-> out(m)]
      BY TwoFields DEF Alike
    <3>2. [k EXCEPT !.obs = out(k), !.mem = none]
             = [regs |-> k.regs, mem |-> none, obs |-> out(k)]
      BY TwoFields DEF Alike
    <3> QED BY <1>1, <1>2, <2>2, <3>1, <3>2, Zenon
  <2> QED BY <2>1, <2>2
<1>5. PICK x, y : /\ Store(m, v, n, w) = [regs |-> m.regs, mem |-> x, obs |-> y]
                  /\ Store(k, v, n, w) = [regs |-> k.regs, mem |-> x, obs |-> y]
  BY <1>4
<1>6. /\ Store(m, v, n, w).regs = m.regs /\ Store(k, v, n, w).regs = k.regs
      /\ Store(m, v, n, w).mem = x /\ Store(k, v, n, w).mem = x
      /\ Store(m, v, n, w).obs = y /\ Store(k, v, n, w).obs = y
  BY <1>5
<1> QED BY <1>5, <1>6 DEF Alike, IsState

\* What a call does, when the register is neither an argument nor the callee.
LEMMA CallAlike ==
    ASSUME NEW m, NEW k, NEW r, NEW i, r \notin ArgReg, Alike(m, k, r),
           Callee(m, i) = Callee(k, i)
    PROVE  /\ Alike(Call(m, i), Call(k, i), r)
           /\ r \in Defs(i) /\ r \in Reg \ {0} => Call(m, i) = Call(k, i)
<1> DEFINE left(s) == [q \in Reg |-> IF q \in Lost(i)
                                     THEN <<"ret", q, Len(s.obs)>> ELSE s.regs[q]]
           args(s) == [q \in ArgReg |-> s.regs[q]]
           seen(s) == Append(s.obs, <<"call", Callee(s, i), args(s), s.mem>>)
           none == [a \in {} |-> 0]
<1>1. /\ Call(m, i) = [regs |-> left(m), mem |-> none, obs |-> seen(m)]
      /\ Call(k, i) = [regs |-> left(k), mem |-> none, obs |-> seen(k)]
  BY Zenon DEF Call
<1>2. ArgReg \subseteq Reg /\ 0 \in Reg /\ 0 \notin Lost(i)
  BY MachineAssumption DEF Lost
<1>3. args(m) = args(k)
  <2>1. \A q \in ArgReg : q \in Reg /\ q # r
    BY <1>2
  <2>2. \A q \in ArgReg : m.regs[q] = k.regs[q]
    BY <2>1, Zenon DEF Alike
  <2> QED BY <2>2
<1>4. seen(m) = seen(k)
  <2>1. m.obs = k.obs /\ m.mem = k.mem /\ Callee(m, i) = Callee(k, i)
    BY DEF Alike
  <2> HIDE DEF args
  <2> QED BY <1>3, <2>1, Zenon
<1>5. \A q \in Reg : q # r \/ r \in Lost(i) => left(m)[q] = left(k)[q]
  <2>1. Len(m.obs) = Len(k.obs)
    BY DEF Alike
  <2>2. \A q \in Reg : left(m)[q] = IF q \in Lost(i) THEN <<"ret", q, Len(m.obs)>> ELSE m.regs[q]
    OBVIOUS
  <2>3. \A q \in Reg : left(k)[q] = IF q \in Lost(i) THEN <<"ret", q, Len(k.obs)>> ELSE k.regs[q]
    OBVIOUS
  <2>4. \A q \in Reg : q # r => m.regs[q] = k.regs[q]
    BY DEF Alike
  <2> HIDE DEF left
  <2> QED BY <2>1, <2>2, <2>3, <2>4, Zenon
<1>6. /\ left(m) = [q \in Reg |-> left(m)[q]] /\ left(m)[0] = Abs(0)
      /\ left(k) = [q \in Reg |-> left(k)[q]] /\ left(k)[0] = Abs(0)
  <2>1. m.regs[0] = Abs(0) /\ k.regs[0] = Abs(0)
    BY DEF Alike, IsState
  <2> QED BY <1>2, <2>1
<1> HIDE DEF left, seen, none
<1>7. /\ Call(m, i).regs = left(m) /\ Call(k, i).regs = left(k)
      /\ Call(m, i).mem = none /\ Call(k, i).mem = none
      /\ Call(m, i).obs = seen(m) /\ Call(k, i).obs = seen(k)
  BY <1>1
<1>8. Alike(Call(m, i), Call(k, i), r)
  BY <1>1, <1>4, <1>5, <1>6, <1>7 DEF Alike, IsState
<1>9. ASSUME r \in Defs(i), r \in Reg \ {0} PROVE Call(m, i) = Call(k, i)
  <2>1. r \in Lost(i)
    BY <1>9 DEF Lost
  <2>2. Call(m, i).regs[r] = Call(k, i).regs[r]
    BY <1>5, <1>7, <1>9, <2>1
  <2> QED BY <1>8, <2>2, AlikeEqual
<1> QED BY <1>8, <1>9

\* The instruction has the result r.
Redefines(i, r) == r \in Defs(i) /\ r \in Reg \ {0}

\* An instruction that does not read the register leaves the states alike, and
\* makes them the same if it defines the register.
LEMMA StepAlike ==
    ASSUME NEW m, NEW k, NEW r, NEW i \in Instr, Alike(m, k, r),
           r \notin Uses(i), i.op \in Calls => r \notin ArgReg
    PROVE  /\ Alike(Step(m, i), Step(k, i), r)
           /\ Redefines(i, r) => Step(m, i) = Step(k, i)
<1>1. i.rs \in Reg /\ i.rt \in Reg /\ i.op \in Opcode
  BY DEF Instr
<1>2. m.mem = k.mem /\ m.obs = k.obs
  BY DEF Alike
<1>3. \A q \in Reg : q # r => m.regs[q] = k.regs[q]
  BY DEF Alike
<1> DEFINE Goal == /\ Alike(Step(m, i), Step(k, i), r)
                   /\ Redefines(i, r) => Step(m, i) = Step(k, i)
<1>4. ASSUME NEW v, Step(m, i) = SetReg(m, i.rd, v), Step(k, i) = SetReg(k, i.rd, v)
      PROVE  Goal
  <2>1. r \in Defs(i) => i.rd = r
    BY DEF Defs, Redefines
  <2> QED BY <1>4, <2>1, SetRegAlike DEF Redefines
<1>5. CASE i.op \in {"LUI", "C_LUI"}
  BY <1>4, <1>5, Zenon DEF Step, Calls
<1>6. CASE i.op = "ADDI"
  <2>1. m.regs[i.rs] = k.regs[i.rs]
    BY <1>1, <1>3, <1>6 DEF Uses
  <2>2. ASSUME NEW s PROVE Step(s, i) = SetReg(s, i.rd, AddLo(s.regs[i.rs], i))
    BY <1>6 DEF Step, Calls
  <2> QED BY <1>4, <2>1, <2>2, Zenon
<1>7. CASE i.op = "C_LI"
  <2>1. ASSUME NEW s PROVE Step(s, i) = SetReg(s, i.rd, Abs(i.imm))
    BY <1>7 DEF Step, Calls
  <2> QED BY <1>4, <2>1, Zenon
<1>8. CASE i.op = "C_MV"
  <2>1. m.regs[i.rs] = k.regs[i.rs]
    BY <1>1, <1>3, <1>8 DEF Uses
  <2>2. ASSUME NEW s PROVE Step(s, i) = SetReg(s, i.rd, s.regs[i.rs])
    BY <1>8 DEF Step, Calls
  <2> QED BY <1>4, <2>1, <2>2, Zenon
<1>9. CASE i.op \in {"ADD", "SUB"}
  <2>1. m.regs[i.rs] = k.regs[i.rs] /\ m.regs[i.rt] = k.regs[i.rt]
    BY <1>1, <1>3, <1>9 DEF Uses
  <2>2. ASSUME NEW s
        PROVE  Step(s, i) = SetReg(s, i.rd,
                  IF i.op = "ADD" THEN Add(s.regs[i.rs], s.regs[i.rt])
                                  ELSE Sub(s.regs[i.rs], s.regs[i.rt]))
    BY <1>9 DEF Step, Calls
  <2> QED BY <1>4, <2>1, <2>2, Zenon
<1>10. CASE i.op \in {"LW", "C_LW", "LB"}
  <2>1. m.regs[i.rs] = k.regs[i.rs]
    BY <1>1, <1>3, <1>10 DEF Uses
  <2>2. ASSUME NEW s
        PROVE  Step(s, i) = SetReg(s, i.rd, Load(s, AddLo(s.regs[i.rs], i), Size(i.op)))
    BY <1>10 DEF Step, Calls
  <2>3. Load(m, AddLo(m.regs[i.rs], i), Size(i.op)) = Load(k, AddLo(m.regs[i.rs], i), Size(i.op))
    BY <1>2, LoadAlike
  <2> QED BY <1>4, <2>1, <2>2, <2>3, Zenon
<1>11. CASE i.op \in {"SW", "SB"}
  <2>1. m.regs[i.rs] = k.regs[i.rs] /\ m.regs[i.rt] = k.regs[i.rt]
    BY <1>1, <1>3, <1>11 DEF Uses
  <2>2. ASSUME NEW s
        PROVE  Step(s, i) = Store(s, AddLo(s.regs[i.rs], i), Size(i.op), s.regs[i.rt])
    BY <1>11 DEF Step, Calls
  <2>3. \A v, n, w : Alike(Store(m, v, n, w), Store(k, v, n, w), r)
    BY StoreAlike
  <2>4. Alike(Step(m, i), Step(k, i), r)
    BY <2>1, <2>2, <2>3, Zenon
  <2>5. r \notin Defs(i)
    BY <1>11 DEF Defs, Redefines
  <2> QED BY <2>4, <2>5 DEF Redefines
<1>12. CASE i.op \in Calls
  <2>1. Step(m, i) = Call(m, i) /\ Step(k, i) = Call(k, i)
    BY <1>12 DEF Step, Calls
  <2>2. Callee(m, i) = Callee(k, i)
    <3>1. CASE i.op = "JALR"
      <4>1. m.regs[i.rs] = k.regs[i.rs]
        BY <1>1, <1>3, <3>1 DEF Uses
      <4> QED BY <3>1, <4>1 DEF Callee
    <3>2. CASE i.op # "JALR"
      BY <3>2 DEF Callee
    <3> QED BY <3>1, <3>2
  <2>3. Alike(Call(m, i), Call(k, i), r) /\ (Redefines(i, r) => Call(m, i) = Call(k, i))
    BY <1>12, <2>2, CallAlike DEF Redefines
  <2> QED BY <2>1, <2>3, Zenon
<1>13. CASE i.op \in {"BB", "C_JR", "BEQ"}
  <2>1. ASSUME NEW s PROVE Step(s, i) = s
    BY <1>13 DEF Step, Calls
  <2>2. r \notin Defs(i)
    BY <1>13 DEF Defs
  <2>3. Step(m, i) = m /\ Step(k, i) = k
    BY <2>1
  <2>4. ~Redefines(i, r)
    BY <2>2, Zenon DEF Redefines
  <2> QED BY <2>3, <2>4, Zenon
<1>14. \/ i.op \in {"LUI", "C_LUI"} \/ i.op = "ADDI" \/ i.op = "C_LI" \/ i.op = "C_MV"
       \/ i.op \in {"ADD", "SUB"} \/ i.op \in {"LW", "C_LW", "LB"}
       \/ i.op \in {"SW", "SB"} \/ i.op \in Calls \/ i.op \in {"BB", "C_JR", "BEQ"}
  BY <1>1 DEF Opcode, Calls
<1> QED BY <1>5, <1>6, <1>7, <1>8, <1>9, <1>10, <1>11, <1>12, <1>13, <1>14, Zenon

\* Every instruction takes a state to a state, the initial one included.
LEMMA StepState ==
    ASSUME NEW m, IsState(m), NEW i \in Instr
    PROVE  IsState(Step(m, i))
<1> DEFINE r == -1
<1>1. r \notin Reg /\ r \notin ArgReg
  BY MachineAssumption
<1>2. r \notin Uses(i)
  <2>1. i.rs \in Reg /\ i.rt \in Reg
    BY DEF Instr
  <2> QED BY <1>1, <2>1 DEF Uses
<1> HIDE DEF r
<1>3. Alike(m, m, r)
  BY DEF Alike
<1>4. Alike(Step(m, i), Step(m, i), r)
  BY <1>1, <1>2, <1>3, StepAlike
<1> QED BY <1>4 DEF Alike

\* The states of a block are states.
LEMMA StatesAre ==
    ASSUME NEW c \in Seq(Instr)
    PROVE  \A n \in 0 .. Len(c) : IsState(StatesOf(c)[n])
<1> DEFINE Bad == {n \in 0 .. Len(c) : ~IsState(StatesOf(c)[n])}
<1> SUFFICES ASSUME Bad # {} PROVE FALSE
  OBVIOUS
<1>0. Len(c) \in Nat /\ \A n \in 1 .. Len(c) : c[n] \in Instr
  OBVIOUS
<1>1. PICK m \in Bad : \A k \in Bad : m <= k
  <2>1. Bad \in SUBSET Nat
    OBVIOUS
  <2> HIDE DEF Bad
  <2> QED BY <2>1, LeastNat
<1>2. m \in 0 .. Len(c) /\ ~IsState(StatesOf(c)[m])
  OBVIOUS
<1>3. CASE m = 0
  <2>1. StatesOf(c)[0] = InitState
    BY <1>0, RunRec
  <2>2. IsState(InitState)
    <3>1. 0 \in Reg
      BY MachineAssumption
    <3> QED BY <3>1 DEF IsState, InitState
  <2> QED BY <1>2, <1>3, <2>1, <2>2
<1>4. CASE m # 0
  <2>1. m \in 1 .. Len(c) /\ m - 1 \in 0 .. Len(c) /\ ~ (m <= m - 1)
    BY <1>0, <1>2, <1>4
  <2>2. IsState(StatesOf(c)[m - 1])
    <3>1. m - 1 \notin Bad
      <4> HIDE DEF Bad
      <4> QED BY <1>1, <2>1
    <3> QED BY <2>1, <3>1
  <2>3. StatesOf(c)[m] = Step(StatesOf(c)[m - 1], c[m])
    BY <1>0, <2>1, RunRec
  <2>4. IsState(Step(StatesOf(c)[m - 1], c[m]))
    BY <1>0, <2>1, <2>2, StepState
  <2> QED BY <1>2, <2>3, <2>4
<1> QED BY <1>3, <1>4

(***************************************************************************)
(* Words and recorded values.                                              *)
(***************************************************************************)
\* Quotient and remainder.
LEMMA ModIs ==
    ASSUME NEW x \in Int, NEW w \in Nat \ {0}
    PROVE  /\ x % w \in 0 .. (w - 1)
           /\ \E q \in Int : x = w * q + (x % w)
<1> DEFINE q == x \div w
<1>1. q \in Int
  OBVIOUS
<1>2. w \in Int /\ w > 0
  OBVIOUS
<1>3. x % w \in 0 .. (w - 1)
  BY <1>2, Z3
<1>4. x = w * q + (x % w)
  BY <1>2, SMTT(30)
<1> QED BY <1>1, <1>3, <1>4

\* A multiple of w between -w and w is zero.
LEMMA SmallMultiple ==
    ASSUME NEW w \in Nat \ {0}, NEW q \in Int, w * q < w, -w < w * q
    PROVE  q = 0
<1>1. CASE q >= 1
  <2>1. w * q >= w
    BY <1>1, SMTT(30)
  <2> QED BY <2>1
<1>2. CASE q <= -1
  <2>1. w * q <= -w
    BY <1>2, SMTT(30)
  <2> QED BY <2>1
<1> QED BY <1>1, <1>2

\* A word does not see multiples of its range.
LEMMA ModShift ==
    ASSUME NEW w \in Nat \ {0}, NEW x \in Int, NEW y \in Int, NEW q \in Int,
           y = x + w * q
    PROVE  y % w = x % w
<1>1. PICK a \in Int : x = w * a + (x % w)
  BY ModIs
<1>2. PICK b \in Int : y = w * b + (y % w)
  BY ModIs
<1> DEFINE r == x % w
           s == y % w
           A == w * a
           B == w * b
           Q == w * q
<1>3. r \in 0 .. (w - 1) /\ s \in 0 .. (w - 1)
  BY ModIs
<1>4. A \in Int /\ B \in Int /\ Q \in Int
  OBVIOUS
<1>5. w * ((a + q) - b) = (A + Q) - B
  BY SMTT(30)
<1>6. x = A + r /\ y = B + s
  BY <1>1, <1>2, Zenon
<1>11. y = x + Q
  OBVIOUS
<1> HIDE DEF r, s, A, B, Q
<1>7. (A + Q) - B = s - r
  BY <1>3, <1>4, <1>6, <1>11
<1>8. (a + q) - b = 0
  <2> DEFINE k == (a + q) - b
  <2>1. k \in Int /\ w * k = s - r
    BY <1>5, <1>7
  <2> HIDE DEF k
  <2>2. w * k < w /\ -w < w * k
    BY <1>3, <2>1
  <2>3. k = 0
    BY <2>1, <2>2, SmallMultiple
  <2> QED BY <2>3 DEF k
<1>9. w * 0 = 0
  OBVIOUS
<1>10. s = r
  BY <1>3, <1>5, <1>7, <1>8, <1>9
<1> QED BY <1>10 DEF r, s

\* Values that the pass records.
Value == {Unknown} \cup {<<"abs", n>> : n \in 0 .. (Word - 1)}
         \cup {<<"sym", s, a>> : s \in Int, a \in Int}

\* Numbers modulo Word are values.
LEMMA AbsValue == ASSUME NEW n \in Int PROVE Abs(n) \in Value /\ Abs(n) # Unknown
<1>1. n % Word \in 0 .. (Word - 1)
  BY ModIs, MachineAssumption
<1>2. Abs(n) = <<"abs", n % Word>>
  BY DEF Abs
<1>3. <<"abs", n % Word>> # Unknown
  BY DEF Unknown
<1> QED BY <1>1, <1>2, <1>3 DEF Value

\* Adding to a number that was cut to a word.
LEMMA AddAbs ==
    ASSUME NEW a \in Int, NEW n \in Int
    PROVE  AddImm(Abs(a), n) = Abs(a + n)
<1>1. Word \in Nat \ {0}
  BY MachineAssumption
<1> DEFINE r == a % Word
<1>2. PICK q \in Int : a = Word * q + r
  BY <1>1, ModIs
<1>3. r \in Int
  BY <1>1, ModIs
<1> HIDE DEF r
<1> DEFINE Q == Word * q
<1>4. Word * (-q) = -Q /\ Q \in Int
  BY <1>1
<1>5. r + n = (a + n) + Word * (-q)
  <2>1. a = Q + r
    BY <1>2
  <2> HIDE DEF Q
  <2> QED BY <1>3, <1>4, <2>1
<1>6. (r + n) % Word = (a + n) % Word
  <2> DEFINE x == a + n
             y == r + n
             z == -q
  <2>1. x \in Int /\ y \in Int /\ z \in Int
    BY <1>3
  <2>3. y = x + Word * z
    BY <1>5
  <2> HIDE DEF x, y, z
  <2>2. y % Word = x % Word
    BY <1>1, <2>1, <2>3, ModShift
  <2> QED BY <2>2 DEF x, y
<1>7. Abs(a) = <<"abs", r>>
  BY DEF Abs, r
<1>8. AddImm(Abs(a), n) = Abs(r + n)
  BY <1>7 DEF AddImm
<1> QED BY <1>6, <1>8 DEF Abs

\* A register that holds base, with a fixed difference added, holds target.
LEMMA DiffReaches ==
    ASSUME NEW base \in Value, NEW target \in Value, NEW d \in FixedDiffs(base, target)
    PROVE  d \in Int /\ base # Unknown /\ target # Unknown /\ AddImm(base, d) = target
<1>1. CASE base[1] = "abs" /\ target[1] = "abs"
  <2>1. PICK a \in 0 .. (Word - 1) : base = <<"abs", a>>
    BY <1>1 DEF Value, Unknown
  <2>2. PICK t \in 0 .. (Word - 1) : target = <<"abs", t>>
    BY <1>1 DEF Value, Unknown
  <2>3. d = sub32(t, a)
    BY <1>1, <2>1, <2>2 DEF FixedDiffs
  <2> DEFINE h == Word \div 2
             x == (t - a) + h
             u == x % Word
  <2>4. Word \in Nat \ {0} /\ h \in Int
    BY MachineAssumption
  <2>5. d = u - h
    BY <2>3 DEF sub32
  <2> HIDE DEF h
  <2>6. x \in Int /\ u \in Int
    BY <2>4, ModIs
  <2>7. PICK q \in Int : x = Word * q + u
    BY <2>4, <2>6, ModIs
  <2> HIDE DEF u
  <2> DEFINE Q == Word * q
  <2>8. Q \in Int /\ x = Q + u /\ Word * (-q) = -Q
    BY <2>4, <2>7
  <2> HIDE DEF Q
  <2>9. a + d = t - Q /\ d \in Int
    BY <2>4, <2>5, <2>6, <2>8
  <2>10. a + d = t + Word * (-q)
    BY <2>8, <2>9
  <2>11. (a + d) % Word = t % Word
    <3>1. -q \in Int /\ t \in Int /\ a + d \in Int
      BY <2>9
    <3> QED BY <2>4, <2>10, <3>1, ModShift
  <2>12. t % Word = t
    BY <2>4
  <2>13. AddImm(base, d) = Abs(a + d)
    BY <2>1 DEF AddImm
  <2>14. AddImm(base, d) = target
    BY <2>2, <2>11, <2>12, <2>13 DEF Abs
  <2> QED BY <2>1, <2>2, <2>9, <2>14 DEF Unknown
<1>2. CASE base[1] = "sym" /\ target[1] = "sym" /\ base[2] = target[2]
  <2>1. PICK s \in Int, a \in Int : base = <<"sym", s, a>>
    BY <1>2 DEF Value, Unknown
  <2>2. PICK z \in Int, t \in Int : target = <<"sym", z, t>>
    BY <1>2 DEF Value, Unknown
  <2>3. d = t - a /\ s = z
    BY <1>2, <2>1, <2>2 DEF FixedDiffs
  <2>4. AddImm(base, d) = <<"sym", s, a + d>>
    BY <2>1 DEF AddImm
  <2>5. a + d = t
    BY <2>3
  <2> QED BY <2>1, <2>2, <2>3, <2>4, <2>5 DEF Unknown
<1> QED BY <1>1, <1>2 DEF FixedDiffs

(***************************************************************************)
(* Two blocks that part and meet again.                                    *)
(***************************************************************************)
\* Behind p no call reads r as an argument.
Ordinary(c, p, r) ==
    \A k \in DOMAIN c : k > p => (c[k].op \in Calls => r \notin ArgReg)

\* Among the n instructions behind p the first that names r defines it.
DefinedFirst(c, p, n, r) ==
    \E e \in 1 .. n : /\ r \in Defs(c[p + e]) \ Uses(c[p + e])
                      /\ \A j \in 1 .. (e - 1) : r \notin Uses(c[p + j])

\* As long as no instruction reads the register the states stay alike.
LEMMA AlikeAlong ==
    ASSUME NEW c \in Seq(Instr), NEW d \in Seq(Instr), NEW p, NEW q, NEW n, NEW r,
           SameCode(c, p, d, q, n), Alike(StatesOf(c)[p], StatesOf(d)[q], r),
           \A j \in 1 .. n : /\ r \notin Uses(c[p + j])
                             /\ c[p + j].op \in Calls => r \notin ArgReg
    PROVE  \A j \in 0 .. n : Alike(StatesOf(c)[p + j], StatesOf(d)[q + j], r)
<1> DEFINE Bad == {j \in 0 .. n : ~Alike(StatesOf(c)[p + j], StatesOf(d)[q + j], r)}
<1> SUFFICES ASSUME Bad # {} PROVE FALSE
  OBVIOUS
<1>0. /\ Len(c) \in Nat /\ Len(d) \in Nat /\ p \in Nat /\ q \in Nat /\ n \in Nat
      /\ p + n <= Len(c) /\ q + n <= Len(d)
      /\ \A k \in 1 .. Len(c) : c[k] \in Instr
  BY DEF SameCode
<1>1. PICK m \in Bad : \A k \in Bad : m <= k
  <2>1. Bad \in SUBSET Nat
    BY <1>0
  <2> HIDE DEF Bad
  <2> QED BY <2>1, LeastNat
<1>2. m \in 0 .. n /\ ~Alike(StatesOf(c)[p + m], StatesOf(d)[q + m], r)
  OBVIOUS
<1>3. m # 0
  <2>1. m = 0 => p + m = p /\ q + m = q
    BY <1>0
  <2> QED BY <1>2, <2>1
<1>4. m - 1 \in 0 .. n /\ ~ (m <= m - 1) /\ m \in 1 .. n
  BY <1>0, <1>2, <1>3
<1>5. Alike(StatesOf(c)[p + (m - 1)], StatesOf(d)[q + (m - 1)], r)
  <2>1. m - 1 \notin Bad
    <3> HIDE DEF Bad
    <3> QED BY <1>1, <1>4
  <2> QED BY <1>4, <2>1
<1>6. /\ p + m \in 1 .. Len(c) /\ (p + m) - 1 = p + (m - 1)
      /\ q + m \in 1 .. Len(d) /\ (q + m) - 1 = q + (m - 1)
  BY <1>0, <1>4
<1>7. StatesOf(c)[p + m] = Step(StatesOf(c)[p + (m - 1)], c[p + m])
  <2>1. StatesOf(c)[p + m] = Step(StatesOf(c)[(p + m) - 1], c[p + m])
    BY <1>0, <1>6, RunRec
  <2> QED BY <1>6, <2>1
<1>8. StatesOf(d)[q + m] = Step(StatesOf(d)[q + (m - 1)], d[q + m])
  <2>1. StatesOf(d)[q + m] = Step(StatesOf(d)[(q + m) - 1], d[q + m])
    BY <1>0, <1>6, RunRec
  <2> QED BY <1>6, <2>1
<1>9. /\ c[p + m] = d[q + m] /\ c[p + m] \in Instr
      /\ r \notin Uses(c[p + m]) /\ (c[p + m].op \in Calls => r \notin ArgReg)
  BY <1>0, <1>4, <1>6 DEF SameCode
<1>10. Alike(Step(StatesOf(c)[p + (m - 1)], c[p + m]),
             Step(StatesOf(d)[q + (m - 1)], c[p + m]), r)
  BY <1>5, <1>9, StepAlike
<1> QED BY <1>2, <1>7, <1>8, <1>9, <1>10, Zenon

\* Blocks that are the same from two places on end in the same state if they are
\* in the same state there.
LEMMA SameEnd ==
    ASSUME NEW c, NEW d, NEW p, NEW q, NEW n, SameCode(c, p, d, q, n),
           StatesOf(c)[p] = StatesOf(d)[q], p + n = Len(c), q + n = Len(d)
    PROVE  StatesOf(c)[Len(c)] = StatesOf(d)[Len(d)]
<1>1. n \in 0 .. n
  BY DEF SameCode
<1>2. StatesOf(c)[p + n] = StatesOf(d)[q + n]
  BY <1>1, Follow
<1> QED BY <1>2

\* They also do if they are in states that differ in a register which is defined
\* again before it is read.
LEMMA Rejoin ==
    ASSUME NEW c \in Seq(Instr), NEW d \in Seq(Instr), NEW p, NEW q, NEW n,
           NEW r \in Reg \ {0}, SameCode(c, p, d, q, n),
           Alike(StatesOf(c)[p], StatesOf(d)[q], r), p + n = Len(c), q + n = Len(d),
           Ordinary(c, p, r), DefinedFirst(c, p, n, r)
    PROVE  StatesOf(c)[Len(c)] = StatesOf(d)[Len(d)]
<1>13. PICK e \in 1 .. n : /\ r \in Defs(c[p + e]) \ Uses(c[p + e])
                           /\ \A j \in 1 .. (e - 1) : r \notin Uses(c[p + j])
  BY DEF DefinedFirst
<1>0. /\ Len(c) \in Nat /\ Len(d) \in Nat /\ p \in Nat /\ q \in Nat /\ n \in Nat
      /\ \A k \in 1 .. Len(c) : c[k] \in Instr /\ k \in DOMAIN c
      /\ \A j \in 1 .. n : c[p + j] = d[q + j]
  BY DEF SameCode
<1>1. \A j \in 1 .. n : p + j \in 1 .. Len(c) /\ p + j > p /\ q + j \in 1 .. Len(d)
  BY <1>0
<1>2. \A j \in 1 .. n : c[p + j].op \in Calls => r \notin ArgReg
  BY <1>0, <1>1 DEF Ordinary
<1> DEFINE f == e - 1
<1>3. f \in Nat /\ f \in 0 .. f /\ f < n /\ \A j \in 1 .. f : j \in 1 .. n
  BY <1>0
<1>4. SameCode(c, p, d, q, f)
  <2> HIDE DEF f
  <2>1. p + f <= Len(c) /\ q + f <= Len(d)
    BY <1>0, <1>3
  <2> QED BY <1>0, <1>3, <2>1 DEF SameCode
<1>5. Alike(StatesOf(c)[p + f], StatesOf(d)[q + f], r)
  <2>1. \A j \in 1 .. f : /\ r \notin Uses(c[p + j])
                          /\ c[p + j].op \in Calls => r \notin ArgReg
    BY <1>2, <1>3, <1>13
  <2> HIDE DEF f
  <2>2. \A j \in 0 .. f : Alike(StatesOf(c)[p + j], StatesOf(d)[q + j], r)
    BY <1>4, <2>1, AlikeAlong
  <2> QED BY <1>3, <2>2
<1>6. /\ p + e \in 1 .. Len(c) /\ p + e > p /\ (p + e) - 1 = p + f
      /\ q + e \in 1 .. Len(d) /\ (q + e) - 1 = q + f
  BY <1>0, <1>1
<1> HIDE DEF f
<1>7. StatesOf(c)[p + e] = Step(StatesOf(c)[p + f], c[p + e])
  <2>1. StatesOf(c)[p + e] = Step(StatesOf(c)[(p + e) - 1], c[p + e])
    BY <1>0, <1>6, RunRec
  <2> QED BY <1>6, <2>1
<1>8. StatesOf(d)[q + e] = Step(StatesOf(d)[q + f], d[q + e])
  <2>1. StatesOf(d)[q + e] = Step(StatesOf(d)[(q + e) - 1], d[q + e])
    BY <1>0, <1>6, RunRec
  <2> QED BY <1>6, <2>1
<1> DEFINE i == c[p + e]
<1>9. /\ d[q + e] = i /\ i \in Instr /\ r \in Defs(i) /\ r \notin Uses(i)
      /\ i.op \in Calls => r \notin ArgReg
  BY <1>0, <1>2, <1>6, <1>13 DEF Ordinary
<1> HIDE DEF i
<1>10. Step(StatesOf(c)[p + f], i) = Step(StatesOf(d)[q + f], i)
  <2>1. Redefines(i, r)
    BY <1>9 DEF Redefines
  <2> QED BY <1>5, <1>9, <2>1, StepAlike
<1>11. StatesOf(c)[p + e] = StatesOf(d)[q + e]
  BY <1>7, <1>8, <1>9, <1>10, Zenon DEF i
<1>12. /\ SameCode(c, p + e, d, q + e, n - e)
       /\ (p + e) + (n - e) = Len(c) /\ (q + e) + (n - e) = Len(d)
  <2>1. /\ p + e \in Nat /\ q + e \in Nat /\ n - e \in Nat
        /\ (p + e) + (n - e) = p + n /\ (q + e) + (n - e) = q + n
    BY <1>0
  <2>2. ASSUME NEW j \in 1 .. (n - e) PROVE c[(p + e) + j] = d[(q + e) + j]
    <3>1. e + j \in 1 .. n /\ (p + e) + j = p + (e + j) /\ (q + e) + j = q + (e + j)
      BY <1>0
    <3> QED BY <1>0, <3>1
  <2> QED BY <1>0, <2>1, <2>2 DEF SameCode
<1> QED BY <1>11, <1>12, SameEnd

(***************************************************************************)
(* The map of known values.                                                *)
(***************************************************************************)
\* The values of vs are true of the state m.
Known(vs, m) ==
    /\ vs \in [Reg -> Value] /\ vs[0] = Abs(0)
    /\ \A r \in Reg : vs[r] # Unknown => m.regs[r] = vs[r]

\* After a call nothing is known but x0.
LEMMA ClearKnown == ASSUME NEW m, IsState(m) PROVE Known(Clear, m)
<1>1. 0 \in Reg
  BY MachineAssumption
<1>2. Abs(0) \in Value /\ Unknown \in Value
  BY AbsValue DEF Value
<1>3. Clear \in [Reg -> Value]
  BY <1>2 DEF Clear
<1>4. \A r \in Reg : Clear[r] = IF r = 0 THEN Abs(0) ELSE Unknown
  BY DEF Clear
<1>5. m.regs[0] = Abs(0)
  BY DEF IsState
<1> QED BY <1>1, <1>3, <1>4, <1>5 DEF Known

\* Recording what an instruction has written.
LEMMA KnownSet ==
    ASSUME NEW vs, NEW m, IsState(m), Known(vs, m), NEW r \in Reg, NEW v \in Value,
           NEW w, v # Unknown => w = v
    PROVE  Known(setKnownValue(vs, r, v), SetReg(m, r, w))
<1> DEFINE us == setKnownValue(vs, r, v)
           k == SetReg(m, r, w)
<1>1. 0 \in Reg
  BY MachineAssumption
<1>2. \A q \in Reg : k.regs[q] = IF q = r /\ r # 0 THEN w ELSE m.regs[q]
  BY SetRegIs
<1>3. us \in [Reg -> Value] /\ \A q \in Reg : us[q] = IF q = r /\ r # 0 THEN v ELSE vs[q]
  BY DEF setKnownValue, Known
<1> HIDE DEF us, k
<1>4. us[0] = Abs(0)
  BY <1>1, <1>3 DEF Known
<1>5. \A q \in Reg : us[q] # Unknown => k.regs[q] = us[q]
  BY <1>2, <1>3 DEF Known
<1>6. Known(us, k)
  BY <1>3, <1>4, <1>5 DEF Known
<1> QED BY <1>6 DEF us, k

\* A store leaves the registers alone.
LEMMA StoreRegs ==
    ASSUME NEW m, IsState(m), NEW v, NEW n, NEW w
    PROVE  Store(m, v, n, w).regs = m.regs
<1> DEFINE in == [a \in DOMAIN m.mem \cup Offset(v) .. (Offset(v) + n - 1) |->
                     IF a \in Offset(v) .. (Offset(v) + n - 1)
                     THEN ByteOf(w, a - Offset(v)) ELSE m.mem[a]]
           out == Append(m.obs, <<"store", v, n, w, m.mem>>)
           none == [a \in {} |-> 0]
<1>1. Store(m, v, n, w) = IF InFrame(v) THEN [m EXCEPT !.mem = in]
                          ELSE [m EXCEPT !.obs = out, !.mem = none]
  BY Zenon DEF Store
<1> HIDE DEF in, out, none
<1>2. m = [regs |-> m.regs, mem |-> m.mem, obs |-> m.obs]
  BY DEF IsState
<1>3. [m EXCEPT !.mem = in] = [regs |-> m.regs, mem |-> in, obs |-> m.obs]
  BY <1>2
<1>4. [m EXCEPT !.obs = out, !.mem = none] = [regs |-> m.regs, mem |-> none, obs |-> out]
  BY TwoFields
<1>5. [m EXCEPT !.mem = in].regs = m.regs
  BY <1>3
<1>6. [m EXCEPT !.obs = out, !.mem = none].regs = m.regs
  BY <1>4
<1> QED BY <1>1, <1>5, <1>6, Zenon

\* An instruction that is no call writes what it defines, x0 excepted.
LEMMA StepKeeps ==
    ASSUME NEW m, IsState(m), NEW i \in Instr, i.op \notin Calls
    PROVE  \A q \in Reg : q \notin Defs(i) \ {0} => Step(m, i).regs[q] = m.regs[q]
<1>1. i.op \in Opcode
  BY DEF Instr
<1>2. ASSUME NEW v, Step(m, i) = SetReg(m, i.rd, v), Defs(i) = {i.rd}
      PROVE  \A q \in Reg : q \notin Defs(i) \ {0} => Step(m, i).regs[q] = m.regs[q]
  <2>1. \A q \in Reg : SetReg(m, i.rd, v).regs[q] = IF q = i.rd /\ i.rd # 0 THEN v ELSE m.regs[q]
    BY SetRegIs
  <2> QED BY <1>2, <2>1
<1>3. CASE i.op \in {"LUI", "C_LUI", "ADDI", "C_LI", "C_MV", "ADD", "SUB", "LW", "C_LW", "LB"}
  <2>1. Defs(i) = {i.rd}
    BY <1>3 DEF Defs
  <2>2. \E v : Step(m, i) = SetReg(m, i.rd, v)
    BY <1>3, Zenon DEF Step, Calls
  <2> QED BY <1>2, <2>1, <2>2
<1>4. CASE i.op \in {"SW", "SB"}
  <2>1. Step(m, i) = Store(m, AddLo(m.regs[i.rs], i), Size(i.op), m.regs[i.rt])
    BY <1>4 DEF Step, Calls
  <2> QED BY <2>1, StoreRegs
<1>5. CASE i.op \in {"BB", "C_JR", "BEQ"}
  BY <1>5 DEF Step, Calls
<1> QED BY <1>1, <1>3, <1>4, <1>5 DEF Opcode, Calls

\* What learnSimpleValue records is true after the instruction.
LEMMA LearnSound ==
    ASSUME NEW vs, NEW m, IsState(m), Known(vs, m), NEW i \in Instr
    PROVE  Known(learnSimpleValue(vs, i), Step(m, i))
<1>1. /\ i.op \in Opcode /\ i.rd \in Reg /\ i.rs \in Reg /\ i.rt \in Reg
      /\ i.imm \in Int /\ i.sym \in Int
  BY DEF Instr
<1>2. IsState(Step(m, i))
  BY StepState
<1>3. vs \in [Reg -> Value] /\ \A r \in Reg : vs[r] # Unknown => m.regs[r] = vs[r]
  BY DEF Known
<1>4. Page \in Int /\ Page * i.imm \in Int
  BY <1>1, MachineAssumption
<1>5. ASSUME NEW r \in Reg, IsAbs(vs[r])
      PROVE  m.regs[r] = vs[r] /\ \E a \in 0 .. (Word - 1) : vs[r] = <<"abs", a>>
  BY <1>3, <1>5 DEF IsAbs, Value, Unknown
<1>6. CASE isBarrier(i)
  <2>1. learnSimpleValue(vs, i) = Clear
    BY <1>6 DEF learnSimpleValue, isBarrier, Calls
  <2> QED BY <1>2, <2>1, ClearKnown
<1>7. CASE i.op \in {"LUI", "C_LUI"} /\ i.sym = 0
  <2>1. learnSimpleValue(vs, i) = setKnownValue(vs, i.rd, Abs(Page * i.imm))
    BY <1>7 DEF learnSimpleValue, isBarrier, Calls
  <2>2. Step(m, i) = SetReg(m, i.rd, Abs(Page * i.imm))
    BY <1>7 DEF Step, Calls
  <2> QED BY <1>1, <1>4, <2>1, <2>2, AbsValue, KnownSet
<1>8. CASE i.op = "ADDI" /\ i.sym = 0 /\ IsAbs(vs[i.rs])
  <2>1. learnSimpleValue(vs, i) = setKnownValue(vs, i.rd, AddImm(vs[i.rs], i.imm))
    BY <1>8 DEF learnSimpleValue, isBarrier, Calls
  <2>2. m.regs[i.rs] = vs[i.rs]
    BY <1>1, <1>5, <1>8
  <2>3. Step(m, i) = SetReg(m, i.rd, AddImm(m.regs[i.rs], i.imm))
    BY <1>8 DEF Step, Calls, AddLo
  <2>4. AddImm(vs[i.rs], i.imm) \in Value
    <3>1. PICK a \in 0 .. (Word - 1) : vs[i.rs] = <<"abs", a>>
      BY <1>1, <1>5, <1>8
    <3>2. AddImm(vs[i.rs], i.imm) = Abs(a + i.imm)
      BY <3>1 DEF AddImm
    <3>3. a + i.imm \in Int
      BY <1>1
    <3> QED BY <3>2, <3>3, AbsValue
  <2> QED BY <1>1, <2>1, <2>2, <2>3, <2>4, KnownSet
<1>9. CASE i.op = "ADD" /\ IsAbs(vs[i.rs]) /\ IsAbs(vs[i.rt])
  <2>1. learnSimpleValue(vs, i) = setKnownValue(vs, i.rd, Add(vs[i.rs], vs[i.rt]))
    BY <1>9 DEF learnSimpleValue, isBarrier, Calls
  <2>2. m.regs[i.rs] = vs[i.rs] /\ m.regs[i.rt] = vs[i.rt]
    BY <1>1, <1>5, <1>9
  <2>3. Step(m, i) = SetReg(m, i.rd, Add(m.regs[i.rs], m.regs[i.rt]))
    BY <1>9 DEF Step, Calls
  <2>4. Add(vs[i.rs], vs[i.rt]) \in Value
    <3>1. PICK a \in 0 .. (Word - 1) : vs[i.rs] = <<"abs", a>>
      BY <1>1, <1>5, <1>9
    <3>2. PICK b \in 0 .. (Word - 1) : vs[i.rt] = <<"abs", b>>
      BY <1>1, <1>5, <1>9
    <3>3. Add(vs[i.rs], vs[i.rt]) = Abs(b + a)
      BY <3>1, <3>2 DEF Add, AddImm
    <3>4. b + a \in Int
      OBVIOUS
    <3> QED BY <3>3, <3>4, AbsValue
  <2> QED BY <1>1, <2>1, <2>2, <2>3, <2>4, KnownSet
<1>10. CASE i.op = "C_LI"
  <2>1. learnSimpleValue(vs, i) = setKnownValue(vs, i.rd, Abs(i.imm))
    BY <1>10 DEF learnSimpleValue, isBarrier, Calls
  <2>2. Step(m, i) = SetReg(m, i.rd, Abs(i.imm))
    BY <1>10 DEF Step, Calls
  <2> QED BY <1>1, <2>1, <2>2, AbsValue, KnownSet
<1>11. CASE i.op = "C_MV"
  <2>1. learnSimpleValue(vs, i) = setKnownValue(vs, i.rd, vs[i.rs])
    BY <1>11 DEF learnSimpleValue, isBarrier, Calls
  <2>2. Step(m, i) = SetReg(m, i.rd, m.regs[i.rs])
    BY <1>11 DEF Step, Calls
  <2>3. vs[i.rs] \in Value /\ (vs[i.rs] # Unknown => m.regs[i.rs] = vs[i.rs])
    BY <1>1, <1>3
  <2> QED BY <1>1, <2>1, <2>2, <2>3, KnownSet
<1>12. CASE /\ ~isBarrier(i)
            /\ ~(i.op \in {"LUI", "C_LUI"} /\ i.sym = 0)
            /\ ~(i.op = "ADDI" /\ i.sym = 0 /\ IsAbs(vs[i.rs]))
            /\ ~(i.op = "ADD" /\ IsAbs(vs[i.rs]) /\ IsAbs(vs[i.rt]))
            /\ i.op # "C_LI" /\ i.op # "C_MV"
  <2> DEFINE us == [r \in Reg |-> IF r \in Defs(i) \ {0} THEN Unknown ELSE vs[r]]
             k == Step(m, i)
  <2>1. learnSimpleValue(vs, i) = us
    BY <1>12, Zenon DEF learnSimpleValue
  <2>2. \A q \in Reg : q \notin Defs(i) \ {0} => k.regs[q] = m.regs[q]
    BY <1>12, StepKeeps DEF isBarrier, Calls
  <2>3. Unknown \in Value /\ 0 \in Reg
    BY MachineAssumption DEF Value
  <2>4. us \in [Reg -> Value] /\ \A q \in Reg : us[q] = IF q \in Defs(i) \ {0} THEN Unknown ELSE vs[q]
    BY <1>3, <2>3
  <2> HIDE DEF us, k
  <2>5. us[0] = Abs(0)
    BY <2>3, <2>4 DEF Known
  <2>6. \A q \in Reg : us[q] # Unknown => k.regs[q] = us[q]
    BY <1>3, <2>2, <2>4
  <2>7. Known(us, k)
    BY <2>4, <2>5, <2>6 DEF Known
  <2> QED BY <2>1, <2>7 DEF k
<1> QED BY <1>6, <1>7, <1>8, <1>9, <1>10, <1>11, <1>12, Zenon

(***************************************************************************)
(* Pairs.                                                                  *)
(***************************************************************************)
\* What a LUI leaves in its register.
HighValue(l) == IF l.sym = 0 THEN Abs(Page * l.imm) ELSE <<"hi", l.sym, l.imm>>

\* What it makes of a state.
LEMMA StepLUI ==
    ASSUME NEW m, NEW l, l.op = "LUI"
    PROVE  Step(m, l) = SetReg(m, l.rd, HighValue(l))
BY DEF Step, Calls, HighValue

\* The two halves of a pair meet in the target that the pass computes.
LEMMA PairSum ==
    ASSUME NEW l \in Instr, NEW s \in Instr, PairTarget(l, s) # Unknown
    PROVE  AddLo(HighValue(l), s) = PairTarget(l, s) /\ PairTarget(l, s) \in Value
<1>1. l.imm \in Int /\ l.sym \in Int /\ s.imm \in Int /\ Page \in Int /\ Page * l.imm \in Int
  BY MachineAssumption DEF Instr
<1>2. CASE l.sym = 0 /\ s.sym = 0
  <2> DEFINE a == Page * l.imm
  <2>1. PairTarget(l, s) = Abs(a + s.imm)
    BY <1>2 DEF PairTarget
  <2>2. AddLo(HighValue(l), s) = AddImm(Abs(a), s.imm)
    BY <1>2 DEF AddLo, HighValue
  <2>3. a \in Int
    BY <1>1
  <2> HIDE DEF a
  <2>4. AddImm(Abs(a), s.imm) = Abs(a + s.imm) /\ a + s.imm \in Int
    <3> DEFINE c == s.imm
    <3>1. c \in Int
      BY <1>1
    <3> HIDE DEF c
    <3>2. AddImm(Abs(a), c) = Abs(a + c)
      BY <2>3, <3>1, AddAbs
    <3>3. a + c \in Int
      BY <2>3, <3>1
    <3> QED BY <3>2, <3>3, Zenon DEF c
  <2> QED BY <2>1, <2>2, <2>4, AbsValue
<1>3. CASE l.sym # 0 /\ l.sym = s.sym /\ l.imm = s.imm
  <2>1. PairTarget(l, s) = <<"sym", l.sym, l.imm>>
    BY <1>3 DEF PairTarget
  <2>2. AddLo(HighValue(l), s) = <<"sym", s.sym, s.imm>>
    BY <1>3 DEF AddLo, HighValue
  <2> QED BY <1>1, <1>3, <2>1, <2>2 DEF Value
<1> QED BY <1>2, <1>3 DEF PairTarget

\* A base that findReusableBase offers reaches the target in a true map.
LEMMA BaseReaches ==
    ASSUME NEW m, Known(values, m), NEW t \in Value, NEW b \in findReusableBase(t)
    PROVE  /\ b[1] \in Reg /\ b[2] \in Int
           /\ AddImm(m.regs[b[1]], b[2]) = t
<1>1. b[1] \in Reg /\ b[2] \in FixedDiffs(values[b[1]], t)
  BY DEF findReusableBase
<1>2. values[b[1]] \in Value /\ (values[b[1]] # Unknown => m.regs[b[1]] = values[b[1]])
  BY <1>1 DEF Known
<1>3. b[2] \in Int /\ values[b[1]] # Unknown /\ AddImm(values[b[1]], b[2]) = t
  BY <1>1, <1>2, DiffReaches
<1> QED BY <1>1, <1>2, <1>3

\* n is the sink s with base b and offset d.
Rebased(n, s, b, d) ==
    /\ n.op = s.op /\ n.rd = s.rd /\ n.rs = b /\ n.imm = d /\ n.sym = 0
    /\ isSFormatMemorySink(s) => n.rt = s.rt

\* A pair without its LUI, the sink of which reaches the same target from b, leaves
\* a state that differs in the LUI's register at most, and not in it if the sink
\* defines it.
LEMMA SinkAlike ==
    ASSUME NEW m, IsState(m), NEW l \in Instr, NEW s \in Instr, NEW t, NEW b, NEW d,
           l.op = "LUI", l.rd # 0, s.rs = l.rd, s.op = "ADDI" \/ isMemorySink(s),
           isSFormatMemorySink(s) => s.rt # l.rd, b \in Reg, d \in Int,
           AddLo(HighValue(l), s) = t, AddImm(m.regs[b], d) = t,
           NEW n, Rebased(n, s, b, d)
    PROVE  /\ Alike(Step(Step(m, l), s), Step(m, n), l.rd)
           /\ l.rd \in Defs(s) => Step(Step(m, l), s) = Step(m, n)
           /\ s.op = "ADDI" => Step(m, n) = SetReg(m, s.rd, t)
           /\ isIFormatMemorySink(s) => \E v : Step(m, n) = SetReg(m, s.rd, v)
           /\ isSFormatMemorySink(s) => Step(m, n).regs = m.regs
<1> DEFINE r == l.rd
           k == Step(m, l)
<1>1. r \in Reg \ {0} /\ s.rd \in Reg /\ s.rt \in Reg
  BY DEF Instr
<1>2. k = SetReg(m, r, HighValue(l))
  BY StepLUI
<1>3. /\ IsState(k) /\ k.mem = m.mem /\ k.obs = m.obs
      /\ \A q \in Reg : k.regs[q] = IF q = r /\ r # 0 THEN HighValue(l) ELSE m.regs[q]
  BY <1>2, SetRegIs
<1>4. s.rs = r /\ r = l.rd
  OBVIOUS
<1> HIDE DEF k, r
<1> USE DEF Rebased
<1>5. Alike(k, m, r)
  BY <1>3 DEF Alike
<1>6. k.regs[s.rs] = HighValue(l)
  BY <1>1, <1>3, <1>4
<1>7. AddLo(k.regs[s.rs], s) = t
  BY <1>6
<1>8. AddLo(m.regs[n.rs], n) = t
  BY DEF AddLo
<1>9. CASE s.op = "ADDI"
  <2>1. Step(k, s) = SetReg(k, s.rd, t)
    BY <1>7, <1>9 DEF Step, Calls
  <2>2. Step(m, n) = SetReg(m, s.rd, t)
    BY <1>8, <1>9 DEF Step, Calls
  <2>3. Defs(s) = {s.rd} /\ ~isIFormatMemorySink(s) /\ ~isSFormatMemorySink(s)
    BY <1>9 DEF Defs, isIFormatMemorySink, isSFormatMemorySink
  <2>4. /\ Alike(Step(k, s), Step(m, n), r)
        /\ r \in Defs(s) => Step(k, s) = Step(m, n)
    BY <1>1, <1>5, <2>1, <2>2, <2>3, SetRegAlike
  <2> QED BY <1>4, <1>9, <2>2, <2>3, <2>4 DEF k
<1>10. CASE isIFormatMemorySink(s)
  <2>0. s.op \in {"LW", "LB"} /\ s.op # "ADDI" /\ ~isSFormatMemorySink(s)
    BY <1>10 DEF isIFormatMemorySink, isSFormatMemorySink
  <2>1. Step(k, s) = SetReg(k, s.rd, Load(k, t, Size(s.op)))
    BY <1>7, <2>0 DEF Step, Calls
  <2>2. Step(m, n) = SetReg(m, s.rd, Load(m, t, Size(s.op)))
    BY <1>8, <2>0 DEF Step, Calls
  <2>3. Load(k, t, Size(s.op)) = Load(m, t, Size(s.op))
    BY <1>3, LoadAlike
  <2>4. Defs(s) = {s.rd}
    BY <2>0 DEF Defs
  <2>5. /\ Alike(Step(k, s), Step(m, n), r)
        /\ r \in Defs(s) => Step(k, s) = Step(m, n)
    BY <1>1, <1>5, <2>1, <2>2, <2>3, <2>4, SetRegAlike
  <2> QED BY <1>4, <2>0, <2>2, <2>5 DEF k
<1>11. CASE isSFormatMemorySink(s)
  <2>0. s.op \in {"SW", "SB"} /\ s.op # "ADDI" /\ ~isIFormatMemorySink(s)
    BY <1>11 DEF isIFormatMemorySink, isSFormatMemorySink
  <2>1. k.regs[s.rt] = m.regs[n.rt]
    BY <1>1, <1>3, <1>4, <1>11
  <2>2. Step(k, s) = Store(k, t, Size(s.op), k.regs[s.rt])
    BY <1>7, <2>0 DEF Step, Calls
  <2>3. Step(m, n) = Store(m, t, Size(s.op), m.regs[n.rt])
    BY <1>8, <2>0 DEF Step, Calls
  <2>4. Alike(Step(k, s), Step(m, n), r)
    BY <1>5, <2>1, <2>2, <2>3, StoreAlike
  <2>5. r \notin Defs(s)
    BY <2>0 DEF Defs
  <2>6. Step(m, n).regs = m.regs
    BY <2>3, StoreRegs
  <2> QED BY <1>4, <2>0, <2>4, <2>5, <2>6 DEF k
<1> QED BY <1>9, <1>10, <1>11 DEF isMemorySink

(***************************************************************************)
(* The inductive invariant.                                                *)
(***************************************************************************)
\* How many instructions have been erased, and where in the input the walk is.
Erased == Len(orig) - Len(code)
Pos == ii + Erased

\* A known value comes from an instruction before k, behind the last call.
Recorded(b, vs, k) == \A q \in Reg \ {0} : vs[q] # Unknown => DefinedBefore(b, k, q)

\* What the walk has not reached is as it was.
RestKept == \A k \in ii .. Len(code) : code[k] = orig[k + Erased]

IInv ==
    /\ orig \in Seq(Instr) /\ code \in Seq(Instr) /\ Len(code) <= Len(orig)
    /\ ii \in Nat \ {0} /\ ii <= Len(code) + 1
    /\ RestKept
    /\ Recorded(orig, values, Pos)
    /\ Known(values, StatesOf(code)[ii - 1])
    /\ StatesOf(code)[Len(code)] = StatesOf(orig)[Len(orig)]

\* The instruction at a position of the walk.
LEMMA AtStep ==
    ASSUME IInv, Tame(orig), NEW k \in Nat, ii <= k, k <= Len(code)
    PROVE  /\ k \in 1 .. Len(code) /\ k \in DOMAIN code /\ code[k] \in Instr
           /\ k + Erased \in 1 .. Len(orig) /\ k + Erased \in DOMAIN orig
           /\ code[k] = orig[k + Erased]
           /\ code[k].op = "LUI" => code[k].rd # 0
           /\ IsState(StatesOf(code)[k - 1]) /\ IsState(StatesOf(code)[k])
           /\ StatesOf(code)[k] = Step(StatesOf(code)[k - 1], code[k])
<1>1. /\ Len(code) \in Nat /\ Len(orig) \in Nat /\ Len(code) <= Len(orig)
      /\ ii \in Nat /\ ii > 0 /\ code \in Seq(Instr) /\ orig \in Seq(Instr)
  BY DEF IInv
<1>2. k \in 1 .. Len(code) /\ k + Erased \in 1 .. Len(orig) /\ k \in ii .. Len(code)
      /\ k \in 0 .. Len(code) /\ k - 1 \in 0 .. Len(code)
  BY <1>1 DEF Erased
<1>3. k \in DOMAIN code /\ code[k] \in Instr /\ k + Erased \in DOMAIN orig
  BY <1>1, <1>2
<1>4. code[k] = orig[k + Erased]
  BY <1>2 DEF IInv, RestKept
<1>5. code[k].op = "LUI" => code[k].rd # 0
  BY <1>3, <1>4 DEF Tame, ResultsExist
<1>6. IsState(StatesOf(code)[k - 1]) /\ IsState(StatesOf(code)[k])
  BY <1>1, <1>2, StatesAre
<1>7. StatesOf(code)[k] = Step(StatesOf(code)[k - 1], code[k])
  BY <1>1, <1>2, RunRec
<1> QED BY <1>2, <1>3, <1>4, <1>5, <1>6, <1>7

\* Recording the results of one more instruction.
LEMMA RecordedStep ==
    ASSUME NEW b, NEW vs, NEW us, NEW k \in Nat \ {0}, Recorded(b, vs, k),
           \A q \in Reg \ {0} : us[q] # Unknown =>
              /\ ~isBarrier(b[k])
              /\ q \in Defs(b[k]) \/ vs[q] # Unknown
    PROVE  Recorded(b, us, k + 1)
<1> SUFFICES ASSUME NEW q \in Reg \ {0}, us[q] # Unknown
             PROVE  DefinedBefore(b, k + 1, q)
  BY DEF Recorded
<1>1. (k + 1) - 1 = k /\ k \in 1 .. k
  OBVIOUS
<1>2. CASE q \in Defs(b[k])
  <2>1. \A n \in k .. k : ~isBarrier(b[n])
    OBVIOUS
  <2> QED BY <1>1, <1>2, <2>1 DEF DefinedBefore
<1>3. CASE vs[q] # Unknown
  <2>1. PICK j \in 1 .. (k - 1) : q \in Defs(b[j]) /\ \A n \in j .. (k - 1) : ~isBarrier(b[n])
    BY <1>3 DEF Recorded, DefinedBefore
  <2>2. j \in 1 .. k /\ \A n \in j .. k : n = k \/ n \in j .. (k - 1)
    OBVIOUS
  <2>3. \A n \in j .. k : ~isBarrier(b[n])
    BY <2>1, <2>2
  <2> QED BY <1>1, <2>1, <2>2, <2>3 DEF DefinedBefore
<1> QED BY <1>2, <1>3

\* learnSimpleValue records results only.
LEMMA LearnRecords ==
    ASSUME NEW vs \in [Reg -> Value], NEW i \in Instr, NEW q \in Reg \ {0},
           learnSimpleValue(vs, i)[q] # Unknown
    PROVE  ~isBarrier(i) /\ (q \in Defs(i) \/ vs[q] # Unknown)
<1>1. i.rd \in Reg /\ i.op \in Opcode
  BY DEF Instr
<1>2. ASSUME NEW v, q # i.rd PROVE setKnownValue(vs, i.rd, v)[q] = vs[q]
  BY <1>1, <1>2 DEF setKnownValue
<1>3. ~isBarrier(i)
  <2> SUFFICES ASSUME isBarrier(i) PROVE FALSE
    OBVIOUS
  <2>1. learnSimpleValue(vs, i) = Clear
    BY Zenon DEF learnSimpleValue, isBarrier, Calls
  <2> QED BY <2>1 DEF Clear
<1>4. CASE q \notin Defs(i)
  <2>1. CASE i.op \in {"LUI", "C_LUI", "ADDI", "ADD", "C_LI", "C_MV"}
    <3>1. q # i.rd
      BY <1>4, <2>1 DEF Defs
    <3>2. [r \in Reg |-> IF r \in Defs(i) \ {0} THEN Unknown ELSE vs[r]][q] = vs[q]
      BY <1>4
    <3>3. \/ learnSimpleValue(vs, i)
               = [r \in Reg |-> IF r \in Defs(i) \ {0} THEN Unknown ELSE vs[r]]
          \/ \E v : learnSimpleValue(vs, i) = setKnownValue(vs, i.rd, v)
      BY <1>3, <2>1, Zenon DEF learnSimpleValue, isBarrier, Calls
    <3> QED BY <1>2, <1>3, <3>1, <3>2, <3>3
  <2>2. CASE i.op \notin {"LUI", "C_LUI", "ADDI", "ADD", "C_LI", "C_MV"}
    <3>1. learnSimpleValue(vs, i)
             = [r \in Reg |-> IF r \in Defs(i) \ {0} THEN Unknown ELSE vs[r]]
      BY <1>3, <2>2, Zenon DEF learnSimpleValue, isBarrier, Calls
    <3> QED BY <1>3, <1>4, <3>1
  <2> QED BY <2>1, <2>2
<1> QED BY <1>3, <1>4

\* An action that leaves the code alone and moves on by one or two.
LEMMA Advance ==
    ASSUME IInv, NEW n \in {1, 2}, ii' = ii + n, ii + n <= Len(code) + 1,
           code' = code, orig' = orig, Recorded(orig, values', Pos + n),
           Known(values', StatesOf(code)[(ii + n) - 1])
    PROVE  IInv'
<1>1. ii \in Nat \ {0} /\ Len(code) \in Nat /\ Erased \in Int
  BY DEF IInv, Erased
<1>2. Erased' = Erased
  BY DEF Erased
<1>3. Pos' = Pos + n
  <2> HIDE DEF Erased
  <2> QED BY <1>1, <1>2 DEF Pos
<1>4. RestKept'
  <2>1. \A k \in ii' .. Len(code) : k \in ii .. Len(code)
    BY <1>1
  <2> QED BY <1>2, <2>1 DEF IInv, RestKept
<1>5. Recorded(orig, values, Pos)'
  BY <1>3 DEF Recorded
<1>6. Known(values, StatesOf(code)[ii - 1])'
  BY DEF Known
<1> QED BY <1>1, <1>4, <1>5, <1>6 DEF IInv

(***************************************************************************)
(* The actions, one lemma each.                                            *)
(***************************************************************************)
LEMMA InitIInv == Init /\ Tame(orig) => IInv
<1> SUFFICES ASSUME Init, Tame(orig) PROVE IInv
  OBVIOUS
<1>1. code = orig /\ ii = 1 /\ values = Clear /\ orig \in Seq(Instr)
  BY DEF Init, Tame
<1>2. Len(orig) \in Nat /\ 1 <= Len(orig) + 1 /\ Len(orig) <= Len(orig)
  BY <1>1
<1>3. Erased = 0
  BY <1>1, <1>2 DEF Erased
<1>4. RestKept
  BY <1>1, <1>3 DEF RestKept
<1>5. Recorded(orig, values, Pos)
  BY <1>1 DEF Recorded, Clear
<1>6. Known(values, StatesOf(code)[ii - 1])
  <2>1. IsState(StatesOf(code)[0])
    BY <1>1, <1>2, StatesAre
  <2> QED BY <1>1, <2>1, ClearKnown
<1> QED BY <1>1, <1>2, <1>4, <1>5, <1>6 DEF IInv

\* A call or a block's end only forgets.
LEMMA BarrierStep == ASSUME IInv, Tame(orig), Barrier PROVE IInv'
<1>1. /\ ii \in Nat /\ ii > 0 /\ ii <= Len(code) /\ Len(code) \in Nat /\ Pos \in Int
      /\ values' = Clear /\ ii' = ii + 1 /\ code' = code /\ orig' = orig
  BY DEF IInv, Barrier, Here, Pos, Erased
<1>2. IsState(StatesOf(code)[ii])
  BY <1>1, AtStep
<1>3. Known(Clear, StatesOf(code)[ii]) /\ (ii + 1) - 1 = ii
  BY <1>1, <1>2, ClearKnown
<1>4. Recorded(orig, values', Pos + 1)
  BY <1>1 DEF Recorded, Clear
<1>5. ii + 1 <= Len(code) + 1
  BY <1>1
<1> QED BY <1>1, <1>3, <1>4, <1>5, Advance

\* One instruction behind the iterator, and what is learned from it.
LEMMA LearnSimpleStep == ASSUME IInv, Tame(orig), LearnSimple PROVE IInv'
<1>1. /\ ii \in Nat /\ ii > 0 /\ ii <= Len(code) /\ Len(code) \in Nat /\ Len(orig) \in Nat
      /\ values' = learnSimpleValue(values, code[ii]) /\ ii' = ii + 1
      /\ code' = code /\ orig' = orig
      /\ Recorded(orig, values, Pos) /\ Known(values, StatesOf(code)[ii - 1])
  BY DEF IInv, LearnSimple, Here
<1>2. /\ code[ii] \in Instr /\ code[ii] = orig[Pos] /\ Pos \in 1 .. Len(orig)
      /\ IsState(StatesOf(code)[ii - 1])
      /\ StatesOf(code)[ii] = Step(StatesOf(code)[ii - 1], code[ii])
  BY <1>1, AtStep DEF Pos
<1>3. Known(values', StatesOf(code)[ii]) /\ (ii + 1) - 1 = ii
  BY <1>1, <1>2, LearnSound
<1>4. Recorded(orig, values', Pos + 1)
  <2>1. values \in [Reg -> Value]
    BY <1>1 DEF Known
  <2>2. \A q \in Reg \ {0} : values'[q] # Unknown =>
          /\ ~isBarrier(orig[Pos])
          /\ q \in Defs(orig[Pos]) \/ values[q] # Unknown
    BY <1>1, <1>2, <2>1, LearnRecords
  <2>3. Pos \in Nat \ {0}
    BY <1>2
  <2> QED BY <1>1, <2>2, <2>3, RecordedStep
<1>5. ii + 1 <= Len(code) + 1
  BY <1>1
<1> QED BY <1>1, <1>3, <1>4, <1>5, Advance

\* What a pair at the iterator consists of.
LEMMA AtPair ==
    ASSUME IInv, Tame(orig), Here, IsPair
    PROVE  /\ ii \in Nat /\ ii > 0 /\ ii + 1 <= Len(code) /\ Len(code) \in Nat
           /\ Len(orig) \in Nat /\ Pos \in Nat \ {0} /\ Pos + 1 \in 1 .. Len(orig)
           /\ code[ii] \in Instr /\ code[ii] = orig[Pos]
           /\ code[ii].op = "LUI" /\ code[ii].rd \in Reg \ {0}
           /\ code[ii + 1] \in Instr /\ code[ii + 1] = orig[Pos + 1]
           /\ code[ii + 1].rs = code[ii].rd
           /\ AddLo(HighValue(code[ii]), code[ii + 1]) = Target
           /\ Target \in Value /\ Target # Unknown
           /\ IsState(StatesOf(code)[ii - 1]) /\ IsState(StatesOf(code)[ii])
           /\ StatesOf(code)[ii] = Step(StatesOf(code)[ii - 1], code[ii])
           /\ StatesOf(code)[ii + 1] = Step(StatesOf(code)[ii], code[ii + 1])
<1>1. /\ ii \in Nat /\ ii > 0 /\ ii < Len(code) /\ Len(code) \in Nat /\ Len(orig) \in Nat
      /\ code[ii].op = "LUI" /\ code[ii + 1].rs = code[ii].rd
      /\ PairTarget(code[ii], code[ii + 1]) # Unknown
  BY DEF IInv, IsPair
<1>2. /\ code[ii] \in Instr /\ code[ii] = orig[ii + Erased] /\ code[ii].rd # 0
      /\ ii + Erased \in 1 .. Len(orig)
      /\ IsState(StatesOf(code)[ii - 1]) /\ IsState(StatesOf(code)[ii])
      /\ StatesOf(code)[ii] = Step(StatesOf(code)[ii - 1], code[ii])
  BY <1>1, AtStep
<1>3. /\ code[ii + 1] \in Instr /\ code[ii + 1] = orig[(ii + 1) + Erased]
      /\ (ii + 1) + Erased \in 1 .. Len(orig)
      /\ StatesOf(code)[ii + 1] = Step(StatesOf(code)[(ii + 1) - 1], code[ii + 1])
  <2> DEFINE k == ii + 1
  <2>1. k \in Nat /\ ii <= k /\ k <= Len(code)
    BY <1>1
  <2> HIDE DEF k
  <2>2. /\ code[k] \in Instr /\ code[k] = orig[k + Erased]
        /\ k + Erased \in 1 .. Len(orig)
        /\ StatesOf(code)[k] = Step(StatesOf(code)[k - 1], code[k])
    BY <2>1, AtStep
  <2> QED BY <2>2 DEF k
<1>4. (ii + 1) - 1 = ii /\ (ii + 1) + Erased = Pos + 1
  BY <1>1 DEF Pos, Erased
<1>5. code[ii].rd \in Reg
  BY <1>2 DEF Instr
<1>6. AddLo(HighValue(code[ii]), code[ii + 1]) = Target /\ Target \in Value
  BY <1>1, <1>2, <1>3, PairSum DEF Target
<1>7. Pos \in Nat \ {0} /\ ii + 1 <= Len(code)
  BY <1>1, <1>2 DEF Pos
<1>8. /\ code[ii + 1] = orig[Pos + 1] /\ Pos + 1 \in 1 .. Len(orig)
      /\ StatesOf(code)[ii + 1] = Step(StatesOf(code)[ii], code[ii + 1])
  BY <1>3, <1>4, Zenon
<1> QED BY <1>1, <1>2, <1>3, <1>5, <1>6, <1>7, <1>8 DEF Target, Pos

\* The instructions of a pair are no barriers.
LEMMA PairNoBarrier ==
    ASSUME NEW i
    PROVE  /\ i.op \in {"LUI", "ADDI"} => ~isBarrier(i)
           /\ isMemorySink(i) => ~isBarrier(i)
BY DEF isBarrier, Calls, isMemorySink, isIFormatMemorySink, isSFormatMemorySink

\* A register that was set is the one whose value changed.
LEMMA SetRecords ==
    ASSUME NEW vs \in [Reg -> Value], NEW r \in Reg, NEW v,
           NEW q \in Reg \ {0}, setKnownValue(vs, r, v)[q] # Unknown
    PROVE  q = r \/ vs[q] # Unknown
BY DEF setKnownValue

\* What is known between the two instructions of a pair that is kept.
LEMMA HighKnown ==
    ASSUME IInv, Tame(orig), Here, IsPair
    PROVE  /\ Known(LearnHigh(values), StatesOf(code)[ii])
           /\ Recorded(orig, LearnHigh(values), Pos + 1)
           /\ \A q \in Reg : LearnHigh(values)[q] # Unknown =>
                 IF q = code[ii].rd THEN code[ii].sym = 0 ELSE values[q] # Unknown
<1> DEFINE l == code[ii]
           v == IF l.sym = 0 THEN Abs(Page * l.imm) ELSE Unknown
           m == StatesOf(code)[ii - 1]
<1>1. /\ Pos \in Nat \ {0} /\ l \in Instr /\ l = orig[Pos] /\ l.op = "LUI" /\ l.rd \in Reg \ {0}
      /\ IsState(m) /\ StatesOf(code)[ii] = Step(m, l)
  BY AtPair
<1>2. Known(values, m) /\ Recorded(orig, values, Pos) /\ values \in [Reg -> Value]
  BY DEF IInv, Known
<1>3. LearnHigh(values) = setKnownValue(values, l.rd, v)
  BY DEF LearnHigh
<1>4. v \in Value /\ (v # Unknown => HighValue(l) = v)
  <2>1. Page * l.imm \in Int
    BY <1>1, MachineAssumption DEF Instr
  <2>2. Abs(Page * l.imm) \in Value /\ Unknown \in Value
    BY <2>1, AbsValue DEF Value
  <2> QED BY <2>2 DEF HighValue
<1>5. Step(m, l) = SetReg(m, l.rd, HighValue(l))
  BY <1>1, StepLUI
<1>6. l.sym # 0 => v = Unknown
  OBVIOUS
<1> HIDE DEF v, m
<1>7. Known(LearnHigh(values), StatesOf(code)[ii])
  BY <1>1, <1>2, <1>3, <1>4, <1>5, KnownSet
<1>8. Recorded(orig, LearnHigh(values), Pos + 1)
  <2>1. Defs(l) = {l.rd} /\ ~isBarrier(l)
    BY <1>1 DEF Defs, isBarrier, Calls
  <2>2. \A q \in Reg \ {0} : LearnHigh(values)[q] # Unknown =>
           /\ ~isBarrier(orig[Pos])
           /\ q \in Defs(orig[Pos]) \/ values[q] # Unknown
    BY <1>1, <1>2, <1>3, <2>1, SetRecords
  <2> QED BY <1>1, <1>2, <2>2, RecordedStep
<1>9. \A q \in Reg : LearnHigh(values)[q] # Unknown =>
         IF q = l.rd THEN l.sym = 0 ELSE values[q] # Unknown
  BY <1>1, <1>2, <1>3, <1>6 DEF setKnownValue
<1> QED BY <1>7, <1>8, <1>9

\* A materialisation that is kept: its value is recorded behind the pair.
LEMMA KeepMaterializedStep == ASSUME IInv, Tame(orig), KeepMaterialized PROVE IInv'
<1> DEFINE s == code[ii + 1]
           vs == LearnHigh(values)
           m == StatesOf(code)[ii]
<1>1. /\ Here /\ IsPair /\ s.op = "ADDI" /\ values' = setKnownValue(vs, s.rd, Target)
      /\ ii' = ii + 2 /\ code' = code /\ orig' = orig
  BY DEF KeepMaterialized, IsMaterializedPair
<1>2. /\ ii \in Nat /\ ii > 0 /\ ii + 1 <= Len(code) /\ Len(code) \in Nat
      /\ Pos \in Nat \ {0} /\ code[ii].op = "LUI" /\ code[ii].rd \in Reg \ {0}
      /\ s \in Instr /\ s = orig[Pos + 1] /\ s.rs = code[ii].rd
      /\ AddLo(HighValue(code[ii]), s) = Target /\ Target \in Value
      /\ IsState(m) /\ IsState(StatesOf(code)[ii - 1])
      /\ m = Step(StatesOf(code)[ii - 1], code[ii]) /\ StatesOf(code)[ii + 1] = Step(m, s)
  BY <1>1, AtPair
<1>3. Known(vs, m) /\ Recorded(orig, vs, Pos + 1)
  BY <1>1, HighKnown
<1>4. s.rd \in Reg
  BY <1>2 DEF Instr
<1>5. Step(m, s) = SetReg(m, s.rd, Target)
  <2>1. m = SetReg(StatesOf(code)[ii - 1], code[ii].rd, HighValue(code[ii]))
    BY <1>2, StepLUI
  <2>2. m.regs[s.rs] = HighValue(code[ii])
    BY <1>2, <2>1, SetRegIs
  <2>3. Step(m, s) = SetReg(m, s.rd, AddLo(m.regs[s.rs], s))
    BY <1>1 DEF Step, Calls
  <2> QED BY <1>2, <2>2, <2>3
<1>6. Recorded(orig, values', (Pos + 1) + 1)
  <2>1. Defs(s) = {s.rd} /\ ~isBarrier(s)
    BY <1>1 DEF Defs, isBarrier, Calls
  <2>2. vs \in [Reg -> Value]
    BY <1>3 DEF Known
  <2> HIDE DEF vs
  <2>3. \A q \in Reg \ {0} : values'[q] # Unknown =>
           /\ ~isBarrier(orig[Pos + 1])
           /\ q \in Defs(orig[Pos + 1]) \/ vs[q] # Unknown
    BY <1>1, <1>2, <1>4, <2>1, <2>2, SetRecords
  <2>4. Pos + 1 \in Nat \ {0}
    BY <1>2
  <2> QED BY <1>3, <2>3, <2>4, RecordedStep
<1> HIDE DEF vs, m, s
<1>7. Known(values', StatesOf(code)[ii + 1])
  BY <1>1, <1>2, <1>3, <1>4, <1>5, KnownSet
<1>8. (Pos + 1) + 1 = Pos + 2 /\ (ii + 2) - 1 = ii + 1 /\ ii + 2 <= Len(code) + 1
  BY <1>2
<1> QED BY <1>1, <1>6, <1>7, <1>8, Advance

\* From m the load or store s leads to n, and nothing is known of what it loads.
SinkLeads(vs, m, s, n) ==
    /\ isMemorySink(s)
    /\ isIFormatMemorySink(s) => \E v : n = SetReg(m, s.rd, v)
    /\ isSFormatMemorySink(s) => n.regs = m.regs
    /\ isIFormatMemorySink(s) /\ s.rd # 0 => vs[s.rd] = Unknown

\* The map stays true over the sink of a memory pair.
LEMMA SinkKnown ==
    ASSUME NEW vs, NEW m, IsState(m), Known(vs, m), NEW s \in Instr, NEW n,
           SinkLeads(vs, m, s, n)
    PROVE  Known(vs, n)
<1> USE DEF SinkLeads
<1>1. s.rd \in Reg
  BY DEF Instr
<1>2. CASE isSFormatMemorySink(s)
  BY <1>2 DEF Known
<1>3. CASE isIFormatMemorySink(s)
  <2>1. PICK v : n = SetReg(m, s.rd, v)
    BY <1>3
  <2>2. \A q \in Reg : n.regs[q] = IF q = s.rd /\ s.rd # 0 THEN v ELSE m.regs[q]
    BY <2>1, SetRegIs
  <2> QED BY <1>1, <1>3, <2>2 DEF Known
<1> QED BY <1>2, <1>3 DEF isMemorySink

\* Nothing is known of the register that a memory pair loads.
LEMMA LoadedUnknown ==
    ASSUME IInv, Tame(orig), Here, IsMemoryPair, isIFormatMemorySink(code[ii + 1]),
           code[ii + 1].rd # 0
    PROVE  /\ values[code[ii + 1].rd] = Unknown
           /\ LearnHigh(values)[code[ii + 1].rd] = Unknown
<1> DEFINE s == code[ii + 1]
<1>1. /\ Pos \in Nat \ {0} /\ Pos + 1 \in 1 .. Len(orig) /\ Len(orig) \in Nat
      /\ code[ii] = orig[Pos] /\ s = orig[Pos + 1] /\ s \in Instr
      /\ code[ii].op = "LUI" /\ s.rs = code[ii].rd /\ isMemorySink(s)
      /\ PairTarget(code[ii], s) # Unknown
  <2>1. IsPair
    BY DEF IsMemoryPair
  <2> QED BY <2>1, AtPair DEF IsMemoryPair, Target
<1>2. Pos \in 1 .. (Len(orig) - 1) /\ MemoryPairAt(orig, Pos)
  BY <1>1 DEF MemoryPairAt
<1>3. /\ ~DefinedBefore(orig, Pos, s.rd)
      /\ s.rd = code[ii].rd => code[ii].sym # 0
  BY <1>1, <1>2 DEF Tame, PairsTame
<1>4. s.rd \in Reg \ {0}
  BY <1>1 DEF Instr
<1>5. values[s.rd] = Unknown
  BY <1>3, <1>4 DEF IInv, Recorded
<1>6. LearnHigh(values)[s.rd] = Unknown
  <2>1. IsPair
    BY DEF IsMemoryPair
  <2>2. \A q \in Reg : LearnHigh(values)[q] # Unknown =>
           IF q = code[ii].rd THEN code[ii].sym = 0 ELSE values[q] # Unknown
    BY <2>1, HighKnown
  <2> QED BY <1>3, <1>4, <1>5, <2>2
<1> QED BY <1>5, <1>6

\* A load or store that is kept: the LUI alone is learned.
LEMMA KeepMemoryStep == ASSUME IInv, Tame(orig), KeepMemory PROVE IInv'
<1> DEFINE s == code[ii + 1]
           m == StatesOf(code)[ii]
<1>1. /\ Here /\ IsPair /\ IsMemoryPair /\ isMemorySink(s)
      /\ values' = LearnHigh(values) /\ ii' = ii + 2 /\ code' = code /\ orig' = orig
  BY DEF KeepMemory, IsMemoryPair
<1>2. /\ ii \in Nat /\ ii > 0 /\ ii + 1 <= Len(code) /\ Len(code) \in Nat
      /\ Pos \in Nat \ {0} /\ s \in Instr /\ s = orig[Pos + 1]
      /\ IsState(m) /\ StatesOf(code)[ii + 1] = Step(m, s)
  BY <1>1, AtPair
<1>3. Known(values', m) /\ Recorded(orig, values', Pos + 1)
  BY <1>1, HighKnown
<1>4. isIFormatMemorySink(s) /\ s.rd # 0 => values'[s.rd] = Unknown
  BY <1>1, LoadedUnknown
<1>5. isIFormatMemorySink(s) => \E v : Step(m, s) = SetReg(m, s.rd, v)
  <2> SUFFICES ASSUME isIFormatMemorySink(s)
               PROVE  Step(m, s) = SetReg(m, s.rd, Load(m, AddLo(m.regs[s.rs], s), Size(s.op)))
    OBVIOUS
  <2>1. s.op \in {"LW", "LB"}
    BY DEF isIFormatMemorySink
  <2> QED BY <2>1 DEF Step, Calls
<1>6. isSFormatMemorySink(s) => Step(m, s).regs = m.regs
  <2> SUFFICES ASSUME isSFormatMemorySink(s) PROVE Step(m, s).regs = m.regs
    OBVIOUS
  <2>0. s.op \in {"SW", "SB"}
    BY DEF isSFormatMemorySink
  <2>1. Step(m, s) = Store(m, AddLo(m.regs[s.rs], s), Size(s.op), m.regs[s.rt])
    BY <2>0 DEF Step, Calls
  <2> QED BY <1>2, <2>1, StoreRegs
<1> HIDE DEF s, m
<1>7. Known(values', StatesOf(code)[ii + 1])
  <2> DEFINE n == Step(m, s)
             vs == values'
  <2>1. Known(vs, m) /\ StatesOf(code)[ii + 1] = n
    BY <1>2, <1>3
  <2>2. SinkLeads(vs, m, s, n)
    BY <1>1, <1>4, <1>5, <1>6, Zenon DEF SinkLeads
  <2> HIDE DEF n, vs
  <2>3. Known(vs, n)
    BY <1>2, <2>1, <2>2, SinkKnown
  <2> QED BY <2>1, <2>3 DEF vs
<1>8. Recorded(orig, values', (Pos + 1) + 1)
  <2>1. \A q \in Reg \ {0} : values'[q] # Unknown =>
           /\ ~isBarrier(orig[Pos + 1])
           /\ q \in Defs(orig[Pos + 1]) \/ values'[q] # Unknown
    BY <1>1, <1>2, PairNoBarrier DEF s
  <2>2. Pos + 1 \in Nat \ {0}
    BY <1>2
  <2> QED BY <1>3, <2>1, <2>2, RecordedStep
<1>9. (Pos + 1) + 1 = Pos + 2 /\ (ii + 2) - 1 = ii + 1 /\ ii + 2 <= Len(code) + 1
  BY <1>2
<1> QED BY <1>1, <1>7, <1>8, <1>9, Advance

\* Blocks with the same beginning are in the same state behind it.
LEMMA SameStart ==
    ASSUME NEW c, NEW d, NEW n \in Nat, Len(c) \in Nat, Len(d) \in Nat,
           n <= Len(c), n <= Len(d), \A k \in 1 .. n : c[k] = d[k]
    PROVE  StatesOf(c)[n] = StatesOf(d)[n]
<1>1. SameCode(c, 0, d, 0, n)
  BY DEF SameCode
<1>2. StatesOf(c)[0] = StatesOf(d)[0]
  BY RunRec
<1>3. \A j \in 0 .. n : StatesOf(c)[0 + j] = StatesOf(d)[0 + j]
  BY <1>1, <1>2, Follow
<1>4. n \in 0 .. n /\ 0 + n = n
  OBVIOUS
<1> QED BY <1>3, <1>4

\* The instruction the pass builds.
LEMMA ADDIInstr ==
    ASSUME NEW r \in Reg, NEW b \in Reg, NEW d \in Int
    PROVE  /\ ADDI(r, b, d) \in Instr
           /\ ADDI(r, b, d).op = "ADDI" /\ ADDI(r, b, d).rd = r /\ ADDI(r, b, d).rs = b
           /\ ADDI(r, b, d).imm = d /\ ADDI(r, b, d).sym = 0
<1>1. 0 \in Reg /\ 0 \in Int /\ "ADDI" \in Opcode
  BY MachineAssumption DEF Opcode
<1> QED BY <1>1 DEF ADDI, I, Instr

\* A LUI that becomes a move or an addition of a register with a near value.
LEMMA ReuseLUIStep == ASSUME IInv, Tame(orig), ReuseLUI PROVE IInv'
<1> DEFINE l == code[ii]
           m == StatesOf(code)[ii - 1]
           a == Page * l.imm
<1>1. PICK b \in findReusableBase(Abs(a)) : code' = [code EXCEPT ![ii] = ADDI(l.rd, b[1], b[2])]
  BY DEF ReuseLUI, LUIBases
<1>2. /\ ii \in Nat /\ ii > 0 /\ ii <= Len(code) /\ Len(code) \in Nat /\ Len(orig) \in Nat
      /\ l.op = "LUI" /\ l.sym = 0 /\ values' = setKnownValue(values, l.rd, Abs(a))
      /\ ii' = ii + 1 /\ orig' = orig /\ code \in Seq(Instr)
      /\ Recorded(orig, values, Pos) /\ Known(values, m) /\ values \in [Reg -> Value]
  BY DEF IInv, ReuseLUI, Here, SingleLUI, Known
<1>3. /\ ii \in 1 .. Len(code) /\ l \in Instr /\ l = orig[Pos] /\ Pos \in 1 .. Len(orig)
      /\ IsState(m) /\ StatesOf(code)[ii] = Step(m, l)
  BY <1>2, AtStep DEF Pos
<1>4. l.rd \in Reg /\ a \in Int /\ Abs(a) \in Value
  <2>1. l.rd \in Reg /\ a \in Int
    BY <1>3, MachineAssumption DEF Instr
  <2> HIDE DEF a
  <2> QED BY <2>1, AbsValue
<1>5. b[1] \in Reg /\ b[2] \in Int /\ AddImm(m.regs[b[1]], b[2]) = Abs(a)
  <2> HIDE DEF a, m
  <2> QED BY <1>2, <1>4, BaseReaches
<1> DEFINE n == ADDI(l.rd, b[1], b[2])
<1>6. /\ n \in Instr /\ n.op = "ADDI" /\ n.rd = l.rd /\ n.rs = b[1] /\ n.imm = b[2] /\ n.sym = 0
  BY <1>4, <1>5, ADDIInstr
<1>7. Step(m, l) = SetReg(m, l.rd, Abs(a))
  BY <1>2, StepLUI DEF HighValue
<1> HIDE DEF n, a, m
<1>8. Step(m, n) = SetReg(m, l.rd, Abs(a))
  BY <1>5, <1>6 DEF Step, Calls, AddLo
<1> DEFINE d == [code EXCEPT ![ii] = n]
<1>9. /\ d \in Seq(Instr) /\ Len(d) = Len(code) /\ d[ii] = n
      /\ \A k \in 1 .. Len(code) : k # ii => d[k] = code[k]
  BY <1>2, <1>3, <1>6
<1>10. code' = d
  BY <1>1 DEF n
<1> HIDE DEF d
<1>11. StatesOf(d)[ii - 1] = m
  <2>1. ii - 1 \in Nat /\ ii - 1 <= Len(code) /\ \A k \in 1 .. (ii - 1) : k \in 1 .. Len(code) /\ k # ii
    BY <1>2
  <2> DEFINE p == ii - 1
  <2>2. \A k \in 1 .. p : d[k] = code[k]
    BY <1>9, <2>1
  <2>3. p \in Nat /\ p <= Len(code) /\ p <= Len(d)
    BY <1>9, <2>1
  <2> HIDE DEF p
  <2>4. StatesOf(d)[p] = StatesOf(code)[p]
    BY <1>2, <1>9, <2>2, <2>3, SameStart
  <2> QED BY <2>4 DEF p, m
<1>12. StatesOf(d)[ii] = StatesOf(code)[ii] /\ StatesOf(code)[ii] = SetReg(m, l.rd, Abs(a))
  <2>1. StatesOf(d)[ii] = Step(StatesOf(d)[ii - 1], d[ii])
    BY <1>2, <1>3, <1>9, RunRec
  <2> QED BY <1>3, <1>7, <1>8, <1>9, <1>11, <2>1
<1>13. StatesOf(d)[Len(d)] = StatesOf(code)[Len(code)]
  <2> DEFINE k == Len(code) - ii
  <2>1. k \in Nat /\ ii + k = Len(code) /\ \A j \in 1 .. k : ii + j \in 1 .. Len(code) /\ ii + j # ii
    BY <1>2
  <2> HIDE DEF k
  <2>2. SameCode(d, ii, code, ii, k)
    BY <1>2, <1>9, <2>1 DEF SameCode
  <2> QED BY <1>9, <1>12, <2>1, <2>2, SameEnd
<1>14. Known(values', StatesOf(d)[ii])
  BY <1>2, <1>3, <1>4, <1>12, KnownSet
<1>15. Recorded(orig, values', Pos + 1)
  <2>1. Defs(l) = {l.rd} /\ ~isBarrier(l)
    BY <1>2 DEF Defs, isBarrier, Calls
  <2>2. \A q \in Reg \ {0} : values'[q] # Unknown =>
           /\ ~isBarrier(orig[Pos])
           /\ q \in Defs(orig[Pos]) \/ values[q] # Unknown
    BY <1>2, <1>3, <1>4, <2>1, SetRecords
  <2>3. Pos \in Nat \ {0}
    BY <1>3
  <2> QED BY <1>2, <2>2, <2>3, RecordedStep
<1>16. Erased' = Erased /\ Pos' = Pos + 1 /\ Erased \in Int
  <2>1. Len(code') = Len(code) /\ Len(code) \in Nat
    BY <1>2, <1>9, <1>10
  <2>2. Erased' = Erased
    BY <1>2, <2>1 DEF Erased
  <2>3. Erased \in Int
    BY <1>2, <2>1 DEF Erased
  <2> HIDE DEF Erased
  <2> QED BY <1>2, <2>2, <2>3 DEF Pos
<1>17. RestKept'
  <2>1. \A k \in ii + 1 .. Len(code) : k \in ii .. Len(code) /\ k \in 1 .. Len(code) /\ k # ii
    BY <1>2
  <2>2. \A k \in ii .. Len(code) : code[k] = orig[k + Erased]
    BY DEF IInv, RestKept
  <2>3. \A k \in ii + 1 .. Len(code) : d[k] = orig[k + Erased]
    BY <1>9, <2>1, <2>2
  <2> QED BY <1>2, <1>9, <1>10, <1>16, <2>3 DEF RestKept
<1>18. Known(values, StatesOf(code)[ii - 1])'
  <2>1. ii' - 1 = ii
    BY <1>2
  <2>2. Known(values', StatesOf(code')[ii' - 1])
    BY <1>10, <1>14, <2>1
  <2> QED BY <2>2 DEF Known
<1>19. Recorded(orig, values, Pos)'
  BY <1>2, <1>15, <1>16 DEF Recorded
<1>20. (StatesOf(code)[Len(code)] = StatesOf(orig)[Len(orig)])'
  BY <1>2, <1>10, <1>13 DEF IInv
<1>21. /\ code' \in Seq(Instr) /\ Len(code') <= Len(orig') /\ orig' \in Seq(Instr)
       /\ ii' \in Nat \ {0} /\ ii' <= Len(code') + 1
  BY <1>2, <1>9, <1>10 DEF IInv
<1> QED BY <1>17, <1>18, <1>19, <1>20, <1>21 DEF IInv

\* The block d is c with n in place of the instructions at p and p + 1.
Merged(d, c, p, n) ==
    /\ d \in Seq(Instr) /\ Len(d) = Len(c) - 1 /\ d[p] = n
    /\ \A k \in 1 .. (p - 1) : d[k] = c[k]
    /\ \A k \in (p + 1) .. Len(d) : d[k] = c[k + 1]

\* Rewriting the sink and erasing the LUI does that.
LEMMA RemoveAtMerges ==
    ASSUME NEW c \in Seq(Instr), NEW p \in Nat \ {0}, p + 1 <= Len(c), NEW n \in Instr
    PROVE  Merged(RemoveAt([c EXCEPT ![p + 1] = n], p), c, p, n)
<1> DEFINE e == [c EXCEPT ![p + 1] = n]
           f == SubSeq(e, 1, p - 1)
           g == SubSeq(e, p + 1, Len(e))
           N == Len(c)
<1>1. N \in Nat /\ p + 1 \in 1 .. N
  OBVIOUS
<1>2. /\ e \in Seq(Instr) /\ Len(e) = N /\ e[p + 1] = n
      /\ \A k \in 1 .. N : k # p + 1 => e[k] = c[k]
  BY <1>1
<1> HIDE DEF e, N
<1>3. /\ f \in Seq(Instr) /\ Len(f) = p - 1 /\ \A k \in 1 .. (p - 1) : f[k] = e[k]
  BY <1>1, <1>2
<1>4. /\ g \in Seq(Instr) /\ Len(g) = N - p /\ \A k \in 1 .. (N - p) : g[k] = e[k + p]
  BY <1>1, <1>2
<1>5. RemoveAt(e, p) = f \o g
  BY DEF RemoveAt
<1> HIDE DEF f, g
<1>6. /\ f \o g \in Seq(Instr) /\ Len(f \o g) = N - 1
      /\ \A k \in 1 .. (N - 1) : (f \o g)[k] = IF k <= p - 1 THEN f[k] ELSE g[k - (p - 1)]
  <2>1. Len(f) + Len(g) = N - 1 /\ Len(f) = p - 1
    BY <1>1, <1>3, <1>4
  <2>2. /\ f \o g \in Seq(Instr) /\ Len(f \o g) = Len(f) + Len(g)
        /\ \A k \in 1 .. Len(f) + Len(g) :
              (f \o g)[k] = IF k <= Len(f) THEN f[k] ELSE g[k - Len(f)]
    BY <1>3, <1>4, ConcatProperties, Zenon
  <2> QED BY <2>1, <2>2, Zenon
<1> DEFINE d == f \o g
<1>7. d[p] = n
  <2>1. p \in 1 .. (N - 1) /\ ~ (p <= p - 1) /\ p - (p - 1) = 1 /\ 1 \in 1 .. (N - p) /\ 1 + p = p + 1
    BY <1>1
  <2>2. d[p] = g[1]
    BY <1>6, <2>1
  <2>3. g[1] = e[1 + p]
    BY <1>4, <2>1
  <2> QED BY <1>2, <2>1, <2>2, <2>3
<1>8. ASSUME NEW k \in 1 .. (p - 1) PROVE d[k] = c[k]
  <2>1. k \in 1 .. (N - 1) /\ k <= p - 1 /\ k \in 1 .. N /\ k # p + 1
    BY <1>1
  <2> QED BY <1>2, <1>3, <1>6, <2>1
<1>9. ASSUME NEW k \in (p + 1) .. (N - 1) PROVE d[k] = c[k + 1]
  <2>1. /\ k \in 1 .. (N - 1) /\ ~ (k <= p - 1) /\ k - (p - 1) \in 1 .. (N - p)
        /\ (k - (p - 1)) + p = k + 1 /\ k + 1 \in 1 .. N /\ k + 1 # p + 1
    BY <1>1
  <2>2. d[k] = g[k - (p - 1)]
    BY <1>6, <2>1
  <2>3. g[k - (p - 1)] = e[(k - (p - 1)) + p]
    BY <1>4, <2>1
  <2> QED BY <1>2, <2>1, <2>2, <2>3
<1> HIDE DEF d
<1>10. d \in Seq(Instr) /\ Len(d) = N - 1
  BY <1>6 DEF d
<1>11. Merged(d, c, p, n)
  BY <1>7, <1>8, <1>9, <1>10 DEF Merged, N
<1> QED BY <1>5, <1>11 DEF d, e

\* A pair whose LUI may be deleted and whose sink reaches the same target from b.
LEMMA PairMerged ==
    ASSUME IInv, Tame(orig), Here, IsPair, canDeleteLUI(ii + 1, code[ii].rd),
           code[ii + 1].op = "ADDI" \/ isMemorySink(code[ii + 1]),
           isSFormatMemorySink(code[ii + 1]) => code[ii + 1].rt # code[ii].rd,
           NEW b \in findReusableBase(Target), NEW n \in Instr,
           Rebased(n, code[ii + 1], b[1], b[2]), NEW d, Merged(d, code, ii, n)
    PROVE  /\ IsState(StatesOf(code)[ii - 1])
           /\ StatesOf(d)[ii] = Step(StatesOf(code)[ii - 1], n)
           /\ StatesOf(d)[Len(d)] = StatesOf(code)[Len(code)]
           /\ code[ii + 1].op = "ADDI" =>
                 StatesOf(d)[ii] = SetReg(StatesOf(code)[ii - 1], code[ii + 1].rd, Target)
           /\ isIFormatMemorySink(code[ii + 1]) =>
                 \E v : StatesOf(d)[ii] = SetReg(StatesOf(code)[ii - 1], code[ii + 1].rd, v)
           /\ isSFormatMemorySink(code[ii + 1]) => StatesOf(d)[ii].regs = StatesOf(code)[ii - 1].regs
<1> DEFINE l == code[ii]
           s == code[ii + 1]
           m == StatesOf(code)[ii - 1]
           r == l.rd
<1>1. /\ ii \in Nat /\ ii > 0 /\ ii + 1 <= Len(code) /\ Len(code) \in Nat /\ code \in Seq(Instr)
      /\ l \in Instr /\ l.op = "LUI" /\ r \in Reg \ {0} /\ s \in Instr /\ s.rs = r
      /\ AddLo(HighValue(l), s) = Target /\ Target \in Value /\ IsState(m)
      /\ StatesOf(code)[ii] = Step(m, l)
      /\ StatesOf(code)[ii + 1] = Step(StatesOf(code)[ii], s)
  <2>1. code \in Seq(Instr)
    BY DEF IInv
  <2> QED BY <2>1, AtPair
<1>2. b[1] \in Reg /\ b[2] \in Int /\ AddImm(m.regs[b[1]], b[2]) = Target
  <2>1. Known(values, m)
    BY DEF IInv
  <2> HIDE DEF m
  <2> QED BY <1>1, <2>1, BaseReaches
<1>3. /\ Alike(Step(Step(m, l), s), Step(m, n), r)
      /\ r \in Defs(s) => Step(Step(m, l), s) = Step(m, n)
      /\ s.op = "ADDI" => Step(m, n) = SetReg(m, s.rd, Target)
      /\ isIFormatMemorySink(s) => \E v : Step(m, n) = SetReg(m, s.rd, v)
      /\ isSFormatMemorySink(s) => Step(m, n).regs = m.regs
  <2> DEFINE t == Target
             b1 == b[1]
             b2 == b[2]
  <2>1. /\ IsState(m) /\ l \in Instr /\ s \in Instr /\ l.op = "LUI" /\ l.rd # 0 /\ s.rs = l.rd
        /\ (s.op = "ADDI" \/ isMemorySink(s)) /\ (isSFormatMemorySink(s) => s.rt # l.rd)
        /\ b1 \in Reg /\ b2 \in Int /\ AddLo(HighValue(l), s) = t
        /\ AddImm(m.regs[b1], b2) = t /\ Rebased(n, s, b1, b2)
    BY <1>1, <1>2
  <2> HIDE DEF m, l, s, t, b1, b2
  <2>2. /\ Alike(Step(Step(m, l), s), Step(m, n), l.rd)
        /\ l.rd \in Defs(s) => Step(Step(m, l), s) = Step(m, n)
        /\ s.op = "ADDI" => Step(m, n) = SetReg(m, s.rd, t)
        /\ isIFormatMemorySink(s) => \E v : Step(m, n) = SetReg(m, s.rd, v)
        /\ isSFormatMemorySink(s) => Step(m, n).regs = m.regs
    BY <2>1, SinkAlike
  <2> QED BY <2>2 DEF t
<1>4. /\ d \in Seq(Instr) /\ Len(d) = Len(code) - 1 /\ d[ii] = n /\ Len(d) \in Nat
      /\ \A k \in 1 .. (ii - 1) : d[k] = code[k]
      /\ \A k \in (ii + 1) .. Len(d) : d[k] = code[k + 1]
  BY DEF Merged
<1>5. StatesOf(d)[ii - 1] = m
  <2> DEFINE p == ii - 1
  <2>1. p \in Nat /\ p <= Len(code) /\ p <= Len(d)
    BY <1>1, <1>4
  <2>2. \A k \in 1 .. p : d[k] = code[k]
    BY <1>4
  <2>3. Len(d) \in Nat /\ Len(code) \in Nat
    BY <1>1, <1>4
  <2> HIDE DEF p
  <2>4. StatesOf(d)[p] = StatesOf(code)[p]
    BY <2>1, <2>2, <2>3, SameStart
  <2> QED BY <2>4 DEF p
<1>6. StatesOf(d)[ii] = Step(m, n)
  <2>1. ii \in 1 .. Len(d)
    BY <1>1, <1>4
  <2>2. StatesOf(d)[ii] = Step(StatesOf(d)[ii - 1], d[ii])
    BY <1>4, <2>1, RunRec
  <2> QED BY <1>4, <1>5, <2>2
<1>7. StatesOf(d)[Len(d)] = StatesOf(code)[Len(code)]
  <2> DEFINE k == Len(code) - (ii + 1)
             p == ii + 1
  <2>1. k \in Nat /\ p \in Nat /\ p + k = Len(code) /\ ii + k = Len(d)
    BY <1>1, <1>4
  <2>2. SameCode(code, p, d, ii, k)
    <3>1. ASSUME NEW j \in 1 .. k PROVE code[p + j] = d[ii + j]
      <4>1. ii + j \in (ii + 1) .. Len(d) /\ (ii + j) + 1 = p + j
        BY <1>1, <1>4
      <4> QED BY <1>4, <4>1
    <3> HIDE DEF k, p
    <3>2. \A j \in 1 .. k : code[p + j] = d[ii + j]
      BY <3>1
    <3>3. p + k <= Len(code) /\ ii + k <= Len(d)
      <4>1. Len(code) <= Len(code) /\ Len(d) <= Len(d)
        BY <1>1, <1>4
      <4> QED BY <2>1, <4>1, Zenon
    <3> QED BY <1>1, <1>4, <2>1, <3>2, <3>3, Zenon DEF SameCode
  <2>3. StatesOf(code)[p] = Step(Step(m, l), s)
    BY <1>1
  <2>4. CASE r \in Defs(s)
    <3>1. StatesOf(code)[p] = StatesOf(d)[ii]
      BY <1>3, <1>6, <2>3, <2>4
    <3> HIDE DEF k, p
    <3> QED BY <2>1, <2>2, <3>1, SameEnd
  <2>5. CASE RedefinedBeforeUse(r, (ii + 1) + 1)
    <3>1. PICK x \in (p + 1) .. Len(code) :
             /\ r \in Defs(code[x]) \ Uses(code[x])
             /\ \A j \in (p + 1) .. (x - 1) : r \notin Uses(code[j])
      BY <2>5 DEF RedefinedBeforeUse
    <3> DEFINE e == x - p
    <3>2. e \in 1 .. k /\ p + e = x
      <4>1. p \in Int /\ k \in Int /\ Len(code) = p + k
        BY <2>1
      <4> HIDE DEF k, p
      <4>2. x \in (p + 1) .. (p + k)
        BY <4>1
      <4> QED BY <4>1, <4>2
    <3>3. ASSUME NEW j \in 1 .. (e - 1) PROVE r \notin Uses(code[p + j])
      <4>1. p + j \in (p + 1) .. (x - 1)
        BY <1>1
      <4> QED BY <3>1, <4>1
    <3>4. Ordinary(code, p, r)
      <4> SUFFICES ASSUME NEW y \in DOMAIN code, y > p
                   PROVE  code[y].op \in Calls => r \notin ArgReg
        BY DEF Ordinary
      <4>1. y \in Nat /\ ii <= y /\ y <= Len(code)
        BY <1>1
      <4>2. y + Erased \in DOMAIN orig /\ code[y] = orig[y + Erased]
        BY <4>1, AtStep
      <4>3. ii + Erased \in DOMAIN orig /\ l = orig[ii + Erased]
        BY SMTT(30), <1>1, AtStep
      <4> QED BY <1>1, <4>2, <4>3 DEF Tame, CallsTame
    <3>5. Alike(StatesOf(code)[p], StatesOf(d)[ii], r)
      BY <1>3, <1>6, <2>3
    <3>6. r \in Defs(code[p + e]) \ Uses(code[p + e])
      BY <3>1, <3>2
    <3>7. code \in Seq(Instr) /\ d \in Seq(Instr) /\ r \in Reg \ {0}
      BY <1>1, <1>4
    <3>8. \A j \in 1 .. (e - 1) : r \notin Uses(code[p + j])
      BY <3>3
    <3>9. e \in 1 .. k
      BY <3>2
    <3> HIDE DEF k, p, e, r
    <3>10. DefinedFirst(code, p, k, r)
      BY <3>6, <3>8, <3>9 DEF DefinedFirst
    <3>11. StatesOf(code)[Len(code)] = StatesOf(d)[Len(d)]
      BY <2>1, <2>2, <3>4, <3>5, <3>7, <3>10, Rejoin
    <3> QED BY <3>11
  <2> QED BY <2>4, <2>5 DEF canDeleteLUI
<1> QED BY <1>1, <1>3, <1>6, <1>7

\* What a merged pair leaves to show.
LEMMA MergeKeepsIInv ==
    ASSUME IInv, ii + 1 <= Len(code), NEW n, Merged(code', code, ii, n),
           ii' = ii + 1, orig' = orig, Recorded(orig, values', Pos + 2),
           Known(values', StatesOf(code')[ii]),
           StatesOf(code')[Len(code')] = StatesOf(code)[Len(code)]
    PROVE  IInv'
<1>1. /\ ii \in Nat /\ ii > 0 /\ Len(code) \in Nat /\ Len(orig) \in Nat
      /\ Len(code) <= Len(orig) /\ orig \in Seq(Instr)
  BY DEF IInv
<1>2. /\ code' \in Seq(Instr) /\ Len(code') = Len(code) - 1
      /\ \A k \in (ii + 1) .. Len(code') : code'[k] = code[k + 1]
  BY DEF Merged
<1>3. Erased \in Int /\ Erased' = Erased + 1
  BY <1>1, <1>2 DEF Erased
<1>4. Pos' = Pos + 2
  <2> HIDE DEF Erased
  <2> QED BY <1>1, <1>3 DEF Pos
<1>5. RestKept'
  <2>1. \A k \in ii .. Len(code) : code[k] = orig[k + Erased]
    BY DEF IInv, RestKept
  <2>2. ASSUME NEW k \in (ii + 1) .. Len(code') PROVE code'[k] = orig[k + Erased']
    <3> HIDE DEF Erased
    <3>1. k + 1 \in ii .. Len(code) /\ (k + 1) + Erased = k + Erased'
      BY <1>1, <1>2, <1>3
    <3>2. code'[k] = code[k + 1]
      BY <1>2
    <3>3. code[k + 1] = orig[(k + 1) + Erased]
      BY <2>1, <3>1
    <3> QED BY <3>1, <3>2, <3>3
  <2>3. \A k \in ii' .. Len(code') : code'[k] = orig'[k + Erased']
    BY <2>2
  <2> QED BY <2>3 DEF RestKept
<1>6. Known(values, StatesOf(code)[ii - 1])'
  <2>1. ii' - 1 = ii
    BY <1>1
  <2>2. Known(values', StatesOf(code')[ii' - 1])
    BY <2>1
  <2> QED BY <2>2 DEF Known
<1>7. Recorded(orig, values, Pos)'
  BY <1>4 DEF Recorded
<1>8. (StatesOf(code)[Len(code)] = StatesOf(orig)[Len(orig)])'
  BY DEF IInv
<1>9. /\ Len(code') <= Len(orig') /\ orig' \in Seq(Instr)
      /\ ii' \in Nat \ {0} /\ ii' <= Len(code') + 1
  BY <1>1, <1>2
<1> QED BY <1>2, <1>5, <1>6, <1>7, <1>8, <1>9 DEF IInv

\* A materialisation that becomes one addition, its LUI erased.
LEMMA ReuseMaterializedStep == ASSUME IInv, Tame(orig), ReuseMaterialized PROVE IInv'
<1> DEFINE s == code[ii + 1]
           m == StatesOf(code)[ii - 1]
<1>1. /\ Here /\ IsPair /\ s.op = "ADDI" /\ canDeleteLUI(ii + 1, code[ii].rd)
      /\ values' = setKnownValue(values, s.rd, Target) /\ ii' = ii + 1 /\ orig' = orig
  BY DEF ReuseMaterialized, IsMaterializedPair, CanReuseMaterialized
<1>2. PICK b \in findReusableBase(Target) :
         code' = RemoveAt([code EXCEPT ![ii + 1] = ADDI(s.rd, b[1], b[2])], ii)
  BY DEF ReuseMaterialized
<1>3. /\ ii \in Nat \ {0} /\ ii + 1 <= Len(code) /\ code \in Seq(Instr)
      /\ Pos \in Nat \ {0} /\ code[ii] = orig[Pos] /\ code[ii].op = "LUI"
      /\ s \in Instr /\ s = orig[Pos + 1] /\ Target \in Value /\ IsState(m)
  <2>1. code \in Seq(Instr)
    BY DEF IInv
  <2> QED BY <1>1, <2>1, AtPair
<1>4. Known(values, m) /\ Recorded(orig, values, Pos) /\ values \in [Reg -> Value]
  BY DEF IInv, Known
<1>5. b[1] \in Reg /\ b[2] \in Int /\ s.rd \in Reg
  <2>1. s.rd \in Reg
    BY <1>3 DEF Instr
  <2> HIDE DEF m
  <2> QED BY <1>3, <1>4, <2>1, BaseReaches
<1> DEFINE n == ADDI(s.rd, b[1], b[2])
<1>6. n \in Instr /\ Rebased(n, s, b[1], b[2])
  <2>1. /\ n \in Instr /\ n.op = "ADDI" /\ n.rd = s.rd /\ n.rs = b[1]
        /\ n.imm = b[2] /\ n.sym = 0
    BY <1>5, ADDIInstr
  <2> HIDE DEF n
  <2> QED BY <1>1, <2>1 DEF Rebased, isSFormatMemorySink
<1> HIDE DEF n
<1>7. Merged(code', code, ii, n)
  <2>1. code' = RemoveAt([code EXCEPT ![ii + 1] = n], ii)
    BY <1>2 DEF n
  <2> QED BY <1>3, <1>6, <2>1, RemoveAtMerges
<1>8. /\ StatesOf(code')[Len(code')] = StatesOf(code)[Len(code)]
      /\ StatesOf(code')[ii] = SetReg(m, s.rd, Target)
  <2> DEFINE d == code'
  <2>1. Merged(d, code, ii, n)
    BY <1>7
  <2>2. isSFormatMemorySink(code[ii + 1]) => code[ii + 1].rt # code[ii].rd
    BY <1>1 DEF isSFormatMemorySink
  <2>3. code[ii + 1].op = "ADDI" \/ isMemorySink(code[ii + 1])
    BY <1>1
  <2> HIDE DEF d
  <2>4. /\ StatesOf(d)[Len(d)] = StatesOf(code)[Len(code)]
        /\ code[ii + 1].op = "ADDI" =>
              StatesOf(d)[ii] = SetReg(StatesOf(code)[ii - 1], code[ii + 1].rd, Target)
    BY <1>1, <1>2, <1>6, <2>1, <2>2, <2>3, PairMerged
  <2> QED BY <1>1, <2>4 DEF d
<1>9. Known(values', StatesOf(code')[ii])
  <2> HIDE DEF m, s
  <2> QED BY <1>1, <1>3, <1>4, <1>5, <1>8, KnownSet
<1>10. Recorded(orig, values', Pos + 2)
  <2>1. Recorded(orig, values, Pos + 1)
    <3>1. \A q \in Reg \ {0} : values[q] # Unknown =>
             /\ ~isBarrier(orig[Pos])
             /\ q \in Defs(orig[Pos]) \/ values[q] # Unknown
      BY <1>3, PairNoBarrier
    <3> QED BY <1>3, <1>4, <3>1, RecordedStep
  <2>2. Recorded(orig, values', (Pos + 1) + 1)
    <3>1. Defs(s) = {s.rd} /\ ~isBarrier(s)
      BY <1>1 DEF Defs, isBarrier, Calls
    <3>2. \A q \in Reg \ {0} : values'[q] # Unknown =>
             /\ ~isBarrier(orig[Pos + 1])
             /\ q \in Defs(orig[Pos + 1]) \/ values[q] # Unknown
      BY <1>1, <1>3, <1>4, <1>5, <3>1, SetRecords
    <3>3. Pos + 1 \in Nat \ {0}
      BY <1>3
    <3> QED BY <2>1, <3>2, <3>3, RecordedStep
  <2>3. (Pos + 1) + 1 = Pos + 2
    BY <1>3
  <2> QED BY <2>2, <2>3
<1> QED BY <1>1, <1>3, <1>7, <1>8, <1>9, <1>10, MergeKeepsIInv

\* An instruction from which the pass learns nothing makes it forget at most.
LEMMA Forgets ==
    ASSUME NEW vs, NEW m, IsState(m), Known(vs, m), NEW i \in Instr,
           i.op \notin {"LUI", "C_LUI", "ADDI", "ADD", "C_LI", "C_MV"}
    PROVE  /\ Known(learnSimpleValue(vs, i), m)
           /\ \A q \in Reg \ {0} : learnSimpleValue(vs, i)[q] # Unknown => vs[q] # Unknown
<1>1. CASE isBarrier(i)
  <2>1. learnSimpleValue(vs, i) = Clear
    BY <1>1, Zenon DEF learnSimpleValue
  <2>2. \A q \in Reg \ {0} : Clear[q] = Unknown
    BY DEF Clear
  <2> QED BY <2>1, <2>2, ClearKnown
<1>2. CASE ~isBarrier(i)
  <2> DEFINE us == [r \in Reg |-> IF r \in Defs(i) \ {0} THEN Unknown ELSE vs[r]]
  <2>1. learnSimpleValue(vs, i) = us
    BY <1>2, Zenon DEF learnSimpleValue
  <2>2. Unknown \in Value /\ 0 \in Reg
    BY MachineAssumption DEF Value
  <2>3. us \in [Reg -> Value] /\ \A q \in Reg : us[q] = IF q \in Defs(i) \ {0} THEN Unknown ELSE vs[q]
    BY <2>2 DEF Known
  <2> HIDE DEF us
  <2>4. us[0] = Abs(0)
    BY <2>2, <2>3 DEF Known
  <2>5. Known(us, m)
    BY <2>3, <2>4 DEF Known
  <2> QED BY <2>1, <2>3, <2>5
<1> QED BY <1>1, <1>2

\* A load or store that is rebased, its LUI erased.
LEMMA ReuseMemoryStep == ASSUME IInv, Tame(orig), ReuseMemory PROVE IInv'
<1> DEFINE s == code[ii + 1]
           m == StatesOf(code)[ii - 1]
           i == code'[ii + 1]
<1>1. /\ Here /\ IsMemoryPair /\ IsPair /\ isMemorySink(s)
      /\ isSFormatMemorySink(s) => s.rt # code[ii].rd
      /\ canDeleteLUI(ii + 1, code[ii].rd) /\ ii' = ii + 1 /\ orig' = orig
      /\ values' = IF ii + 1 <= Len(code') /\ i.op # "BB"
                   THEN learnSimpleValue(values, i) ELSE values
  BY DEF ReuseMemory, IsMemoryPair, CanReuseMemory
<1>2. PICK b \in findReusableBase(Target) :
         code' = RemoveAt([code EXCEPT ![ii + 1] =
                       [@ EXCEPT !.rs = b[1], !.imm = b[2], !.sym = 0]], ii)
  BY DEF ReuseMemory
<1>3. /\ ii \in Nat \ {0} /\ ii + 1 <= Len(code) /\ code \in Seq(Instr) /\ Len(code) \in Nat
      /\ Len(orig) \in Nat /\ Pos \in Nat \ {0} /\ Pos + 1 \in 1 .. Len(orig)
      /\ code[ii] = orig[Pos] /\ code[ii].op = "LUI"
      /\ s \in Instr /\ s = orig[Pos + 1] /\ s.rs = code[ii].rd
      /\ Target \in Value /\ Target # Unknown /\ IsState(m)
  <2>1. code \in Seq(Instr)
    BY DEF IInv
  <2> QED BY <1>1, <2>1, AtPair
<1>4. Known(values, m) /\ Recorded(orig, values, Pos) /\ values \in [Reg -> Value]
  BY DEF IInv, Known
<1>5. b[1] \in Reg /\ b[2] \in Int
  <2> HIDE DEF m
  <2> QED BY <1>3, <1>4, BaseReaches
<1> DEFINE n == [s EXCEPT !.rs = b[1], !.imm = b[2], !.sym = 0]
<1>6. n \in Instr /\ Rebased(n, s, b[1], b[2])
  <2>1. 0 \in Int
    OBVIOUS
  <2> HIDE DEF s
  <2> QED BY <1>3, <1>5, <2>1 DEF Instr, Rebased
<1> HIDE DEF n
<1>7. Merged(code', code, ii, n)
  <2>1. code' = RemoveAt([code EXCEPT ![ii + 1] = n], ii)
    BY <1>2 DEF n
  <2> QED BY <1>3, <1>6, <2>1, RemoveAtMerges
<1>8. /\ StatesOf(code')[Len(code')] = StatesOf(code)[Len(code)]
      /\ StatesOf(code')[ii] = Step(m, n)
      /\ SinkLeads(values, m, s, StatesOf(code')[ii])
  <2> DEFINE d == code'
  <2>1. Merged(d, code, ii, n)
    BY <1>7
  <2>2. isSFormatMemorySink(code[ii + 1]) => code[ii + 1].rt # code[ii].rd
    BY <1>1
  <2>3. code[ii + 1].op = "ADDI" \/ isMemorySink(code[ii + 1])
    BY <1>1
  <2>4. isIFormatMemorySink(s) /\ s.rd # 0 => values[s.rd] = Unknown
    BY <1>1, LoadedUnknown
  <2> HIDE DEF d
  <2>5. /\ StatesOf(d)[Len(d)] = StatesOf(code)[Len(code)]
        /\ StatesOf(d)[ii] = Step(StatesOf(code)[ii - 1], n)
        /\ isIFormatMemorySink(code[ii + 1]) =>
              \E v : StatesOf(d)[ii] = SetReg(StatesOf(code)[ii - 1], code[ii + 1].rd, v)
        /\ isSFormatMemorySink(code[ii + 1]) => StatesOf(d)[ii].regs = StatesOf(code)[ii - 1].regs
    BY <1>1, <1>2, <1>6, <2>1, <2>2, <2>3, PairMerged
  <2>6. SinkLeads(values, m, s, StatesOf(d)[ii])
    BY <1>1, <2>4, <2>5, Zenon DEF SinkLeads
  <2> QED BY <2>5, <2>6 DEF d
<1> DEFINE k == StatesOf(code')[ii]
<1>9. Known(values, k) /\ IsState(k)
  <2>1. Known(values, k)
    <3> HIDE DEF k, m, s
    <3>1. SinkLeads(values, m, s, k)
      BY <1>8 DEF k
    <3> QED BY <1>3, <1>4, <3>1, SinkKnown
  <2>2. IsState(k)
    BY <1>3, <1>6, <1>8, StepState
  <2> QED BY <2>1, <2>2
<1>10. Recorded(orig, values, Pos + 2)
  <2>1. Recorded(orig, values, Pos + 1)
    <3>1. \A q \in Reg \ {0} : values[q] # Unknown =>
             /\ ~isBarrier(orig[Pos])
             /\ q \in Defs(orig[Pos]) \/ values[q] # Unknown
      BY <1>3, PairNoBarrier
    <3> QED BY <1>3, <1>4, <3>1, RecordedStep
  <2>2. Recorded(orig, values, (Pos + 1) + 1)
    <3>1. \A q \in Reg \ {0} : values[q] # Unknown =>
             /\ ~isBarrier(orig[Pos + 1])
             /\ q \in Defs(orig[Pos + 1]) \/ values[q] # Unknown
      BY <1>1, <1>3, PairNoBarrier
    <3>2. Pos + 1 \in Nat \ {0}
      BY <1>3
    <3> QED BY <2>1, <3>1, <3>2, RecordedStep
  <2>3. (Pos + 1) + 1 = Pos + 2
    BY <1>3
  <2> QED BY <2>2, <2>3
<1>11. Known(values', k) /\ Recorded(orig, values', Pos + 2)
  <2>1. CASE values' = values
    BY <1>9, <1>10, <2>1
  <2>2. CASE ii + 1 <= Len(code') /\ i.op # "BB" /\ values' = learnSimpleValue(values, i)
    <3>1. /\ Len(code') = Len(code) - 1 /\ ii + 1 \in (ii + 1) .. Len(code')
          /\ i = code[(ii + 1) + 1] /\ (ii + 1) + 1 = ii + 2 /\ ii + 2 <= Len(code)
      <4>1. /\ Len(code') = Len(code) - 1
            /\ \A x \in (ii + 1) .. Len(code') : code'[x] = code[x + 1]
        BY <1>7 DEF Merged
      <4>2. ii + 1 \in (ii + 1) .. Len(code') /\ (ii + 1) + 1 = ii + 2 /\ ii + 2 <= Len(code)
        BY <1>3, <2>2, <4>1
      <4> QED BY <4>1, <4>2
    <3> DEFINE x == ii + 2
    <3>2. x \in Nat /\ ii <= x /\ x <= Len(code) /\ i = code[x]
      BY <1>3, <3>1
    <3> HIDE DEF x, i
    <3>3. /\ code[x] \in Instr /\ x + Erased \in DOMAIN orig /\ code[x] = orig[x + Erased]
      BY <3>2, AtStep
    <3>4. x + Erased = Pos + 2
      <4>1. Erased \in Int
        BY <1>3 DEF Erased
      <4> HIDE DEF Erased
      <4> QED BY <1>3, <4>1 DEF x, Pos
    <3>5. Pos \in 1 .. (Len(orig) - 1) /\ MemoryPairAt(orig, Pos)
      BY <1>1, <1>3 DEF MemoryPairAt, Target
    <3>6. i.op \notin {"LUI", "C_LUI", "ADDI", "ADD", "C_LI", "C_MV"}
      BY <3>2, <3>3, <3>4, <3>5 DEF Tame, PairsTame
    <3>7. i \in Instr
      BY <3>2, <3>3
    <3> HIDE DEF k
    <3>8. /\ Known(learnSimpleValue(values, i), k)
          /\ \A q \in Reg \ {0} : learnSimpleValue(values, i)[q] # Unknown => values[q] # Unknown
      BY <1>9, <3>6, <3>7, Forgets
    <3> QED BY <1>10, <2>2, <3>8 DEF Recorded
  <2> QED BY <1>1, <2>1, <2>2
<1> QED BY <1>1, <1>3, <1>7, <1>8, <1>11, MergeKeepsIInv

(***************************************************************************)
(* The invariant holds on the way through every tame block: the map is     *)
(* true at the iterator, and the block as rewritten so far computes what   *)
(* the input did.                                                          *)
(***************************************************************************)
THEOREM IInvHolds == Spec => [](Tame(orig) => IInv)
<1> DEFINE TInv == Tame(orig) => IInv
<1>1. Init => TInv
  BY InitIInv
<1>2. TInv /\ [Next]_vars => TInv'
  <2> SUFFICES ASSUME TInv, [Next]_vars, Tame(orig)' PROVE IInv'
    OBVIOUS
  <2>1. orig' = orig
    BY DEF Next, vars, Barrier, ReuseMaterialized, KeepMaterialized, ReuseMemory,
           KeepMemory, ReuseLUI, LearnSimple, Done
  <2>2. Tame(orig)
    BY <2>1, Zenon
  <2>3. IInv
    BY <2>2
  <2> HIDE DEF TInv
  <2>4. CASE Barrier BY <2>2, <2>3, <2>4, BarrierStep
  <2>5. CASE ReuseMaterialized BY <2>2, <2>3, <2>5, ReuseMaterializedStep
  <2>6. CASE KeepMaterialized BY <2>2, <2>3, <2>6, KeepMaterializedStep
  <2>7. CASE ReuseMemory BY <2>2, <2>3, <2>7, ReuseMemoryStep
  <2>8. CASE KeepMemory BY <2>2, <2>3, <2>8, KeepMemoryStep
  <2>9. CASE ReuseLUI BY <2>2, <2>3, <2>9, ReuseLUIStep
  <2>10. CASE LearnSimple BY <2>2, <2>3, <2>10, LearnSimpleStep
  <2>11. CASE UNCHANGED vars
    BY <2>3, <2>11 DEF IInv, vars, RestKept, Recorded, Pos, Erased, Known
  <2> QED BY <2>4, <2>5, <2>6, <2>7, <2>8, <2>9, <2>10, <2>11 DEF Next, Done
<1> QED BY <1>1, <1>2, PTL DEF Spec

(***************************************************************************)
(* In every tame block, whatever its length, its constants and the width   *)
(* of a word, a register holds what RegValueMap says of it.                *)
(***************************************************************************)
THEOREM MapTrue == Spec => [](Tame(orig) => KnownValuesTrue)
<1>1. (Tame(orig) => IInv) => (Tame(orig) => KnownValuesTrue)
  <2> SUFFICES ASSUME IInv PROVE KnownValuesTrue
    OBVIOUS
  <2>1. /\ ii - 1 \in 0 .. Len(code) /\ code \in Seq(Instr)
        /\ Known(values, StatesOf(code)[ii - 1])
    BY DEF IInv
  <2>2. Run(SubSeq(code, 1, ii - 1)) = StatesOf(code)[ii - 1]
    BY <2>1, RunPrefix
  <2> QED BY <2>1, <2>2 DEF KnownValuesTrue, Known
<1> QED BY <1>1, IInvHolds, PTL

(***************************************************************************)
(* Every tame block computes after the pass what it computed before: the   *)
(* same registers, memory, stores and calls.                               *)
(***************************************************************************)
THEOREM BlockSafe == Spec => [](Tame(orig) => SameBehaviour)
<1>1. (Tame(orig) => IInv) => (Tame(orig) => SameBehaviour)
  <2> SUFFICES ASSUME IInv PROVE Run(code) = Run(orig)
    BY DEF SameBehaviour
  <2>1. /\ Len(code) \in Nat /\ Len(orig) \in Nat
        /\ StatesOf(code)[Len(code)] = StatesOf(orig)[Len(orig)]
    BY DEF IInv
  <2> QED BY <2>1, RunRec
<1> QED BY <1>1, IInvHolds, PTL
=============================================================================
