----------------------- MODULE StackMemForwardProofs -----------------------
(***************************************************************************)
(* Proofs about the forwarding of stack slots.  For every block that Tame  *)
(* admits, as long as no overwritten store is erased: the maps are true,   *)
(* and the block computes what it did.  For any block, stores erased or    *)
(* not: the walk stays in it where an erasure leaves it room (Room).       *)
(***************************************************************************)
EXTENDS StackMemForward, WellFoundedInduction, FiniteSetTheorems, SequenceTheorems,
        TLAPS

\* A set of natural numbers that is not empty has a least element.
LEMMA LeastNat ==
    ASSUME NEW S \in SUBSET Nat, S # {}
    PROVE  \E m \in S : \A k \in S : m <= k
<1> DEFINE R == OpToRel(<, Nat)
<1>1. PICK m \in S : \A k \in S : ~ (<<k, m>> \in R)
  <2>1. IsWellFoundedOn(R, Nat)
    BY NatLessThanWellFounded
  <2> HIDE DEF R
  <2> QED BY <2>1, WFMin
<1>2. \A k \in S : k < m => <<k, m>> \in R
  BY DEF OpToRel
<1> HIDE DEF R
<1>3. \A k \in S : ~ (k < m)
  BY <1>1, <1>2
<1>4. \A k \in S : k \in Nat
  OBVIOUS
<1> QED BY <1>3, <1>4

(***************************************************************************)
(* What a block computes, by its recursion equation.                       *)
(***************************************************************************)
\* The states a block goes through, from the initial one on.
StatesOf(c) ==
    CHOOSE f : f = [k \in 0 .. Len(c) |->
                       IF k = 0 THEN InitState ELSE Step(f[k - 1], c[k])]

\* The recursion has a solution, for the first m instructions and then all.
LEMMA StatesExist ==
    ASSUME NEW c, NEW n \in Nat
    PROVE  \E f : f = [k \in 0 .. n |-> IF k = 0 THEN InitState ELSE Step(f[k - 1], c[k])]
<1> DEFINE row(f, k) == IF k = 0 THEN InitState ELSE Step(f[k - 1], c[k])
           Sol(f, m) == f = [k \in 0 .. m |-> row(f, k)]
           Bad == {m \in 0 .. n : ~ \E f : Sol(f, m)}
<1>1. Bad = {}
  <2> SUFFICES ASSUME Bad # {} PROVE FALSE
    OBVIOUS
  <2>1. PICK m \in Bad : \A k \in Bad : m <= k
    <3>1. Bad \in SUBSET Nat
      OBVIOUS
    <3> HIDE DEF Bad
    <3> QED BY <3>1, LeastNat
  <2>2. m \in 0 .. n
    OBVIOUS
  <2>3. CASE m = 0
    <3> DEFINE f == [k \in 0 .. 0 |-> InitState]
    <3>1. \A k \in 0 .. 0 : row(f, k) = InitState
      OBVIOUS
    <3>2. Sol(f, 0)
      <4> HIDE DEF row
      <4> QED BY <3>1
    <3> HIDE DEF Sol, f
    <3> QED BY <2>1, <2>3, <3>2
  <2>4. CASE m # 0
    <3>1. m \in Nat /\ m - 1 \in 0 .. n /\ ~ (m <= m - 1)
      BY <2>2, <2>4
    <3>2. m - 1 \notin Bad
      <4> HIDE DEF Bad
      <4> QED BY <2>1, <3>1
    <3>3. PICK f : Sol(f, m - 1)
      <4> HIDE DEF Sol
      <4> QED BY <3>1, <3>2
    <3> DEFINE g == [k \in 0 .. m |-> IF k = m THEN row(f, m) ELSE f[k]]
    <3>4. \A k \in 0 .. m : g[k] = row(g, k)
      <4> TAKE k \in 0 .. m
      <4>1. CASE k = 0
        <5>1. k # m /\ k \in 0 .. m - 1
          BY <2>4, <3>1, <4>1
        <5>2. f[k] = row(f, k)
          <6> HIDE DEF row
          <6> QED BY <3>3, <5>1
        <5> QED BY <4>1, <5>1, <5>2
      <4>2. CASE k # 0
        <5>1. k - 1 \in 0 .. m /\ k - 1 # m /\ g[k - 1] = f[k - 1]
          BY <3>1, <4>2
        <5>2. row(g, k) = row(f, k)
          BY <4>2, <5>1, Zenon
        <5>3. CASE k = m
          BY <5>2, <5>3
        <5>4. CASE k # m
          <6>1. k \in 0 .. m - 1
            BY <3>1, <5>4
          <6>2. f[k] = row(f, k)
            <7> HIDE DEF row
            <7> QED BY <3>3, <6>1
          <6> QED BY <5>2, <5>4, <6>2
        <5> QED BY <5>3, <5>4
      <4> QED BY <4>1, <4>2
    <3>5. g = [k \in 0 .. m |-> g[k]]
      OBVIOUS
    <3>6. Sol(g, m)
      <4> HIDE DEF g, row
      <4> QED BY <3>4, <3>5
    <3> HIDE DEF Sol, g
    <3> QED BY <2>1, <3>6
  <2> QED BY <2>3, <2>4
<1>2. n \in 0 .. n
  OBVIOUS
<1>3. \E f : Sol(f, n)
  <2> HIDE DEF Sol
  <2> QED BY <1>1, <1>2
<1> QED BY <1>3

\* The states of a block start initially and follow its instructions.
LEMMA RunRec ==
    ASSUME NEW c, Len(c) \in Nat
    PROVE  /\ Run(c) = StatesOf(c)[Len(c)]
           /\ StatesOf(c)[0] = InitState
           /\ \A k \in 1 .. Len(c) : StatesOf(c)[k] = Step(StatesOf(c)[k - 1], c[k])
<1> DEFINE n == Len(c)
           row(f, k) == IF k = 0 THEN InitState ELSE Step(f[k - 1], c[k])
           Sol(f) == f = [k \in 0 .. n |-> row(f, k)]
           X == StatesOf(c)
<1>1. Run(c) = X[n]
  BY Zenon DEF Run, StatesOf
<1>2. X = CHOOSE f : Sol(f)
  BY Zenon DEF StatesOf
<1>3. \E f : Sol(f)
  BY StatesExist, Zenon
<1>4. Sol(X)
  <2> HIDE DEF Sol, X
  <2> QED BY <1>2, <1>3, Zenon
<1>5. \A k \in 0 .. n : X[k] = row(X, k)
  <2> HIDE DEF row, X, n
  <2> QED BY <1>4, Zenon
<1>6. n \in Nat /\ \A k \in 1 .. n : k \in 0 .. n /\ k # 0
  OBVIOUS
<1>7. X[0] = InitState
  <2>1. 0 \in 0 .. n
    BY <1>6
  <2>2. X[0] = row(X, 0)
    BY <1>5, <2>1, Zenon
  <2> QED BY <2>2, Zenon
<1>8. \A k \in 1 .. n : X[k] = Step(X[k - 1], c[k])
  <2> HIDE DEF X, n
  <2> QED BY <1>5, <1>6, Zenon
<1> QED BY <1>1, <1>7, <1>8

\* Behind p in c and behind q in d there are n instructions, the same ones.
SameCode(c, p, d, q, n) ==
    /\ Len(c) \in Nat /\ Len(d) \in Nat /\ p \in Nat /\ q \in Nat /\ n \in Nat
    /\ p + n <= Len(c) /\ q + n <= Len(d)
    /\ \A j \in 1 .. n : c[p + j] = d[q + j]

\* Two blocks that are in the same state and have the same instructions from
\* there on stay in the same states.
LEMMA Follow ==
    ASSUME NEW c, NEW d, NEW p, NEW q, NEW n, SameCode(c, p, d, q, n),
           StatesOf(c)[p] = StatesOf(d)[q]
    PROVE  \A j \in 0 .. n : StatesOf(c)[p + j] = StatesOf(d)[q + j]
<1> DEFINE Bad == {j \in 0 .. n : StatesOf(c)[p + j] # StatesOf(d)[q + j]}
<1> SUFFICES ASSUME Bad # {} PROVE FALSE
  OBVIOUS
<1> USE DEF SameCode
<1>1. PICK m \in Bad : \A k \in Bad : m <= k
  <2>1. Bad \in SUBSET Nat
    OBVIOUS
  <2> HIDE DEF Bad
  <2> QED BY <2>1, LeastNat
<1>2. m \in 0 .. n /\ StatesOf(c)[p + m] # StatesOf(d)[q + m]
  OBVIOUS
<1>3. m # 0
  <2>1. m = 0 => p + m = p /\ q + m = q
    OBVIOUS
  <2> QED BY <1>2, <2>1
<1>4. m - 1 \in 0 .. n /\ ~ (m <= m - 1) /\ m \in 1 .. n
  BY <1>2, <1>3
<1>5. StatesOf(c)[p + (m - 1)] = StatesOf(d)[q + (m - 1)]
  <2>1. m - 1 \notin Bad
    <3> HIDE DEF Bad
    <3> QED BY <1>1, <1>4
  <2> QED BY <1>4, <2>1
<1>6. /\ p + m \in 1 .. Len(c) /\ (p + m) - 1 = p + (m - 1)
      /\ q + m \in 1 .. Len(d) /\ (q + m) - 1 = q + (m - 1)
  BY <1>4
<1>7. StatesOf(c)[p + m] = Step(StatesOf(c)[(p + m) - 1], c[p + m])
  BY <1>6, RunRec
<1>8. StatesOf(d)[q + m] = Step(StatesOf(d)[(q + m) - 1], d[q + m])
  BY <1>6, RunRec
<1>9. c[p + m] = d[q + m]
  BY <1>4
<1> QED BY <1>2, <1>5, <1>6, <1>7, <1>8, <1>9, Zenon

\* The first instructions of a block bring it to one of its states.
LEMMA RunPrefix ==
    ASSUME NEW S, NEW c \in Seq(S), NEW n \in 0 .. Len(c)
    PROVE  Run(SubSeq(c, 1, n)) = StatesOf(c)[n]
<1> DEFINE d == SubSeq(c, 1, n)
<1>1. Len(d) = n /\ \A j \in 1 .. n : d[j] = c[j]
  OBVIOUS
<1> HIDE DEF d
<1>2. StatesOf(d)[0] = StatesOf(c)[0] /\ Run(d) = StatesOf(d)[n]
  BY <1>1, RunRec
<1>3. SameCode(d, 0, c, 0, n)
  BY <1>1 DEF SameCode
<1>4. \A j \in 0 .. n : StatesOf(d)[0 + j] = StatesOf(c)[0 + j]
  BY <1>2, <1>3, Follow
<1>5. n \in 0 .. n /\ 0 + n = n
  OBVIOUS
<1> QED BY <1>2, <1>4, <1>5 DEF d

(***************************************************************************)
(* States of the machine.                                                  *)
(***************************************************************************)
\* A state of the machine: a value for each register, and x0 is zero.
IsState(m) ==
    /\ m = [regs |-> m.regs, mem |-> m.mem, obs |-> m.obs]
    /\ m.regs = [q \in Reg |-> m.regs[q]]
    /\ m.regs[0] = Abs(0)

\* What SetReg changes.
LEMMA SetRegIs ==
    ASSUME NEW m, IsState(m), NEW r, NEW v
    PROVE  /\ IsState(SetReg(m, r, v))
           /\ SetReg(m, r, v).mem = m.mem /\ SetReg(m, r, v).obs = m.obs
           /\ \A q \in Reg : SetReg(m, r, v).regs[q] = IF q = r /\ r # 0 THEN v ELSE m.regs[q]
<1>1. CASE r = 0
  <2>1. SetReg(m, r, v) = m
    BY <1>1 DEF SetReg
  <2> QED BY <1>1, <2>1
<1>2. CASE r # 0
  <2> DEFINE s == [q \in Reg |-> m.regs[q]]
             t == [s EXCEPT ![r] = v]
  <2>1. SetReg(m, r, v) = [m EXCEPT !.regs = [m.regs EXCEPT ![r] = v]]
    BY <1>2, Zenon DEF SetReg
  <2>2. m = [regs |-> s, mem |-> m.mem, obs |-> m.obs] /\ m.regs = s
    BY Zenon DEF IsState
  <2>3. t = [q \in Reg |-> t[q]] /\ \A q \in Reg : t[q] = IF q = r THEN v ELSE m.regs[q]
    BY <2>2
  <2>4. 0 \in Reg
    BY MachineAssumption
  <2>5. t[0] = Abs(0)
    BY <1>2, <2>3, <2>4 DEF IsState
  <2> HIDE DEF t
  <2>6. [m EXCEPT !.regs = t] = [regs |-> t, mem |-> m.mem, obs |-> m.obs]
    <3> HIDE DEF s
    <3> QED BY <2>2
  <2>7. SetReg(m, r, v) = [regs |-> t, mem |-> m.mem, obs |-> m.obs]
    BY <2>1, <2>2, <2>6, Zenon DEF t
  <2> HIDE DEF s
  <2>8. SetReg(m, r, v).regs = t
    BY <2>7
  <2>9. SetReg(m, r, v).mem = m.mem /\ SetReg(m, r, v).obs = m.obs
    BY <2>7
  <2>10. IsState(SetReg(m, r, v))
    BY <2>3, <2>5, <2>7, <2>8, <2>9, Zenon DEF IsState
  <2> QED BY <1>2, <2>3, <2>8, <2>9, <2>10
<1> QED BY <1>1, <1>2

\* A visible store replaces two components of a state.
LEMMA TwoFields ==
    ASSUME NEW m, NEW x, NEW y, IsState(m)
    PROVE  [m EXCEPT !.obs = y, !.mem = x] = [regs |-> m.regs, mem |-> x, obs |-> y]
<1> DEFINE a == m.regs
           b == m.mem
           c == m.obs
<1>1. m = [regs |-> a, mem |-> b, obs |-> c]
  BY DEF IsState
<1> HIDE DEF a, b, c
<1>2. [m EXCEPT !.obs = y, !.mem = x]
         = [f \in {"regs", "mem", "obs"} |->
              IF f = "mem" THEN x ELSE IF f = "obs" THEN y ELSE m[f]]
  BY <1>1, Zenon
<1>3. [m EXCEPT !.obs = y, !.mem = x] = [regs |-> a, mem |-> x, obs |-> y]
  BY <1>1, <1>2
<1> QED BY <1>3 DEF a


\* The frame address n bytes from the initial stack pointer.
Frame(n) == IF n = 0 THEN <<"init", Sp>> ELSE <<"sum", <<"init", Sp>>, n>>

\* Frame addresses are added to and found again.
LEMMA FrameIs ==
    ASSUME NEW n \in Int
    PROVE  /\ InFrame(Frame(n)) /\ Offset(Frame(n)) = n
           /\ \A k \in Int : AddImm(Frame(n), k) = Frame(n + k)
<1> DEFINE s == <<"init", Sp>>
<1>1. s[1] = "init"
  OBVIOUS
<1>2. CASE n = 0
  <2>1. Frame(n) = s
    BY <1>2 DEF Frame
  <2>2. InFrame(s) /\ Offset(s) = 0
    BY <1>1 DEF InFrame, Offset
  <2>3. ASSUME NEW k \in Int PROVE AddImm(s, k) = Frame(k)
    <3> HIDE DEF s
    <3>1. AddImm(s, k) = IF k = 0 THEN s ELSE <<"sum", s, k>>
      BY <1>1 DEF AddImm
    <3> QED BY <3>1 DEF Frame, s
  <2>4. \A k \in Int : n + k = k
    BY <1>2
  <2> QED BY <1>2, <2>1, <2>2, <2>3, <2>4
<1>3. CASE n # 0
  <2> DEFINE t == <<"sum", s, n>>
  <2>1. Frame(n) = t
    BY <1>3 DEF Frame
  <2>2. t[1] = "sum" /\ t[2] = s /\ t[3] = n
    OBVIOUS
  <2> HIDE DEF t
  <2>3. InFrame(t) /\ Offset(t) = n
    BY <2>2 DEF InFrame, Offset
  <2>4. ASSUME NEW k \in Int PROVE AddImm(t, k) = Frame(n + k)
    <3>1. AddImm(t, k) = IF n + k = 0 THEN s ELSE <<"sum", s, n + k>>
      <4> HIDE DEF s
      <4> QED BY <2>2 DEF AddImm
    <3> QED BY <3>1 DEF Frame
  <2> QED BY <2>1, <2>3, <2>4
<1> QED BY <1>2, <1>3

(***************************************************************************)
(* A move gives its source's value: adding nothing changes no value that a *)
(* block computes.                                                         *)
(***************************************************************************)
Neutral(v) ==
    /\ v[1] = "abs" => v[2] \in Int /\ v = Abs(v[2])
    /\ v[1] = "sym" => v[3] \in Int /\ v = <<"sym", v[2], v[3]>>
    /\ v[1] = "sum" => /\ v[3] \in Int \ {0} /\ v = <<"sum", v[2], v[3]>>
                       /\ v[2][1] \notin {"abs", "sym", "sum"}

\* A number is neutral.
LEMMA AbsNeutral == ASSUME NEW n \in Int PROVE Neutral(Abs(n))
<1> DEFINE k == n % Word
           v == <<"abs", k>>
<1>1. Word \in Nat \ {0}
  BY MachineAssumption
<1>2. k \in Int /\ k % Word = k
  BY <1>1
<1> HIDE DEF k
<1>3. v[1] = "abs" /\ v[2] = k
  OBVIOUS
<1>4. Abs(k) = v
  BY <1>2 DEF Abs
<1> HIDE DEF v
<1>5. Neutral(v)
  BY <1>2, <1>3, <1>4 DEF Neutral
<1>6. Abs(n) = v
  BY DEF Abs, v, k
<1> QED BY <1>5, <1>6

\* So is what an immediate is added to.
LEMMA AddNeutral ==
    ASSUME NEW v, Neutral(v), NEW n \in Int
    PROVE  Neutral(AddImm(v, n)) /\ AddImm(v, 0) = v
<1>1. CASE v[1] = "abs"
  <2>1. v[2] \in Int /\ v = Abs(v[2])
    BY <1>1 DEF Neutral
  <2>2. \A k : AddImm(v, k) = Abs(v[2] + k)
    BY <1>1 DEF AddImm
  <2>3. v[2] + n \in Int /\ v[2] + 0 = v[2]
    BY <2>1
  <2> QED BY <2>1, <2>2, <2>3, AbsNeutral
<1>2. CASE v[1] = "sym"
  <2>1. v[3] \in Int /\ v = <<"sym", v[2], v[3]>>
    BY <1>2 DEF Neutral
  <2>2. \A k : AddImm(v, k) = <<"sym", v[2], v[3] + k>>
    BY <1>2 DEF AddImm
  <2>3. v[3] + n \in Int /\ v[3] + 0 = v[3]
    BY <2>1
  <2>4. AddImm(v, 0) = v
    BY <2>1, <2>2, <2>3, Zenon
  <2>5. ASSUME NEW x, NEW y \in Int PROVE Neutral(<<"sym", x, y>>)
    BY DEF Neutral
  <2> QED BY <2>2, <2>3, <2>4, <2>5
<1>3. CASE v[1] = "sum"
  <2>1. /\ v[3] \in Int \ {0} /\ v = <<"sum", v[2], v[3]>>
        /\ v[2][1] \notin {"abs", "sym", "sum"}
    BY <1>3 DEF Neutral
  <2>2. \A k : AddImm(v, k) = IF v[3] + k = 0 THEN v[2] ELSE <<"sum", v[2], v[3] + k>>
    BY <1>3 DEF AddImm
  <2>3. v[3] + n \in Int /\ v[3] + 0 = v[3]
    BY <2>1
  <2>4. AddImm(v, 0) = v
    BY <2>1, <2>2, <2>3, Zenon
  <2>5. ASSUME NEW x, NEW y \in Int \ {0}, x[1] \notin {"abs", "sym", "sum"}
        PROVE  Neutral(<<"sum", x, y>>)
    BY <2>5 DEF Neutral
  <2>6. Neutral(v[2])
    BY <2>1 DEF Neutral
  <2> QED BY <2>1, <2>2, <2>3, <2>4, <2>5, <2>6
<1>4. CASE v[1] \notin {"abs", "sym", "sum"}
  <2>1. \A k : AddImm(v, k) = IF k = 0 THEN v ELSE <<"sum", v, k>>
    BY <1>4 DEF AddImm
  <2>2. ASSUME NEW y \in Int \ {0} PROVE Neutral(<<"sum", v, y>>)
    BY <1>4 DEF Neutral
  <2> QED BY <2>1, <2>2
<1> QED BY <1>1, <1>2, <1>3, <1>4

\* Terms of another kind are neutral.
LEMMA OtherNeutral == ASSUME NEW v, v[1] \notin {"abs", "sym", "sum"} PROVE Neutral(v)
BY DEF Neutral

\* The sums and differences that instructions compute.
LEMMA SumsNeutral ==
    ASSUME NEW v, NEW w, Neutral(v), Neutral(w)
    PROVE  Neutral(Add(v, w)) /\ Neutral(Sub(v, w))
<1>1. v[1] = "abs" => v[2] \in Int
  BY DEF Neutral
<1>2. w[1] = "abs" => w[2] \in Int /\ -w[2] \in Int
  BY DEF Neutral
<1>3. Neutral(<<"add", v, w>>) /\ Neutral(<<"sub", v, w>>)
  BY OtherNeutral
<1>4. Neutral(Add(v, w))
  <2>1. CASE v[1] = "abs"
    <3>1. \/ Add(v, w) = AddImm(w, v[2])
          \/ w[1] = "abs" /\ Add(v, w) = AddImm(v, w[2])
      BY <2>1 DEF Add
    <3> QED BY <1>1, <1>2, <2>1, <3>1, AddNeutral
  <2>2. CASE v[1] # "abs" /\ w[1] = "abs"
    BY <1>2, <2>2, AddNeutral DEF Add
  <2>3. CASE v[1] # "abs" /\ w[1] # "abs"
    BY <1>3, <2>3 DEF Add
  <2> QED BY <2>1, <2>2, <2>3
<1>5. Neutral(Sub(v, w))
  <2>1. CASE w[1] = "abs"
    BY <1>2, <2>1, AddNeutral DEF Sub
  <2>2. CASE w[1] # "abs"
    BY <1>3, <2>2 DEF Sub
  <2> QED BY <2>1, <2>2
<1> QED BY <1>4, <1>5

\* A base plus the immediate of an instruction.
LEMMA AddLoNeutral ==
    ASSUME NEW v, Neutral(v), NEW i \in Instr
    PROVE  Neutral(AddLo(v, i))
<1>1. i.imm \in Int
  BY DEF Instr
<1>2. CASE i.sym = 0
  BY <1>1, <1>2, AddNeutral DEF AddLo
<1>3. CASE i.sym # 0 /\ v = <<"hi", i.sym, i.imm>>
  <2>1. AddLo(v, i) = <<"sym", i.sym, i.imm>>
    BY <1>3 DEF AddLo
  <2>2. ASSUME NEW x, NEW y \in Int PROVE Neutral(<<"sym", x, y>>)
    BY DEF Neutral
  <2> QED BY <1>1, <2>1, <2>2
<1>4. CASE i.sym # 0 /\ v # <<"hi", i.sym, i.imm>>
  <2>1. AddLo(v, i) = <<"lo", v, i.sym, i.imm>>
    BY <1>4 DEF AddLo
  <2>2. Neutral(<<"lo", v, i.sym, i.imm>>)
    BY OtherNeutral
  <2> QED BY <2>1, <2>2
<1> QED BY <1>2, <1>3, <1>4

\* What was last seen outside the frame, if it was a store.
LastNeutral(o) == o # <<>> /\ o[Len(o)][1] = "store" => Neutral(o[Len(o)][4])

\* A state in which all values are neutral, those in memory too.
Sound(m) ==
    /\ IsState(m)
    /\ \A r \in Reg : Neutral(m.regs[r])
    /\ \A a \in DOMAIN m.mem : Neutral(m.mem[a][2])
    /\ (\E S : m.obs \in Seq(S)) /\ LastNeutral(m.obs)

\* The initial state.
LEMMA InitSound == Sound(InitState)
<1> DEFINE rs == [r \in Reg |-> IF r = 0 THEN Abs(0) ELSE <<"init", r>>]
<1>1. InitState.regs = rs /\ InitState.mem = [a \in {} |-> 0] /\ InitState.obs = <<>>
  BY DEF InitState
<1>2. 0 \in Reg
  BY MachineAssumption
<1>3. IsState(InitState)
  BY <1>2 DEF IsState, InitState
<1>4. \A r \in Reg : Neutral(rs[r])
  <2> TAKE r \in Reg
  <2>1. Neutral(Abs(0))
    BY AbsNeutral
  <2>2. Neutral(<<"init", r>>)
    BY OtherNeutral
  <2> QED BY <2>1, <2>2
<1> HIDE DEF rs
<1>5. <<>> \in Seq({}) /\ LastNeutral(<<>>)
  BY DEF LastNeutral
<1>6. DOMAIN InitState.mem = {}
  BY <1>1
<1> QED BY <1>1, <1>3, <1>4, <1>5, <1>6 DEF Sound

\* A byte of the frame belongs to a neutral value.
LEMMA ByteNeutral == ASSUME NEW m, Sound(m), NEW a PROVE Neutral(Byte(m, a)[2])
<1>1. CASE a \in DOMAIN m.mem
  BY <1>1 DEF Byte, Sound
<1>2. CASE a \notin DOMAIN m.mem
  <2> DEFINE x == <<"mem", a, Len(m.obs)>>
  <2>1. Neutral(x)
    BY OtherNeutral
  <2> HIDE DEF x
  <2>2. Byte(m, a) = <<"byte", x, 0>>
    BY <1>2 DEF Byte, x
  <2> QED BY <2>1, <2>2
<1> QED BY <1>1, <1>2

\* What a load returns is neutral.
LEMMA LoadNeutral == ASSUME NEW m, Sound(m), NEW v, NEW n \in {1, 4} PROVE Neutral(Load(m, v, n))
<1> DEFINE bs == [k \in 0 .. (n - 1) |-> Byte(m, Offset(v) + k)]
           one == <<"load", v, n, Len(m.obs), m.mem>>
           all == <<"bytes", bs>>
           last == m.obs[Len(m.obs)]
<1>1. Neutral(one) /\ Neutral(all)
  BY OtherNeutral
<1>2. Neutral(bs[0][2])
  <2>1. 0 \in 0 .. (n - 1)
    OBVIOUS
  <2>2. bs[0] = Byte(m, Offset(v) + 0)
    BY <2>1
  <2> HIDE DEF bs
  <2> QED BY <2>2, ByteNeutral
<1>3. JustStored(m, v) => Neutral(last[4])
  BY DEF JustStored, Sound, LastNeutral
<1>4. Load(m, v, n) \in {last[4], one, bs[0][2], all} /\ (Load(m, v, n) = last[4] => JustStored(m, v) \/ Load(m, v, n) \in {one, bs[0][2], all})
  BY Zenon DEF Load
<1> HIDE DEF bs, one, all, last
<1> QED BY <1>1, <1>2, <1>3, <1>4

\* A register gets a neutral value.
LEMMA SetSound ==
    ASSUME NEW m, Sound(m), NEW r, NEW v, Neutral(v)
    PROVE  Sound(SetReg(m, r, v))
<1>1. IsState(m)
  BY DEF Sound
<1>2. /\ IsState(SetReg(m, r, v))
      /\ SetReg(m, r, v).mem = m.mem /\ SetReg(m, r, v).obs = m.obs
      /\ \A q \in Reg : SetReg(m, r, v).regs[q] = IF q = r /\ r # 0 THEN v ELSE m.regs[q]
  BY <1>1, SetRegIs
<1> QED BY <1>2 DEF Sound

\* The memory after n bytes of w were stored in the frame.
Stored(m, a, n, w) ==
    [b \in DOMAIN m.mem \cup a .. (a + n - 1) |->
        IF b \in a .. (a + n - 1) THEN ByteOf(w, b - a) ELSE m.mem[b]]

\* What a store changes.
LEMMA StoreIs ==
    ASSUME NEW m, IsState(m), NEW v, NEW n, NEW w
    PROVE  /\ IsState(Store(m, v, n, w)) /\ Store(m, v, n, w).regs = m.regs
           /\ InFrame(v) => /\ Store(m, v, n, w).obs = m.obs
                            /\ Store(m, v, n, w).mem = Stored(m, Offset(v), n, w)
           /\ ~InFrame(v) => /\ Store(m, v, n, w).mem = [a \in {} |-> 0]
                             /\ Store(m, v, n, w).obs
                                   = Append(m.obs, <<"store", v, n, w, m.mem>>)
<1> DEFINE in == Stored(m, Offset(v), n, w)
           out == Append(m.obs, <<"store", v, n, w, m.mem>>)
           none == [a \in {} |-> 0]
<1>1. Store(m, v, n, w) = IF InFrame(v) THEN [m EXCEPT !.mem = in]
                          ELSE [m EXCEPT !.obs = out, !.mem = none]
  BY Zenon DEF Store, Stored
<1> HIDE DEF in, out, none
<1>2. m = [regs |-> m.regs, mem |-> m.mem, obs |-> m.obs]
  BY DEF IsState
<1>3. \E x, y : /\ Store(m, v, n, w) = [regs |-> m.regs, mem |-> x, obs |-> y]
                /\ InFrame(v) => x = in /\ y = m.obs
                /\ ~InFrame(v) => x = none /\ y = out
  <2>1. CASE InFrame(v)
    <3>1. [m EXCEPT !.mem = in] = [regs |-> m.regs, mem |-> in, obs |-> m.obs]
      BY <1>2
    <3> QED BY <1>1, <2>1, <3>1, Zenon
  <2>2. CASE ~InFrame(v)
    <3>1. [m EXCEPT !.obs = out, !.mem = none] = [regs |-> m.regs, mem |-> none, obs |-> out]
      BY TwoFields
    <3> QED BY <1>1, <2>2, <3>1, Zenon
  <2> QED BY <2>1, <2>2
<1>4. PICK x, y : /\ Store(m, v, n, w) = [regs |-> m.regs, mem |-> x, obs |-> y]
                  /\ InFrame(v) => x = in /\ y = m.obs
                  /\ ~InFrame(v) => x = none /\ y = out
  BY <1>3
<1>5. /\ Store(m, v, n, w).regs = m.regs /\ Store(m, v, n, w).mem = x
      /\ Store(m, v, n, w).obs = y
  BY <1>4
<1>6. IsState(Store(m, v, n, w))
  BY <1>4, <1>5 DEF IsState
<1> QED BY <1>4, <1>5, <1>6 DEF in, out, none

\* Bytes know their word.
LEMMA ByteOfIs == ASSUME NEW w, NEW k PROVE ByteOf(w, k)[2] = w
BY DEF ByteOf

\* Something else is seen outside the frame.
LEMMA SeenSound ==
    ASSUME NEW o, NEW x, \E S : o \in Seq(S), x[1] = "store" => Neutral(x[4])
    PROVE  (\E S : Append(o, x) \in Seq(S)) /\ LastNeutral(Append(o, x))
<1>1. PICK S : o \in Seq(S)
  OBVIOUS
<1> DEFINE T == S \cup {x}
<1>2. o \in Seq(T) /\ x \in T
  <2>1. S \subseteq T /\ x \in T
    OBVIOUS
  <2> HIDE DEF T
  <2> QED BY <1>1, <2>1
<1> HIDE DEF T
<1>3. /\ Append(o, x) \in Seq(T) /\ Len(Append(o, x)) = Len(o) + 1
      /\ Append(o, x)[Len(o) + 1] = x
  BY <1>2
<1> QED BY <1>3 DEF LastNeutral

\* A neutral word is stored.
LEMMA StoreSound ==
    ASSUME NEW m, Sound(m), NEW v, NEW n, NEW w, Neutral(w)
    PROVE  Sound(Store(m, v, n, w))
<1> DEFINE t == Store(m, v, n, w)
           x == <<"store", v, n, w, m.mem>>
<1>1. IsState(m)
  BY DEF Sound
<1>2. /\ IsState(t) /\ t.regs = m.regs
      /\ InFrame(v) => t.obs = m.obs /\ t.mem = Stored(m, Offset(v), n, w)
      /\ ~InFrame(v) => t.mem = [a \in {} |-> 0] /\ t.obs = Append(m.obs, x)
  BY <1>1, StoreIs
<1> SUFFICES Sound(t)
  OBVIOUS
<1> HIDE DEF t
<1>3. \A r \in Reg : Neutral(t.regs[r])
  BY <1>2 DEF Sound
<1>4. CASE InFrame(v)
  <2>1. \A a \in DOMAIN Stored(m, Offset(v), n, w) : Neutral(Stored(m, Offset(v), n, w)[a][2])
    BY ByteOfIs DEF Stored, Sound
  <2> QED BY <1>2, <1>3, <1>4, <2>1 DEF Sound
<1>5. CASE ~InFrame(v)
  <2>1. x[4] = w
    OBVIOUS
  <2> HIDE DEF x
  <2>2. (\E S : Append(m.obs, x) \in Seq(S)) /\ LastNeutral(Append(m.obs, x))
    BY <2>1, SeenSound DEF Sound
  <2>3. DOMAIN t.mem = {}
    BY <1>2, <1>5
  <2> QED BY <1>2, <1>3, <1>5, <2>2, <2>3 DEF Sound
<1> QED BY <1>4, <1>5

\* A call.
LEMMA CallSound ==
    ASSUME NEW m, Sound(m), NEW i
    PROVE  /\ Sound(Call(m, i))
           /\ \A r \in Reg \ Lost(i) : Call(m, i).regs[r] = m.regs[r]
<1> DEFINE left == [q \in Reg |-> IF q \in Lost(i)
                                  THEN <<"ret", q, Len(m.obs)>> ELSE m.regs[q]]
           x == <<"call", Callee(m, i), [r \in ArgReg |-> m.regs[r]], m.mem>>
           none == [a \in {} |-> 0]
<1>1. Call(m, i) = [regs |-> left, mem |-> none, obs |-> Append(m.obs, x)]
  BY Zenon DEF Call
<1>2. 0 \in Reg /\ 0 \notin Lost(i)
  BY MachineAssumption DEF Lost
<1>3. \A r \in Reg : Neutral(left[r])
  <2> TAKE r \in Reg
  <2>1. Neutral(<<"ret", r, Len(m.obs)>>)
    BY OtherNeutral
  <2> QED BY <2>1 DEF Sound
<1>4. left = [q \in Reg |-> left[q]] /\ left[0] = Abs(0)
  <2>1. m.regs[0] = Abs(0)
    BY DEF Sound, IsState
  <2> QED BY <1>2, <2>1
<1>5. \A r \in Reg \ Lost(i) : left[r] = m.regs[r]
  OBVIOUS
<1>6. DOMAIN none = {}
  OBVIOUS
<1>7. x[1] # "store"
  OBVIOUS
<1> HIDE DEF left, x, none
<1>8. (\E S : Append(m.obs, x) \in Seq(S)) /\ LastNeutral(Append(m.obs, x))
  BY <1>7, SeenSound DEF Sound
<1>9. Call(m, i).regs = left /\ Call(m, i).mem = none /\ Call(m, i).obs = Append(m.obs, x)
  BY <1>1
<1>10. IsState(Call(m, i))
  BY <1>1, <1>4, <1>9 DEF IsState
<1> QED BY <1>3, <1>5, <1>6, <1>8, <1>9, <1>10 DEF Sound

\* The instructions that only have a result.
Results == {"LUI", "C_LUI", "ADDI", "C_LI", "C_MV", "ADD", "SUB", "LW", "C_LW", "LB"}

\* What they compute is neutral.
LEMMA ResultIs ==
    ASSUME NEW m, Sound(m), NEW i \in Instr, i.op \in Results
    PROVE  \E v : Neutral(v) /\ Step(m, i) = SetReg(m, i.rd, v)
<1>1. i.rs \in Reg /\ i.rt \in Reg /\ i.imm \in Int
  BY DEF Instr
<1>2. Neutral(m.regs[i.rs]) /\ Neutral(m.regs[i.rt])
  BY <1>1 DEF Sound
<1>3. CASE i.op \in {"LUI", "C_LUI"}
  <2>1. Page * i.imm \in Int
    BY <1>1, MachineAssumption
  <2>2. Neutral(Abs(Page * i.imm))
    BY <2>1, AbsNeutral
  <2>3. Neutral(<<"hi", i.sym, i.imm>>)
    BY OtherNeutral
  <2>4. Step(m, i) = SetReg(m, i.rd, IF i.sym = 0 THEN Abs(Page * i.imm)
                                     ELSE <<"hi", i.sym, i.imm>>)
    BY <1>3 DEF Step, Calls
  <2> QED BY <2>2, <2>3, <2>4
<1>4. CASE i.op = "ADDI"
  <2>1. Step(m, i) = SetReg(m, i.rd, AddLo(m.regs[i.rs], i))
    BY <1>4 DEF Step, Calls
  <2> QED BY <1>2, <2>1, AddLoNeutral
<1>5. CASE i.op = "C_LI"
  <2>1. Step(m, i) = SetReg(m, i.rd, Abs(i.imm))
    BY <1>5 DEF Step, Calls
  <2> QED BY <1>1, <2>1, AbsNeutral
<1>6. CASE i.op = "C_MV"
  <2>1. Step(m, i) = SetReg(m, i.rd, m.regs[i.rs])
    BY <1>6 DEF Step, Calls
  <2> QED BY <1>2, <2>1
<1>7. CASE i.op = "ADD"
  <2>1. Step(m, i) = SetReg(m, i.rd, Add(m.regs[i.rs], m.regs[i.rt]))
    BY <1>7 DEF Step, Calls
  <2> QED BY <1>2, <2>1, SumsNeutral
<1>8. CASE i.op = "SUB"
  <2>1. Step(m, i) = SetReg(m, i.rd, Sub(m.regs[i.rs], m.regs[i.rt]))
    BY <1>8 DEF Step, Calls
  <2> QED BY <1>2, <2>1, SumsNeutral
<1>9. CASE i.op \in {"LW", "C_LW", "LB"}
  <2>1. Step(m, i) = SetReg(m, i.rd, Load(m, AddLo(m.regs[i.rs], i), Size(i.op)))
    BY <1>9 DEF Step, Calls
  <2>2. Size(i.op) \in {1, 4}
    BY DEF Size
  <2> QED BY <2>1, <2>2, LoadNeutral
<1> QED BY <1>3, <1>4, <1>5, <1>6, <1>7, <1>8, <1>9 DEF Results

\* Every instruction takes a sound state to a sound state, and changes the
\* stack pointer only where it has it as its result.
LEMMA StepSound ==
    ASSUME NEW m, Sound(m), NEW i \in Instr
    PROVE  /\ Sound(Step(m, i))
           /\ Sp \notin Defs(i) => Step(m, i).regs[Sp] = m.regs[Sp]
<1>1. i.op \in Opcode /\ i.rt \in Reg /\ IsState(m)
  BY DEF Instr, Sound
<1>2. CASE i.op \in Results
  <2>1. PICK v : Neutral(v) /\ Step(m, i) = SetReg(m, i.rd, v)
    BY <1>2, ResultIs
  <2>2. \A q \in Reg : SetReg(m, i.rd, v).regs[q] = IF q = i.rd /\ i.rd # 0 THEN v ELSE m.regs[q]
    BY <1>1, SetRegIs
  <2>3. Defs(i) = {i.rd}
    BY <1>2 DEF Defs, Results
  <2>4. Sp \in Reg
    BY StackAssumption
  <2>5. Sound(Step(m, i))
    BY <2>1, SetSound
  <2> QED BY <2>1, <2>2, <2>3, <2>4, <2>5
<1>3. CASE i.op \in {"SW", "SB"}
  <2>1. Step(m, i) = Store(m, AddLo(m.regs[i.rs], i), Size(i.op), m.regs[i.rt])
    BY <1>3 DEF Step, Calls
  <2>2. Neutral(m.regs[i.rt])
    BY <1>1 DEF Sound
  <2> QED BY <1>1, <2>1, <2>2, StoreIs, StoreSound
<1>4. CASE i.op = "C_JAL"
  <2>1. Step(m, i) = Call(m, i)
    BY <1>4 DEF Step, Calls
  <2>2. Sp \notin Defs(i) => Sp \in Reg \ Lost(i)
    BY StackAssumption DEF Lost
  <2> QED BY <2>1, <2>2, CallSound
<1>5. CASE i.op = "BEQ"
  BY <1>5 DEF Step, Calls
<1> QED BY <1>1, <1>2, <1>3, <1>4, <1>5 DEF Opcode, Results

(***************************************************************************)
(* The maps of the walk.                                                   *)
(***************************************************************************)
PendingLoad == [inst : Nat, dst : Reg]
StoredValue == [inst : Nat, src : Reg, avail : BOOLEAN, loads : Seq(PendingLoad)]
IsSlot(s) == s = <<s[1], s[2]>> /\ s[1] \in Int /\ s[2] \in {1, 4}

\* Stores and StackBases are maps of their types.
Typed(st, ba) ==
    /\ st = [s \in DOMAIN st |-> st[s]] /\ ba = [r \in DOMAIN ba |-> ba[r]]
    /\ \A s \in DOMAIN st : st[s] \in StoredValue /\ IsSlot(s)
    /\ \A r \in DOMAIN ba : r \in Reg \ {0} /\ ba[r] \in Int

\* n bytes of v are in the frame at a.
Holds(m, a, n, v) ==
    \A k \in 0 .. (n - 1) : a + k \in DOMAIN m.mem /\ m.mem[a + k] = ByteOf(v, k)

\* With the stack pointer d bytes from where it was, the maps are true.
Tracks(m, d, st, ba) ==
    /\ Sound(m) /\ d \in Int /\ m.regs[Sp] = Frame(d)
    /\ Typed(st, ba)
    /\ \A r \in DOMAIN ba : m.regs[r] = Frame(d + ba[r])
    /\ \A s \in DOMAIN st : st[s].avail => Holds(m, d + s[1], s[2], m.regs[st[s].src])

\* What is held is loaded.
LEMMA HoldsLoad ==
    ASSUME NEW m, NEW a \in Int, NEW n \in {1, 4}, NEW v, Holds(m, a, n, v)
    PROVE  /\ n = 4 => Load(m, Frame(a), 4) = v
           /\ n = 1 => Byte(m, a) = <<"byte", v, 0>>
<1> DEFINE bs == [k \in 0 .. (4 - 1) |-> Byte(m, a + k)]
<1>1. \A k \in 0 .. (n - 1) : Byte(m, a + k) = ByteOf(v, k)
  BY DEF Holds, Byte
<1>2. ByteOf(v, 0) = <<"byte", v, 0>>
  BY DEF ByteOf
<1>3. ASSUME n = 1 PROVE Byte(m, a) = <<"byte", v, 0>>
  <2>1. 0 \in 0 .. (n - 1) /\ a + 0 = a
    BY <1>3
  <2> QED BY <1>1, <1>2, <2>1
<1>4. ASSUME n = 4 PROVE Load(m, Frame(a), 4) = v
  <2>1. \A k \in 0 .. 3 : bs[k] = ByteOf(v, k)
    BY <1>1, <1>4
  <2>2. InFrame(Frame(a)) /\ Offset(Frame(a)) = a
    BY FrameIs
  <2>3. bs[0][2] = v
    BY <1>2, <2>1
  <2>4. [k \in 0 .. (4 - 1) |-> Byte(m, Offset(Frame(a)) + k)] = bs
    BY <2>2
  <2> HIDE DEF bs
  <2>5. \A k \in 0 .. 3 : bs[k] = ByteOf(bs[0][2], k)
    BY <2>1, <2>3
  <2>6. Load(m, Frame(a), 4) = bs[0][2]
    BY <2>2, <2>4, <2>5, Zenon DEF Load
  <2> QED BY <2>3, <2>6
<1> QED BY <1>3, <1>4

\* The address of an access through a known base.
LEMMA AccessIs ==
    ASSUME NEW m, NEW d, NEW st, NEW ba, Tracks(m, d, st, ba),
           NEW i \in Instr, i.sym = 0, i.rs \in DOMAIN ba
    PROVE  AddLo(m.regs[i.rs], i) = Frame(d + (ba[i.rs] + i.imm)) /\ ba[i.rs] + i.imm \in Int
<1>1. i.imm \in Int /\ ba[i.rs] \in Int /\ d \in Int
  BY DEF Instr, Tracks, Typed
<1>2. m.regs[i.rs] = Frame(d + ba[i.rs])
  BY DEF Tracks
<1>3. AddLo(m.regs[i.rs], i) = AddImm(Frame(d + ba[i.rs]), i.imm)
  BY <1>2 DEF AddLo
<1>4. d + ba[i.rs] \in Int /\ (d + ba[i.rs]) + i.imm = d + (ba[i.rs] + i.imm)
  BY <1>1
<1>5. AddImm(Frame(d + ba[i.rs]), i.imm) = Frame((d + ba[i.rs]) + i.imm)
  BY <1>1, <1>4, FrameIs
<1>6. Frame((d + ba[i.rs]) + i.imm) = Frame(d + (ba[i.rs] + i.imm))
  BY <1>4
<1> QED BY <1>1, <1>3, <1>5, <1>6

\* Forgetting is safe.
LEMMA LessTracks ==
    ASSUME NEW m, NEW d, NEW st, NEW ba, Tracks(m, d, st, ba),
           NEW st2, NEW ba2, Typed(st2, ba2),
           \A r \in DOMAIN ba2 : r \in DOMAIN ba /\ ba2[r] = ba[r],
           \A s \in DOMAIN st2 : /\ s \in DOMAIN st /\ st2[s].src = st[s].src
                                 /\ st2[s].avail => st[s].avail
    PROVE  Tracks(m, d, st2, ba2)
BY DEF Tracks

\* t and b are st and ba without what the registers rs made known.
Invalidated(t, b, st, ba, rs) ==
    /\ Typed(t, b) /\ DOMAIN t = DOMAIN st
    /\ \A s \in DOMAIN st : /\ t[s].inst = st[s].inst /\ t[s].src = st[s].src
                            /\ t[s].loads = st[s].loads
                            /\ t[s].avail = (st[s].avail /\ st[s].src \notin rs)
    /\ DOMAIN b = DOMAIN ba \ rs
    /\ \A r \in DOMAIN ba \ rs : b[r] = ba[r]

\* Registers that no longer hold what was stored.
LEMMA InvalidIs ==
    ASSUME NEW st, NEW ba, Typed(st, ba), NEW rs
    PROVE  Invalidated(invalidateSrcReg(st, rs), EraseBases(ba, rs), st, ba, rs)
<1> DEFINE t == invalidateSrcReg(st, rs)
           b == EraseBases(ba, rs)
           ok(s) == st[s].avail /\ st[s].src \notin rs
<1>1. t = [s \in DOMAIN st |-> [st[s] EXCEPT !.avail = ok(s)]]
  BY DEF invalidateSrcReg
<1>2. b = [r \in DOMAIN ba \ rs |-> ba[r]]
  BY DEF EraseBases
<1>3. \A s \in DOMAIN st : st[s] \in StoredValue /\ IsSlot(s) /\ ok(s) \in BOOLEAN
  BY DEF Typed, StoredValue
<1> HIDE DEF ok
<1>4. ASSUME NEW e \in StoredValue, NEW o \in BOOLEAN
      PROVE  /\ [e EXCEPT !.avail = o] \in StoredValue
             /\ [e EXCEPT !.avail = o].inst = e.inst /\ [e EXCEPT !.avail = o].src = e.src
             /\ [e EXCEPT !.avail = o].loads = e.loads /\ [e EXCEPT !.avail = o].avail = o
  BY DEF StoredValue
<1>5. DOMAIN t = DOMAIN st /\ \A s \in DOMAIN st : t[s] = [st[s] EXCEPT !.avail = ok(s)]
  BY <1>1
<1>6. t = [s \in DOMAIN t |-> t[s]]
  BY <1>1
<1>7. \A s \in DOMAIN st : /\ t[s] \in StoredValue /\ t[s].inst = st[s].inst
                           /\ t[s].src = st[s].src /\ t[s].loads = st[s].loads
                           /\ t[s].avail = ok(s)
  <2> TAKE s \in DOMAIN st
  <2>1. st[s] \in StoredValue /\ ok(s) \in BOOLEAN /\ t[s] = [st[s] EXCEPT !.avail = ok(s)]
    BY <1>3, <1>5
  <2>2. /\ [st[s] EXCEPT !.avail = ok(s)] \in StoredValue
        /\ [st[s] EXCEPT !.avail = ok(s)].inst = st[s].inst
        /\ [st[s] EXCEPT !.avail = ok(s)].src = st[s].src
        /\ [st[s] EXCEPT !.avail = ok(s)].loads = st[s].loads
        /\ [st[s] EXCEPT !.avail = ok(s)].avail = ok(s)
    BY <1>4, <2>1
  <2> QED BY <2>1, <2>2
<1>8. DOMAIN b = DOMAIN ba \ rs /\ \A r \in DOMAIN ba \ rs : b[r] = ba[r]
  BY <1>2
<1>9. b = [r \in DOMAIN b |-> b[r]]
  BY <1>2
<1> HIDE DEF t, b
<1>10. Typed(t, b)
  BY <1>3, <1>5, <1>6, <1>7, <1>8, <1>9 DEF Typed
<1>11. Invalidated(t, b, st, ba, rs)
  BY <1>5, <1>7, <1>8, <1>10 DEF Invalidated, ok
<1> QED BY <1>11 DEF t, b

\* A register other than the stack pointer gets a value.
LEMMA SetTracks ==
    ASSUME NEW m, NEW d, NEW st, NEW ba, Tracks(m, d, st, ba),
           NEW r \in Reg \ {Sp}, NEW v, Neutral(v)
    PROVE  Tracks(SetReg(m, r, v), d, invalidateSrcReg(st, {r}), EraseBases(ba, {r}))
<1> DEFINE t == SetReg(m, r, v)
           st2 == invalidateSrcReg(st, {r})
           ba2 == EraseBases(ba, {r})
<1>1. Sound(m) /\ IsState(m) /\ Typed(st, ba) /\ Sp \in Reg
  BY StackAssumption DEF Tracks, Sound
<1>2. Sound(t)
  BY <1>1, SetSound
<1>3. t.mem = m.mem /\ \A q \in Reg : q # r => t.regs[q] = m.regs[q]
  BY <1>1, SetRegIs
<1>4. /\ Typed(st2, ba2) /\ DOMAIN st2 = DOMAIN st
      /\ \A s \in DOMAIN st : /\ st2[s].src = st[s].src
                              /\ st2[s].avail = (st[s].avail /\ st[s].src \notin {r})
      /\ DOMAIN ba2 = DOMAIN ba \ {r}
      /\ \A q \in DOMAIN ba \ {r} : ba2[q] = ba[q]
  <2>1. Invalidated(st2, ba2, st, ba, {r})
    BY <1>1, InvalidIs
  <2> HIDE DEF st2, ba2
  <2> QED BY <2>1 DEF Invalidated
<1> HIDE DEF t, st2, ba2
<1>5. \A s \in DOMAIN st : st[s].src \in Reg
  BY <1>1 DEF Typed, StoredValue
<1>6. \A q \in DOMAIN ba : q \in Reg
  BY <1>1 DEF Typed
<1>7. \A q \in DOMAIN ba2 : t.regs[q] = Frame(d + ba2[q])
  BY <1>3, <1>4, <1>6 DEF Tracks
<1>8. ASSUME NEW s \in DOMAIN st2, st2[s].avail
      PROVE  Holds(t, d + s[1], s[2], t.regs[st2[s].src])
  <2>1. st2[s].src = st[s].src /\ st[s].avail /\ st[s].src # r
    BY <1>4, <1>8
  <2>2. t.regs[st2[s].src] = m.regs[st[s].src]
    BY <1>3, <1>4, <1>5, <2>1
  <2>3. Holds(m, d + s[1], s[2], m.regs[st[s].src])
    BY <1>4, <2>1 DEF Tracks
  <2> QED BY <1>3, <2>2, <2>3 DEF Holds
<1>9. t.regs[Sp] = Frame(d) /\ d \in Int
  BY <1>1, <1>3 DEF Tracks
<1>10. Tracks(t, d, st2, ba2)
  BY <1>2, <1>4, <1>7, <1>8, <1>9 DEF Tracks
<1> QED BY <1>10 DEF t, st2, ba2

\* The slots that an access does not touch stay.
LEMMA KeptIs ==
    ASSUME NEW st, NEW ba, Typed(st, ba), NEW slot
    PROVE  /\ Typed(removeOverlappingReads(st, slot), ba)
           /\ DOMAIN removeOverlappingReads(st, slot)
                 = {s \in DOMAIN st : ~rangesOverlap(s, slot)}
           /\ \A s \in DOMAIN removeOverlappingReads(st, slot) :
                 removeOverlappingReads(st, slot)[s] = st[s]
<1> DEFINE t == removeOverlappingReads(st, slot)
           D == {s \in DOMAIN st : ~rangesOverlap(s, slot)}
<1>1. t = [s \in D |-> st[s]]
  BY DEF removeOverlappingReads
<1>2. D \subseteq DOMAIN st
  OBVIOUS
<1> HIDE DEF t, D
<1>3. DOMAIN t = D /\ \A s \in D : t[s] = st[s]
  BY <1>1
<1>4. t = [s \in DOMAIN t |-> t[s]]
  BY <1>1
<1>5. Typed(t, ba)
  BY <1>2, <1>3, <1>4 DEF Typed
<1> QED BY <1>3, <1>5 DEF t, D

\* Stores after a store of src, at position p, to a slot.
AfterStore(st, slot, p, src) ==
    [s \in DOMAIN removeOverlappingReads(st, slot) \cup {slot} |->
        IF s = slot THEN [inst |-> p, src |-> src, avail |-> TRUE, loads |-> <<>>]
        ELSE removeOverlappingReads(st, slot)[s]]

\* Its entries: the new one, and old ones that do not overlap it.
LEMMA AfterStoreIs ==
    ASSUME NEW st, NEW ba, Typed(st, ba), NEW slot, IsSlot(slot),
           NEW p \in Nat, NEW src \in Reg
    PROVE  /\ Typed(AfterStore(st, slot, p, src), ba)
           /\ slot \in DOMAIN AfterStore(st, slot, p, src)
           /\ AfterStore(st, slot, p, src)[slot].src = src
           /\ AfterStore(st, slot, p, src)[slot].inst = p
           /\ AfterStore(st, slot, p, src)[slot].loads = <<>>
           /\ \A s \in DOMAIN AfterStore(st, slot, p, src) : s # slot =>
                 /\ s \in DOMAIN st /\ ~rangesOverlap(s, slot)
                 /\ AfterStore(st, slot, p, src)[s] = st[s]
<1> DEFINE kept == removeOverlappingReads(st, slot)
           new == [inst |-> p, src |-> src, avail |-> TRUE, loads |-> <<>>]
           t == AfterStore(st, slot, p, src)
<1>1. /\ Typed(kept, ba) /\ DOMAIN kept = {s \in DOMAIN st : ~rangesOverlap(s, slot)}
      /\ \A s \in DOMAIN kept : kept[s] = st[s]
  BY KeptIs
<1>2. t = [s \in DOMAIN kept \cup {slot} |-> IF s = slot THEN new ELSE kept[s]]
  BY DEF AfterStore
<1>3. /\ new \in StoredValue /\ new.src = src /\ new.inst = p /\ new.loads = <<>>
  BY DEF StoredValue
<1> HIDE DEF kept, new, t
<1>4. /\ DOMAIN t = DOMAIN kept \cup {slot} /\ t[slot] = new
      /\ \A s \in DOMAIN t : s # slot => s \in DOMAIN kept /\ t[s] = kept[s]
  BY <1>2
<1>5. t = [s \in DOMAIN t |-> t[s]]
  BY <1>2
<1>6. \A s \in DOMAIN kept : kept[s] \in StoredValue /\ IsSlot(s)
  BY <1>1 DEF Typed
<1>7. \A s \in DOMAIN t : t[s] \in StoredValue /\ IsSlot(s)
  BY <1>3, <1>4, <1>6
<1>8. Typed(t, ba)
  BY <1>1, <1>5, <1>7 DEF Typed
<1>9. slot \in DOMAIN t /\ t[slot].src = src /\ t[slot].inst = p /\ t[slot].loads = <<>>
  BY <1>3, <1>4
<1>10. \A s \in DOMAIN t : s # slot =>
          s \in DOMAIN st /\ ~rangesOverlap(s, slot) /\ t[s] = st[s]
  BY <1>1, <1>4
<1> QED BY <1>8, <1>9, <1>10 DEF t

\* A store leaves the maps true: it changes the bytes of its slot only.
LEMMA StoreTracks ==
    ASSUME NEW m, NEW d, NEW st, NEW ba, Tracks(m, d, st, ba),
           NEW slot, IsSlot(slot), NEW p \in Nat, NEW src \in Reg
    PROVE  Tracks(Store(m, Frame(d + slot[1]), slot[2], m.regs[src]), d,
                  AfterStore(st, slot, p, src), ba)
<1> DEFINE a == d + slot[1]
           n == slot[2]
           w == m.regs[src]
           t == Store(m, Frame(a), n, w)
           st2 == AfterStore(st, slot, p, src)
<1>1. /\ Sound(m) /\ IsState(m) /\ Typed(st, ba) /\ d \in Int /\ Neutral(w)
      /\ slot[1] \in Int /\ n \in {1, 4} /\ a \in Int
  BY DEF Tracks, Sound, IsSlot
<1>2. InFrame(Frame(a)) /\ Offset(Frame(a)) = a
  BY <1>1, FrameIs
<1>3. Sound(t)
  BY <1>1, StoreSound
<1>4. t.regs = m.regs /\ t.mem = Stored(m, a, n, w)
  BY <1>1, <1>2, StoreIs
<1>5. /\ Typed(st2, ba) /\ st2[slot].src = src
      /\ \A s \in DOMAIN st2 : s # slot =>
            s \in DOMAIN st /\ ~rangesOverlap(s, slot) /\ st2[s] = st[s]
  BY <1>1, AfterStoreIs
<1>6. /\ \A b \in a .. (a + n - 1) : b \in DOMAIN t.mem /\ t.mem[b] = ByteOf(w, b - a)
      /\ \A b \in DOMAIN m.mem : b \notin a .. (a + n - 1) =>
            b \in DOMAIN t.mem /\ t.mem[b] = m.mem[b]
  <2> HIDE DEF t, a, n, w
  <2> QED BY <1>4 DEF Stored
<1> HIDE DEF t, st2, w
<1>7. Holds(t, a, n, w)
  <2> SUFFICES ASSUME NEW k \in 0 .. (n - 1)
               PROVE  a + k \in DOMAIN t.mem /\ t.mem[a + k] = ByteOf(w, k)
    BY DEF Holds
  <2>1. a + k \in a .. (a + n - 1) /\ (a + k) - a = k
    BY <1>1
  <2> HIDE DEF a, n
  <2> QED BY <1>6, <2>1
<1>8. ASSUME NEW s \in DOMAIN st2, st2[s].avail
      PROVE  Holds(t, d + s[1], s[2], t.regs[st2[s].src])
  <2>1. CASE s = slot
    BY <1>4, <1>5, <1>7, <2>1 DEF w
  <2>2. CASE s # slot
    <3>1. /\ s \in DOMAIN st /\ ~rangesOverlap(s, slot) /\ st2[s] = st[s]
          /\ s[1] \in Int /\ s[2] \in {1, 4}
      BY <1>1, <1>5, <2>2 DEF Typed, IsSlot
    <3>2. Holds(m, d + s[1], s[2], m.regs[st[s].src])
      BY <1>8, <3>1 DEF Tracks
    <3> SUFFICES ASSUME NEW k \in 0 .. (s[2] - 1)
                 PROVE  /\ (d + s[1]) + k \in DOMAIN t.mem
                        /\ t.mem[(d + s[1]) + k] = ByteOf(t.regs[st2[s].src], k)
      BY DEF Holds
    <3> DEFINE b == (d + s[1]) + k
    <3>3. b \in DOMAIN m.mem /\ m.mem[b] = ByteOf(m.regs[st[s].src], k)
      BY <3>2 DEF Holds
    <3>4. b \notin a .. (a + n - 1)
      BY <1>1, <3>1 DEF rangesOverlap
    <3> HIDE DEF a, n, b
    <3>5. b \in DOMAIN t.mem /\ t.mem[b] = m.mem[b]
      BY <1>6, <3>3, <3>4
    <3> QED BY <1>4, <3>1, <3>3, <3>5 DEF b
  <2> QED BY <2>1, <2>2
<1>9. /\ \A r \in DOMAIN ba : t.regs[r] = Frame(d + ba[r])
      /\ t.regs[Sp] = Frame(d)
  BY <1>4 DEF Tracks
<1>10. Tracks(t, d, st2, ba)
  BY <1>1, <1>3, <1>5, <1>8, <1>9 DEF Tracks
<1> QED BY <1>10 DEF t, st2, w

\* All is forgotten.
LEMMA ForgetTracks ==
    ASSUME NEW m, NEW d, NEW st, NEW ba, Tracks(m, d, st, ba), NEW i \in Instr,
           Sp \in Defs(i) => i.op = "ADDI" /\ i.rs = Sp /\ i.sym = 0
    PROVE  \E e \in Int : Tracks(Step(m, i), e, NoStores, X2Only)
<1>1. Sound(m) /\ d \in Int /\ m.regs[Sp] = Frame(d) /\ i.imm \in Int /\ IsState(m)
  BY DEF Tracks, Instr, Sound
<1>2. Sp \in Reg \ {0}
  BY StackAssumption
<1>3. /\ Sound(Step(m, i))
      /\ Sp \notin Defs(i) => Step(m, i).regs[Sp] = m.regs[Sp]
  BY <1>1, StepSound
<1>4. \E e \in Int : Step(m, i).regs[Sp] = Frame(e)
  <2>1. CASE Sp \notin Defs(i)
    BY <1>1, <1>3, <2>1
  <2>2. CASE Sp \in Defs(i)
    <3>1. i.op = "ADDI" /\ i.rs = Sp /\ i.sym = 0
      BY <2>2
    <3>2. i.rd = Sp
      BY <2>2, <3>1 DEF Defs
    <3>3. Step(m, i) = SetReg(m, Sp, AddLo(m.regs[Sp], i))
      BY <3>1, <3>2 DEF Step, Calls
    <3>4. AddLo(m.regs[Sp], i) = AddImm(Frame(d), i.imm)
      BY <1>1, <3>1 DEF AddLo
    <3>5. AddImm(Frame(d), i.imm) = Frame(d + i.imm) /\ d + i.imm \in Int
      <4>1. d \in Int /\ i.imm \in Int
        BY <1>1
      <4>2. AddImm(Frame(d), i.imm) = Frame(d + i.imm)
        BY <4>1, FrameIs, Zenon
      <4> QED BY <4>1, <4>2
    <3>6. Step(m, i).regs[Sp] = AddLo(m.regs[Sp], i)
      BY <1>1, <1>2, <3>3, SetRegIs
    <3> QED BY <3>4, <3>5, <3>6
  <2> QED BY <2>1, <2>2
<1>5. PICK e \in Int : Step(m, i).regs[Sp] = Frame(e)
  BY <1>4
<1>6. /\ DOMAIN NoStores = {} /\ NoStores = [s \in DOMAIN NoStores |-> NoStores[s]]
      /\ DOMAIN X2Only = {Sp} /\ X2Only[Sp] = 0 /\ X2Only = [r \in DOMAIN X2Only |-> X2Only[r]]
  BY DEF NoStores, X2Only
<1>7. Typed(NoStores, X2Only)
  BY <1>2, <1>6 DEF Typed
<1>8. e + 0 = e
  OBVIOUS
<1> QED BY <1>3, <1>5, <1>6, <1>7, <1>8 DEF Tracks

\* An instruction that only has a result, with getStackBaseDef.
LEMMA PlainTracks ==
    ASSUME NEW m, NEW d, Tracks(m, d, stores, bases), NEW i \in Instr,
           i.op \in Results \ {"LW", "C_LW", "LB"}, i.rd # Sp
    PROVE  Tracks(Step(m, i), d, invalidateSrcReg(stores, Defs(i)), NewBases(i))
<1> DEFINE st2 == invalidateSrcReg(stores, {i.rd})
           ba2 == EraseBases(bases, {i.rd})
<1>1. Defs(i) = {i.rd} /\ i.rd \in Reg \ {Sp}
  BY DEF Defs, Results, Instr
<1>2. Sound(m) /\ IsState(m) /\ Typed(stores, bases)
  BY DEF Tracks, Sound
<1>3. PICK v : Neutral(v) /\ Step(m, i) = SetReg(m, i.rd, v)
  BY <1>2, ResultIs
<1>4. Tracks(Step(m, i), d, st2, ba2)
  BY <1>1, <1>3, SetTracks
<1>5. DOMAIN ba2 = DOMAIN bases \ {i.rd} /\ ba2 = [r \in DOMAIN ba2 |-> ba2[r]]
  BY DEF EraseBases
<1> DEFINE makes == i.op = "ADDI" /\ i.sym = 0 /\ i.rs \in DOMAIN bases /\ i.rd # 0
           ba3 == [r \in DOMAIN ba2 \cup {i.rd} |->
                      IF r = i.rd THEN bases[i.rs] + i.imm ELSE ba2[r]]
<1>6. NewBases(i) = IF makes THEN ba3 ELSE ba2
  BY <1>1 DEF NewBases
<1>7. ASSUME makes PROVE Tracks(Step(m, i), d, st2, ba3)
  <2>1. AddLo(m.regs[i.rs], i) = Frame(d + (bases[i.rs] + i.imm)) /\ bases[i.rs] + i.imm \in Int
    BY <1>7, AccessIs
  <2>2. Step(m, i) = SetReg(m, i.rd, AddLo(m.regs[i.rs], i))
    BY <1>7 DEF Step, Calls
  <2>3. Step(m, i).regs[i.rd] = Frame(d + (bases[i.rs] + i.imm))
    BY <1>1, <1>2, <1>7, <2>1, <2>2, SetRegIs
  <2> HIDE DEF st2, ba2
  <2>4. /\ ba3 = [r \in DOMAIN ba3 |-> ba3[r]] /\ ba3[i.rd] = bases[i.rs] + i.imm
        /\ \A r \in DOMAIN ba3 : r # i.rd => r \in DOMAIN ba2 /\ ba3[r] = ba2[r]
    OBVIOUS
  <2> HIDE DEF ba3
  <2>5. Typed(st2, ba3)
    BY <1>1, <1>4, <1>7, <2>1, <2>4 DEF Tracks, Typed
  <2>6. \A r \in DOMAIN ba3 : Step(m, i).regs[r] = Frame(d + ba3[r])
    BY <1>4, <2>3, <2>4 DEF Tracks
  <2> QED BY <1>4, <2>5, <2>6 DEF Tracks
<1> HIDE DEF st2, ba2, ba3, makes
<1>8. Tracks(Step(m, i), d, st2, NewBases(i))
  BY <1>4, <1>6, <1>7
<1> QED BY <1>1, <1>8 DEF st2

-----------------------------------------------------------------------------
(***************************************************************************)
(* The inductive invariant: from the iterator on the code is the input's,  *)
(* shifted by what was erased; code and input are in the same state there, *)
(* of which the maps are true.                                             *)
(***************************************************************************)
Erased == Len(orig) - Len(code)

RestKept == \A k \in ii .. Len(code) : code[k] = orig[k + Erased]

\* The positions noted are of instructions the walk has passed.
Passed(st, n) ==
    \A s \in DOMAIN st :
        /\ st[s].inst < n
        /\ \A l \in Range(st[s].loads) : st[s].inst < l.inst /\ l.inst < n

IInv ==
    /\ code \in Seq(Instr) /\ orig \in Seq(Instr) /\ Len(code) <= Len(orig)
    /\ ii \in Nat /\ 1 <= ii /\ ii <= Len(code) + 1
    /\ RestKept
    /\ StatesOf(code)[ii - 1] = StatesOf(orig)[(ii - 1) + Erased]
    /\ \E d \in Int : Tracks(StatesOf(code)[ii - 1], d, stores, bases)
    /\ Passed(stores, ii)

\* Where the walk is.
LEMMA AtStep ==
    ASSUME IInv, Tame(orig), Here
    PROVE  /\ ii \in 1 .. Len(code) /\ code[ii] \in Instr /\ Len(code) \in Nat
           /\ Erased \in Nat /\ ii + Erased \in 1 .. Len(orig)
           /\ StatesOf(code)[ii] = Step(StatesOf(code)[ii - 1], code[ii])
           /\ StatesOf(orig)[ii + Erased] = Step(StatesOf(code)[ii - 1], code[ii])
           /\ Sp \in Defs(code[ii]) =>
                 code[ii].op = "ADDI" /\ code[ii].rs = Sp /\ code[ii].sym = 0
<1>1. /\ Len(code) \in Nat /\ Len(orig) \in Nat /\ Len(code) <= Len(orig)
      /\ ii \in Nat /\ 1 <= ii /\ ii <= Len(code) /\ code \in Seq(Instr) /\ orig \in Seq(Instr)
  BY DEF IInv, Here
<1>2. /\ ii \in 1 .. Len(code) /\ ii + Erased \in 1 .. Len(orig) /\ ii \in ii .. Len(code)
      /\ Erased \in Nat /\ (ii + Erased) - 1 = (ii - 1) + Erased
  BY <1>1 DEF Erased
<1>3. code[ii] \in Instr /\ ii + Erased \in DOMAIN orig
  BY <1>1, <1>2
<1>4. code[ii] = orig[ii + Erased]
  BY <1>2 DEF IInv, RestKept
<1>5. StatesOf(code)[ii] = Step(StatesOf(code)[ii - 1], code[ii])
  BY <1>1, <1>2, RunRec
<1>6. StatesOf(orig)[ii + Erased] = Step(StatesOf(orig)[(ii + Erased) - 1], orig[ii + Erased])
  BY <1>1, <1>2, RunRec
<1>7. StatesOf(orig)[(ii + Erased) - 1] = StatesOf(code)[ii - 1]
  BY <1>2 DEF IInv
<1>8. Sp \in Defs(code[ii]) =>
                 code[ii].op = "ADDI" /\ code[ii].rs = Sp /\ code[ii].sym = 0
  BY <1>3, <1>4 DEF Tame
<1> QED BY <1>1, <1>2, <1>3, <1>4, <1>5, <1>6, <1>7, <1>8

\* The walk passes an instruction.
LEMMA Advance ==
    ASSUME IInv, Tame(orig), Here, code' = code, orig' = orig, ii' = ii + 1,
           \E d \in Int : Tracks(Step(StatesOf(code)[ii - 1], code[ii]), d, stores', bases'),
           Passed(stores', ii + 1)
    PROVE  IInv'
<1>1. /\ ii \in 1 .. Len(code) /\ Len(code) \in Nat /\ Erased \in Nat
      /\ StatesOf(code)[ii] = Step(StatesOf(code)[ii - 1], code[ii])
      /\ StatesOf(orig)[ii + Erased] = Step(StatesOf(code)[ii - 1], code[ii])
  BY AtStep
<1>2. Erased' = Erased
  BY DEF Erased
<1>3. ii' - 1 = ii /\ ii' \in Nat /\ 1 <= ii' /\ ii' <= Len(code') + 1
  BY <1>1
<1>4. RestKept'
  <2>1. \A k \in ii' .. Len(code) : k \in ii .. Len(code)
    BY <1>1
  <2> QED BY <1>2, <2>1 DEF IInv, RestKept
<1>5. StatesOf(code')[ii' - 1] = StatesOf(orig')[(ii' - 1) + Erased']
  BY <1>1, <1>2, <1>3
<1>6. \E d \in Int : Tracks(StatesOf(code')[ii' - 1], d, stores', bases')
  BY <1>1, <1>3
<1>7. Passed(stores', ii')
  OBVIOUS
<1>8. code' \in Seq(Instr) /\ orig' \in Seq(Instr) /\ Len(code') <= Len(orig')
  BY DEF IInv
<1> QED BY <1>3, <1>4, <1>5, <1>6, <1>7, <1>8 DEF IInv

\* Initially nothing is known.
LEMMA InitIInv == Init /\ Tame(orig) => IInv
<1> SUFFICES ASSUME Init, Tame(orig) PROVE IInv
  OBVIOUS
<1>1. code = orig /\ ii = 1 /\ stores = NoStores /\ bases = X2Only /\ orig \in Seq(Instr)
  BY DEF Init, Tame
<1>2. Len(orig) \in Nat /\ 1 <= Len(orig) + 1 /\ Len(orig) <= Len(orig)
  BY <1>1
<1>3. Erased = 0 /\ ii - 1 = 0 /\ (ii - 1) + Erased = 0
  BY <1>1, <1>2 DEF Erased
<1>4. RestKept
  BY <1>1, <1>3 DEF RestKept
<1>5. StatesOf(code)[0] = InitState /\ StatesOf(orig)[0] = InitState
  BY <1>1, <1>2, RunRec
<1>6. Tracks(InitState, 0, NoStores, X2Only)
  <2>1. Sp \in Reg \ {0}
    BY StackAssumption
  <2>2. InitState.regs[Sp] = Frame(0)
    BY <2>1 DEF InitState, Frame
  <2>3. /\ DOMAIN NoStores = {} /\ NoStores = [s \in DOMAIN NoStores |-> NoStores[s]]
        /\ DOMAIN X2Only = {Sp} /\ X2Only[Sp] = 0
        /\ X2Only = [r \in DOMAIN X2Only |-> X2Only[r]]
    BY DEF NoStores, X2Only
  <2>4. Typed(NoStores, X2Only)
    BY <2>1, <2>3 DEF Typed
  <2>5. 0 + 0 = 0 /\ 0 \in Int
    OBVIOUS
  <2> QED BY <2>2, <2>3, <2>4, <2>5, InitSound DEF Tracks
<1>7. Passed(stores, ii)
  BY <1>1 DEF Passed, NoStores
<1> QED BY <1>1, <1>2, <1>3, <1>4, <1>5, <1>6, <1>7 DEF IInv

\* All is forgotten.
LEMMA ForgetStep == ASSUME IInv, Tame(orig), Forget PROVE IInv'
<1> DEFINE m == StatesOf(code)[ii - 1]
<1>1. /\ Here /\ stores' = NoStores /\ bases' = X2Only /\ ii' = ii + 1
      /\ code' = code /\ orig' = orig
  BY DEF Forget
<1>2. /\ code[ii] \in Instr
      /\ Sp \in Defs(code[ii]) =>
            code[ii].op = "ADDI" /\ code[ii].rs = Sp /\ code[ii].sym = 0
  BY <1>1, AtStep
<1>3. PICK d \in Int : Tracks(m, d, stores, bases)
  BY DEF IInv
<1> HIDE DEF m
<1>4. \E e \in Int : Tracks(Step(m, code[ii]), e, NoStores, X2Only)
  BY <1>2, <1>3, ForgetTracks
<1>5. Passed(NoStores, ii + 1)
  BY DEF Passed, NoStores
<1> QED BY <1>1, <1>4, <1>5, Advance DEF m

\* Positions that were passed stay so.
LEMMA PassedInvalid ==
    ASSUME NEW st, NEW ba, Typed(st, ba), NEW rs, NEW n \in Nat, Passed(st, n)
    PROVE  Passed(invalidateSrcReg(st, rs), n + 1) /\ Passed(st, n + 1)
<1>1. /\ DOMAIN invalidateSrcReg(st, rs) = DOMAIN st
      /\ \A s \in DOMAIN st : /\ invalidateSrcReg(st, rs)[s].inst = st[s].inst
                              /\ invalidateSrcReg(st, rs)[s].loads = st[s].loads
  <2>1. Invalidated(invalidateSrcReg(st, rs), EraseBases(ba, rs), st, ba, rs)
    BY InvalidIs
  <2> QED BY <2>1 DEF Invalidated
<1>2. ASSUME NEW s \in DOMAIN st
      PROVE  /\ st[s].inst < n + 1
             /\ \A l \in Range(st[s].loads) : st[s].inst < l.inst /\ l.inst < n + 1
  <2>1. st[s] \in StoredValue
    BY DEF Typed
  <2>2. st[s].inst \in Nat /\ st[s].loads \in Seq(PendingLoad)
    BY <2>1 DEF StoredValue
  <2>3. \A l \in Range(st[s].loads) : l.inst \in Nat
    <3>1. \A x \in DOMAIN st[s].loads : st[s].loads[x] \in PendingLoad
      BY <2>2
    <3>2. \A l \in Range(st[s].loads) : \E x \in DOMAIN st[s].loads : l = st[s].loads[x]
      BY Zenon DEF Range
    <3> QED BY <3>1, <3>2 DEF PendingLoad
  <2> QED BY <2>2, <2>3 DEF Passed
<1> QED BY <1>1, <1>2 DEF Passed

\* An instruction that touches no memory.
LEMMA PlainStep == ASSUME IInv, Tame(orig), Plain PROVE IInv'
<1> DEFINE m == StatesOf(code)[ii - 1]
           i == code[ii]
<1>1. /\ Here /\ ~Forgets(i) /\ ~IsLoad(i) /\ ~IsStore(i) /\ ii' = ii + 1
      /\ stores' = invalidateSrcReg(stores, Defs(i)) /\ bases' = NewBases(i)
      /\ code' = code /\ orig' = orig
  BY DEF Plain
<1>2. i \in Instr /\ ii \in Nat
  BY <1>1, AtStep DEF IInv
<1>3. PICK d \in Int : Tracks(m, d, stores, bases)
  BY DEF IInv
<1> HIDE DEF m, i
<1>4. i.op \in Results \ {"LW", "C_LW", "LB"}
  BY <1>1, <1>2 DEF Instr, Opcode, Forgets, IsBarrier, IsLoad, IsStore, Results
<1>5. i.rd # Sp
  BY <1>1, <1>4 DEF Forgets, Defs, Results
<1>6. Tracks(Step(m, i), d, invalidateSrcReg(stores, Defs(i)), NewBases(i))
  BY <1>2, <1>3, <1>4, <1>5, PlainTracks
<1>7. Passed(invalidateSrcReg(stores, Defs(i)), ii + 1)
  BY <1>2, <1>3, PassedInvalid DEF Tracks, IInv
<1> QED BY <1>1, <1>6, <1>7, Advance DEF m, i

\* A load through a known base.
LoadAt(m, d, i) ==
    /\ Tracks(m, d, stores, bases) /\ d \in Int /\ i \in Instr /\ IsSlot(Slot(i))
    /\ i.rd \in Reg \ {Sp} /\ Slot(i)[2] = Size(i.op)
    /\ Neutral(Load(m, Frame(d + Slot(i)[1]), Size(i.op)))
    /\ Step(m, i) = SetReg(m, i.rd, Load(m, Frame(d + Slot(i)[1]), Size(i.op)))

\* What it reads.
LEMMA LoadIs ==
    ASSUME IInv, Tame(orig), AtLoad
    PROVE  \E d \in Int : LoadAt(StatesOf(code)[ii - 1], d, code[ii])
<1> DEFINE m == StatesOf(code)[ii - 1]
           i == code[ii]
<1>1. Here /\ ~Forgets(i) /\ IsLoad(i)
  BY DEF AtLoad
<1>2. i \in Instr
  BY <1>1, AtStep
<1>3. PICK d \in Int : Tracks(m, d, stores, bases)
  BY DEF IInv
<1> HIDE DEF m, i
<1>4. i.op \in {"LW", "C_LW", "LB"} /\ i.sym = 0 /\ i.rs \in DOMAIN bases
  BY <1>1 DEF IsLoad, Forgets, IsStackAccess
<1>5. i.rd \in Reg \ {Sp}
  BY <1>1, <1>2, <1>4 DEF Forgets, Defs, Instr
<1>6. AddLo(m.regs[i.rs], i) = Frame(d + (bases[i.rs] + i.imm)) /\ bases[i.rs] + i.imm \in Int
  BY <1>2, <1>3, <1>4, AccessIs
<1>7. /\ Slot(i) = <<bases[i.rs] + i.imm, Size(i.op)>> /\ Size(i.op) \in {1, 4}
      /\ Slot(i)[1] = bases[i.rs] + i.imm /\ Slot(i)[2] = Size(i.op)
  BY DEF Slot, Size
<1>8. IsSlot(Slot(i))
  BY <1>6, <1>7 DEF IsSlot
<1>9. Step(m, i) = SetReg(m, i.rd, Load(m, AddLo(m.regs[i.rs], i), Size(i.op)))
  BY <1>4 DEF Step, Calls
<1>10. Neutral(Load(m, Frame(d + Slot(i)[1]), Size(i.op)))
  BY <1>3, <1>7, LoadNeutral DEF Tracks
<1>11. LoadAt(m, d, i)
  BY <1>2, <1>3, <1>5, <1>6, <1>7, <1>8, <1>9, <1>10 DEF LoadAt
<1> QED BY <1>11 DEF m, i

\* A register that gets the value it has.
LEMMA SetSame ==
    ASSUME NEW m, IsState(m), NEW r \in Reg
    PROVE  SetReg(m, r, m.regs[r]) = m
<1> DEFINE t == SetReg(m, r, m.regs[r])
<1>1. /\ IsState(t) /\ t.mem = m.mem /\ t.obs = m.obs
      /\ \A q \in Reg : t.regs[q] = IF q = r /\ r # 0 THEN m.regs[r] ELSE m.regs[q]
  BY SetRegIs
<1> HIDE DEF t
<1>2. \A q \in Reg : t.regs[q] = m.regs[q]
  BY <1>1
<1>3. [q \in Reg |-> t.regs[q]] = [q \in Reg |-> m.regs[q]]
  BY <1>2
<1>4. t.regs = m.regs
  BY <1>1, <1>3, Zenon DEF IsState
<1>5. t = m
  BY <1>1, <1>4, Zenon DEF IsState
<1> QED BY <1>5 DEF t

\* A load that cannot be forwarded.
LEMMA ReadLoadStep == ASSUME IInv, Tame(orig), ReadLoad PROVE IInv'
<1> DEFINE m == StatesOf(code)[ii - 1]
           i == code[ii]
           kept == removeOverlappingReads(stores, Slot(i))
<1>1. /\ AtLoad /\ Here /\ ii' = ii + 1 /\ code' = code /\ orig' = orig
      /\ stores' = invalidateSrcReg(kept, {i.rd}) /\ bases' = EraseBases(bases, {i.rd})
  BY DEF ReadLoad, AtLoad
<1>2. PICK d \in Int : LoadAt(m, d, i)
  BY <1>1, LoadIs
<1>3. ii \in Nat /\ Typed(stores, bases) /\ Passed(stores, ii)
  BY <1>2 DEF IInv, LoadAt, Tracks
<1>4. /\ Typed(kept, bases) /\ \A s \in DOMAIN kept : s \in DOMAIN stores /\ kept[s] = stores[s]
  BY <1>3, KeptIs
<1> HIDE DEF m, i, kept
<1>5. Tracks(m, d, kept, bases)
  BY <1>2, <1>4, LessTracks DEF LoadAt
<1>6. Tracks(Step(m, i), d, invalidateSrcReg(kept, {i.rd}), EraseBases(bases, {i.rd}))
  BY <1>2, <1>5, SetTracks DEF LoadAt
<1>7. Passed(kept, ii)
  BY <1>3, <1>4 DEF Passed
<1>8. Passed(invalidateSrcReg(kept, {i.rd}), ii + 1)
  BY <1>3, <1>4, <1>7, PassedInvalid
<1> QED BY <1>1, <1>6, <1>8, Advance DEF m, i, kept

\* A load that can be forwarded reads what the source register holds.
LEMMA ForwardIs ==
    ASSUME NEW m, NEW d, NEW i, LoadAt(m, d, i), CanForward(i)
    PROVE  /\ Slot(i) \in DOMAIN stores /\ stores[Slot(i)].src \in Reg
           /\ Step(m, i) = SetReg(m, i.rd, m.regs[stores[Slot(i)].src])
           /\ Neutral(m.regs[stores[Slot(i)].src])
<1> DEFINE slot == Slot(i)
           v == m.regs[stores[slot].src]
<1>1. slot \in DOMAIN stores /\ stores[slot].avail /\ Size(i.op) = 4
  BY DEF CanForward, CanForwardWord
<1>2. slot[1] \in Int /\ slot[2] = 4 /\ d \in Int /\ d + slot[1] \in Int
  BY <1>1 DEF LoadAt, IsSlot
<1>3. Holds(m, d + slot[1], slot[2], v)
  BY <1>1 DEF LoadAt, Tracks
<1>4. Load(m, Frame(d + slot[1]), 4) = v
  BY <1>2, <1>3, HoldsLoad
<1>5. stores[slot].src \in Reg
  BY <1>1 DEF LoadAt, Tracks, Typed, StoredValue
<1>6. Neutral(v)
  BY <1>5 DEF LoadAt, Tracks, Sound
<1>7. Step(m, i) = SetReg(m, i.rd, v)
  BY <1>1, <1>4 DEF LoadAt
<1> QED BY <1>1, <1>5, <1>6, <1>7

\* Stores with one more waiting load for a slot.
Noted(st, slot, l) == [st EXCEPT ![slot].loads = Append(@, l)]

\* Only the list of loads changes.
LEMMA NotedIs ==
    ASSUME NEW st, NEW ba, Typed(st, ba), NEW slot \in DOMAIN st, NEW l \in PendingLoad
    PROVE  /\ Typed(Noted(st, slot, l), ba) /\ DOMAIN Noted(st, slot, l) = DOMAIN st
           /\ \A s \in DOMAIN st : s # slot => Noted(st, slot, l)[s] = st[s]
           /\ Noted(st, slot, l)[slot].inst = st[slot].inst
           /\ Noted(st, slot, l)[slot].src = st[slot].src
           /\ Noted(st, slot, l)[slot].avail = st[slot].avail
           /\ Noted(st, slot, l)[slot].loads = Append(st[slot].loads, l)
<1> DEFINE t == Noted(st, slot, l)
           e == st[slot]
           f == [e EXCEPT !.loads = Append(e.loads, l)]
<1>1. st = [s \in DOMAIN st |-> st[s]] /\ e \in StoredValue
  BY DEF Typed
<1>2. t = [st EXCEPT ![slot] = f]
  BY Zenon DEF Noted
<1> HIDE DEF e
<1>3. e.loads \in Seq(PendingLoad) /\ Append(e.loads, l) \in Seq(PendingLoad)
  BY <1>1 DEF StoredValue
<1>4. /\ f \in StoredValue /\ f.inst = e.inst /\ f.src = e.src /\ f.avail = e.avail
      /\ f.loads = Append(e.loads, l)
  BY <1>1, <1>3 DEF StoredValue
<1> HIDE DEF f, t
<1>5. /\ DOMAIN t = DOMAIN st /\ t[slot] = f /\ t = [s \in DOMAIN t |-> t[s]]
      /\ \A s \in DOMAIN st : s # slot => t[s] = st[s]
  BY <1>1, <1>2
<1>6. Typed(t, ba)
  BY <1>4, <1>5 DEF Typed
<1> QED BY <1>4, <1>5, <1>6 DEF t, e

\* The maps with a waiting load are as true as without it.
LEMMA NotedTracks ==
    ASSUME NEW m, NEW d, NEW st, NEW ba, Tracks(m, d, st, ba),
           NEW slot \in DOMAIN st, NEW l \in PendingLoad
    PROVE  Tracks(m, d, Noted(st, slot, l), ba)
<1> DEFINE t == Noted(st, slot, l)
<1>1. Typed(st, ba)
  BY DEF Tracks
<1>2. /\ Typed(t, ba) /\ DOMAIN t = DOMAIN st
      /\ \A s \in DOMAIN st : s # slot => t[s] = st[s]
      /\ t[slot].src = st[slot].src /\ t[slot].avail = st[slot].avail
  BY <1>1, NotedIs
<1> HIDE DEF t
<1>3. \A s \in DOMAIN t : s \in DOMAIN st /\ t[s].src = st[s].src /\ (t[s].avail => st[s].avail)
  BY <1>2
<1>4. Tracks(m, d, t, ba)
  BY <1>2, <1>3, LessTracks
<1> QED BY <1>4 DEF t

\* Nor is a base that is no longer known missed.
LEMMA ErasedTracks ==
    ASSUME NEW m, NEW d, NEW st, NEW ba, Tracks(m, d, st, ba), NEW rs
    PROVE  Tracks(m, d, st, EraseBases(ba, rs))
<1> DEFINE b == EraseBases(ba, rs)
<1>1. b = [r \in DOMAIN ba \ rs |-> ba[r]]
  BY DEF EraseBases
<1> HIDE DEF b
<1>2. /\ DOMAIN b = DOMAIN ba \ rs /\ b = [r \in DOMAIN b |-> b[r]]
      /\ \A r \in DOMAIN b : r \in DOMAIN ba /\ b[r] = ba[r]
  BY <1>1
<1>3. Typed(st, b)
  BY <1>2 DEF Tracks, Typed
<1>4. Tracks(m, d, st, b)
  BY <1>2, <1>3, LessTracks
<1> QED BY <1>4 DEF b

\* A compressed load waits.
LEMMA PendLoadStep == ASSUME IInv, Tame(orig), PendLoad PROVE IInv'
<1> DEFINE m == StatesOf(code)[ii - 1]
           i == code[ii]
           slot == Slot(i)
           l == [inst |-> ii, dst |-> i.rd]
           noted == Noted(stores, slot, l)
           src == stores[slot].src
<1>1. /\ AtLoad /\ Here /\ CanForward(i) /\ ii' = ii + 1 /\ code' = code /\ orig' = orig
      /\ stores' = IF i.rd = src THEN noted ELSE invalidateSrcReg(noted, {i.rd})
      /\ bases' = EraseBases(bases, {i.rd})
  BY Zenon DEF PendLoad, AtLoad, Noted
<1>2. PICK d \in Int : LoadAt(m, d, i)
  BY <1>1, LoadIs
<1> HIDE DEF m, i
<1>3. ii \in Nat /\ Typed(stores, bases) /\ Passed(stores, ii) /\ IsState(m)
  BY <1>2 DEF IInv, LoadAt, Tracks, Sound
<1>4. /\ slot \in DOMAIN stores /\ src \in Reg /\ Neutral(m.regs[src])
      /\ Step(m, i) = SetReg(m, i.rd, m.regs[src])
  BY <1>1, <1>2, ForwardIs
<1>5. l \in PendingLoad /\ i.rd \in Reg \ {Sp}
  BY <1>2, <1>3 DEF LoadAt, PendingLoad
<1>6. l.inst = ii
  OBVIOUS
<1> HIDE DEF l
<1>7. /\ Typed(noted, bases) /\ DOMAIN noted = DOMAIN stores
      /\ \A s \in DOMAIN stores : s # slot => noted[s] = stores[s]
      /\ noted[slot].inst = stores[slot].inst
      /\ noted[slot].loads = Append(stores[slot].loads, l)
  BY <1>3, <1>4, <1>5, NotedIs
<1>8. Tracks(m, d, noted, bases)
  BY <1>2, <1>4, <1>5, NotedTracks DEF LoadAt
<1> HIDE DEF noted, slot
<1>9. Tracks(Step(m, i), d, stores', bases')
  <2>1. CASE i.rd = src
    <3>1. Step(m, i) = m
      BY <1>3, <1>4, <2>1, SetSame
    <3>2. Tracks(m, d, noted, EraseBases(bases, {i.rd}))
      BY <1>8, ErasedTracks
    <3> QED BY <1>1, <2>1, <3>1, <3>2
  <2>2. CASE i.rd # src
    <3>1. Tracks(SetReg(m, i.rd, m.regs[src]), d, invalidateSrcReg(noted, {i.rd}),
                 EraseBases(bases, {i.rd}))
      BY <1>4, <1>5, <1>8, SetTracks
    <3> QED BY <1>1, <1>4, <2>2, <3>1
  <2> QED BY <2>1, <2>2
<1>10. Passed(noted, ii + 1)
  <2> SUFFICES ASSUME NEW s \in DOMAIN noted
               PROVE  /\ noted[s].inst < ii + 1
                      /\ \A x \in Range(noted[s].loads) :
                            noted[s].inst < x.inst /\ x.inst < ii + 1
    BY DEF Passed
  <2>1. Passed(stores, ii + 1)
    BY <1>3, PassedInvalid
  <2>2. CASE s # slot
    BY <1>7, <2>1, <2>2 DEF Passed
  <2>3. CASE s = slot
    <3>1. stores[slot].inst \in Nat /\ stores[slot].loads \in Seq(PendingLoad)
      BY <1>3, <1>4 DEF Typed, StoredValue
    <3>2. Range(noted[slot].loads) \subseteq Range(stores[slot].loads) \cup {l}
      <4> DEFINE q == stores[slot].loads
      <4>1. q \in Seq(PendingLoad)
        BY <3>1
      <4> HIDE DEF q
      <4>2. \A k \in DOMAIN Append(q, l) :
               Append(q, l)[k] = l \/ (k \in DOMAIN q /\ Append(q, l)[k] = q[k])
        BY <1>5, <4>1
      <4>3. Range(Append(q, l)) \subseteq Range(q) \cup {l}
        BY <4>2, Zenon DEF Range
      <4> QED BY <1>7, <4>3 DEF q
    <3>3. stores[slot].inst < ii
      BY <1>3, <1>4 DEF Passed
    <3>4. /\ stores[slot].inst < ii + 1
          /\ \A x \in Range(stores[slot].loads) :
                stores[slot].inst < x.inst /\ x.inst < ii + 1
      BY <1>4, <2>1 DEF Passed
    <3>5. ii < ii + 1
      BY <1>3
    <3> QED BY <1>6, <1>7, <2>3, <3>2, <3>3, <3>4, <3>5
  <2> QED BY <2>2, <2>3
<1>11. Passed(stores', ii + 1)
  <2>1. CASE i.rd = src
    BY <1>1, <1>10, <2>1
  <2>2. CASE i.rd # src
    <3>1. Invalidated(invalidateSrcReg(noted, {i.rd}), EraseBases(bases, {i.rd}),
                      noted, bases, {i.rd})
      BY <1>7, InvalidIs
    <3> DEFINE t == invalidateSrcReg(noted, {i.rd})
    <3> HIDE DEF t
    <3>2. /\ DOMAIN t = DOMAIN noted
          /\ \A s \in DOMAIN noted : t[s].inst = noted[s].inst /\ t[s].loads = noted[s].loads
      BY <3>1 DEF Invalidated, t
    <3>3. Passed(t, ii + 1)
      BY <1>10, <3>2 DEF Passed
    <3> QED BY <1>1, <2>2, <3>3 DEF t
  <2> QED BY <2>1, <2>2
<1> QED BY <1>1, <1>9, <1>11, Advance DEF m, i

\* A block without its instruction p.
LEMMA RemoveAtIs ==
    ASSUME NEW S, NEW c \in Seq(S), NEW p \in 1 .. Len(c)
    PROVE  /\ RemoveAt(c, p) \in Seq(S) /\ Len(RemoveAt(c, p)) = Len(c) - 1
           /\ \A k \in 1 .. (p - 1) : RemoveAt(c, p)[k] = c[k]
           /\ \A k \in p .. (Len(c) - 1) : RemoveAt(c, p)[k] = c[k + 1]
<1> DEFINE f == SubSeq(c, 1, p - 1)
           g == SubSeq(c, p + 1, Len(c))
           N == Len(c)
<1>1. N \in Nat /\ p \in 1 .. N
  OBVIOUS
<1>2. f \in Seq(S) /\ Len(f) = p - 1 /\ \A k \in 1 .. (p - 1) : f[k] = c[k]
  BY <1>1
<1>3. g \in Seq(S) /\ Len(g) = N - p /\ \A k \in 1 .. (N - p) : g[k] = c[k + p]
  BY <1>1
<1>4. RemoveAt(c, p) = f \o g
  BY DEF RemoveAt
<1> HIDE DEF f, g, N
<1>5. /\ f \o g \in Seq(S) /\ Len(f \o g) = N - 1
      /\ \A k \in 1 .. (N - 1) : (f \o g)[k] = IF k <= p - 1 THEN f[k] ELSE g[k - (p - 1)]
  <2>1. Len(f) + Len(g) = N - 1 /\ Len(f) = p - 1
    BY <1>1, <1>2, <1>3
  <2>2. /\ f \o g \in Seq(S) /\ Len(f \o g) = Len(f) + Len(g)
        /\ \A k \in 1 .. Len(f) + Len(g) :
              (f \o g)[k] = IF k <= Len(f) THEN f[k] ELSE g[k - Len(f)]
    BY <1>2, <1>3, ConcatProperties, Zenon
  <2> QED BY <2>1, <2>2, Zenon
<1> DEFINE d == f \o g
<1>6. ASSUME NEW k \in 1 .. (p - 1) PROVE d[k] = c[k]
  <2>1. k \in 1 .. (N - 1) /\ k <= p - 1
    BY <1>1
  <2> QED BY <1>2, <1>5, <2>1
<1>7. ASSUME NEW k \in p .. (N - 1) PROVE d[k] = c[k + 1]
  <2>1. /\ k \in 1 .. (N - 1) /\ ~ (k <= p - 1) /\ k - (p - 1) \in 1 .. (N - p)
        /\ (k - (p - 1)) + p = k + 1
    BY <1>1
  <2>2. d[k] = g[k - (p - 1)]
    BY <1>5, <2>1
  <2>3. g[k - (p - 1)] = c[(k - (p - 1)) + p]
    BY <1>3, <2>1
  <2> QED BY <2>1, <2>2, <2>3
<1> HIDE DEF d
<1>8. d \in Seq(S) /\ Len(d) = N - 1
  BY <1>5 DEF d
<1> QED BY <1>4, <1>6, <1>7, <1>8 DEF d, N

\* Blocks that begin alike are in the same state there.
LEMMA SameStart ==
    ASSUME NEW c \in Seq(Instr), NEW e \in Seq(Instr), NEW n \in Nat,
           n <= Len(c), n <= Len(e), \A k \in 1 .. n : c[k] = e[k]
    PROVE  StatesOf(c)[n] = StatesOf(e)[n]
<1>1. SameCode(c, 0, e, 0, n)
  BY DEF SameCode
<1>2. StatesOf(c)[0] = StatesOf(e)[0]
  BY RunRec
<1>3. \A j \in 0 .. n : StatesOf(c)[0 + j] = StatesOf(e)[0 + j]
  BY <1>1, <1>2, Follow
<1>4. n \in 0 .. n /\ 0 + n = n
  OBVIOUS
<1> QED BY <1>3, <1>4

\* A word load that reads back what its register holds is erased.
LEMMA EraseLoadStep ==
    ASSUME IInv, Tame(orig), ForwardLoad, code[ii].rd = stores[Slot(code[ii])].src
    PROVE  IInv'
<1> DEFINE m == StatesOf(code)[ii - 1]
           i == code[ii]
           src == stores[Slot(i)].src
           N == Len(code)
<1>1. /\ AtLoad /\ Here /\ CanForward(i) /\ ii' = ii /\ orig' = orig
      /\ code' = RemoveAt(code, ii) /\ stores' = stores
      /\ bases' = EraseBases(bases, {i.rd})
  BY DEF ForwardLoad, AtLoad
<1>2. PICK d \in Int : LoadAt(m, d, i)
  BY <1>1, LoadIs
<1>3. /\ ii \in 1 .. N /\ N \in Nat /\ code \in Seq(Instr) /\ Erased \in Nat
      /\ orig \in Seq(Instr) /\ Len(orig) \in Nat /\ ii + Erased \in 1 .. Len(orig)
      /\ StatesOf(orig)[ii + Erased] = Step(m, i) /\ Passed(stores, ii) /\ RestKept
  BY <1>1, AtStep DEF IInv
<1>4. /\ src \in Reg /\ Step(m, i) = SetReg(m, i.rd, m.regs[src])
  BY <1>1, <1>2, ForwardIs
<1>5. IsState(m)
  BY <1>2 DEF LoadAt, Tracks, Sound
<1>6. Step(m, i) = m
  BY <1>4, <1>5, SetSame
<1>7. /\ code' \in Seq(Instr) /\ Len(code') = N - 1
      /\ \A k \in 1 .. (ii - 1) : code'[k] = code[k]
      /\ \A k \in ii .. (N - 1) : code'[k] = code[k + 1]
  BY <1>1, <1>3, RemoveAtIs
<1>8. StatesOf(code')[ii - 1] = m
  <2>1. ii - 1 \in Nat /\ ii - 1 <= N /\ ii - 1 <= N - 1
    BY <1>3
  <2> QED BY <1>3, <1>7, <2>1, SameStart
<1>9. Tracks(m, d, stores, EraseBases(bases, {i.rd}))
  BY <1>2, ErasedTracks DEF LoadAt
<1> HIDE DEF m, i, src
<1>10. Erased' = Erased + 1 /\ (ii - 1) + Erased' = ii + Erased
  BY <1>1, <1>3, <1>7 DEF Erased
<1>11. RestKept'
  <2> SUFFICES ASSUME NEW k \in ii .. (N - 1) PROVE code'[k] = orig'[k + Erased']
    BY <1>1, <1>7 DEF RestKept
  <2>1. k + 1 \in ii .. N /\ (k + 1) + Erased = k + Erased'
    BY <1>3, <1>10
  <2>2. code[k + 1] = orig[(k + 1) + Erased]
    BY <1>3, <2>1 DEF RestKept
  <2> QED BY <1>1, <1>7, <2>1, <2>2
<1>12. /\ ii' \in Nat /\ 1 <= ii' /\ ii' <= Len(code') + 1 /\ Len(code') <= Len(orig')
  <2>1. N <= Len(orig)
    BY DEF IInv
  <2> QED BY <1>1, <1>3, <1>7, <2>1
<1>13. StatesOf(code')[ii' - 1] = StatesOf(orig')[(ii' - 1) + Erased']
  BY <1>1, <1>3, <1>6, <1>8, <1>10
<1>14. \E e \in Int : Tracks(StatesOf(code')[ii' - 1], e, stores', bases')
  BY <1>1, <1>8, <1>9
<1>15. Passed(stores', ii')
  BY <1>1, <1>3
<1> QED BY <1>1, <1>3, <1>7, <1>11, <1>12, <1>13, <1>14, <1>15 DEF IInv

\* Another word load becomes a move.
LEMMA MoveLoadStep ==
    ASSUME IInv, Tame(orig), ForwardLoad, code[ii].rd # stores[Slot(code[ii])].src
    PROVE  IInv'
<1> DEFINE m == StatesOf(code)[ii - 1]
           i == code[ii]
           src == stores[Slot(i)].src
           n == makeMove(i.rd, src)
           N == Len(code)
<1>1. /\ AtLoad /\ Here /\ CanForward(i) /\ ii' = ii + 1 /\ orig' = orig
      /\ code' = [code EXCEPT ![ii] = n] /\ stores' = invalidateSrcReg(stores, {i.rd})
      /\ bases' = EraseBases(bases, {i.rd})
  BY DEF ForwardLoad, AtLoad
<1>2. PICK d \in Int : LoadAt(m, d, i)
  BY <1>1, LoadIs
<1>3. /\ ii \in 1 .. N /\ N \in Nat /\ code \in Seq(Instr) /\ Erased \in Nat
      /\ orig \in Seq(Instr) /\ Len(orig) \in Nat /\ ii + Erased \in 1 .. Len(orig)
      /\ StatesOf(orig)[ii + Erased] = Step(m, i) /\ Passed(stores, ii) /\ RestKept
  BY <1>1, AtStep DEF IInv
<1>4. /\ src \in Reg /\ Step(m, i) = SetReg(m, i.rd, m.regs[src]) /\ Neutral(m.regs[src])
  BY <1>1, <1>2, ForwardIs
<1>5. i.rd \in Reg \ {Sp} /\ Tracks(m, d, stores, bases) /\ Typed(stores, bases)
  BY <1>2 DEF LoadAt, Tracks
<1> HIDE DEF m, i, src
<1>6. /\ n \in Instr /\ n.op = "ADDI" /\ n.rd = i.rd /\ n.rs = src /\ n.imm = 0 /\ n.sym = 0
  <2>1. 0 \in Reg
    BY MachineAssumption
  <2> QED BY <1>4, <1>5, <2>1 DEF makeMove, ADDI, I, Instr, Opcode
<1> HIDE DEF n
<1>7. Step(m, n) = Step(m, i)
  <2>1. Step(m, n) = SetReg(m, i.rd, AddLo(m.regs[src], n))
    BY <1>6 DEF Step, Calls
  <2>2. AddLo(m.regs[src], n) = AddImm(m.regs[src], 0)
    BY <1>6 DEF AddLo
  <2>3. AddImm(m.regs[src], 0) = m.regs[src]
    BY <1>4, AddNeutral
  <2> QED BY <1>4, <2>1, <2>2, <2>3
<1>8. /\ code' \in Seq(Instr) /\ Len(code') = N /\ code'[ii] = n
      /\ \A k \in 1 .. N : k # ii => code'[k] = code[k]
  BY <1>1, <1>3, <1>6
<1>9. StatesOf(code')[ii - 1] = m
  <2>1. ii - 1 \in Nat /\ ii - 1 <= N /\ \A k \in 1 .. (ii - 1) : k \in 1 .. N /\ k # ii
    BY <1>3
  <2>2. \A k \in 1 .. (ii - 1) : code'[k] = code[k]
    BY <1>8, <2>1
  <2> QED BY <1>3, <1>8, <2>1, <2>2, SameStart DEF m
<1>10. StatesOf(code')[ii] = Step(m, i)
  <2>1. StatesOf(code')[ii] = Step(StatesOf(code')[ii - 1], code'[ii])
    BY <1>3, <1>8, RunRec
  <2> QED BY <1>7, <1>8, <1>9, <2>1
<1>11. Tracks(Step(m, i), d, invalidateSrcReg(stores, {i.rd}), EraseBases(bases, {i.rd}))
  BY <1>4, <1>5, SetTracks
<1>12. Erased' = Erased /\ ii' - 1 = ii
  BY <1>1, <1>3, <1>8 DEF Erased
<1>13. RestKept'
  <2> SUFFICES ASSUME NEW k \in (ii + 1) .. N PROVE code'[k] = orig'[k + Erased']
    BY <1>1, <1>8 DEF RestKept
  <2>1. k \in ii .. N /\ k \in 1 .. N /\ k # ii
    BY <1>3
  <2>2. code[k] = orig[k + Erased]
    BY <1>3, <2>1 DEF RestKept
  <2> QED BY <1>1, <1>8, <1>12, <2>1, <2>2
<1>14. /\ ii' \in Nat /\ 1 <= ii' /\ ii' <= Len(code') + 1 /\ Len(code') <= Len(orig')
  <2>1. N <= Len(orig)
    BY DEF IInv
  <2> QED BY <1>1, <1>3, <1>8, <2>1
<1>15. StatesOf(code')[ii' - 1] = StatesOf(orig')[(ii' - 1) + Erased']
  BY <1>1, <1>3, <1>10, <1>12
<1>16. \E e \in Int : Tracks(StatesOf(code')[ii' - 1], e, stores', bases')
  BY <1>1, <1>10, <1>11, <1>12
<1>17. Passed(stores', ii')
  BY <1>1, <1>3, <1>5, PassedInvalid
<1> QED BY <1>1, <1>3, <1>8, <1>13, <1>14, <1>15, <1>16, <1>17 DEF IInv

\* A store that erases none.
LEMMA StackStoreStep == ASSUME IInv, Tame(orig), StackStore, ~ErasesStore PROVE IInv'
<1> DEFINE m == StatesOf(code)[ii - 1]
           i == code[ii]
           slot == Slot(i)
           t == AfterStore(stores, slot, ii, i.rt)
<1>1. Here /\ ~Forgets(i) /\ IsStore(i) /\ ~Overwrites(slot)
  BY DEF StackStore, ErasesStore
<1>2. ii' = ii + 1 /\ bases' = bases /\ orig' = orig /\ code' = code /\ stores' = t
  BY <1>1, Zenon DEF StackStore, AfterStore
<1>3. i \in Instr /\ ii \in Nat /\ Passed(stores, ii)
  BY <1>1, AtStep DEF IInv
<1>4. PICK d \in Int : Tracks(m, d, stores, bases)
  BY DEF IInv
<1> HIDE DEF m, i
<1>5. /\ i.op \in {"SW", "SB"} /\ i.sym = 0 /\ i.rs \in DOMAIN bases /\ i.rt \in Reg
      /\ Typed(stores, bases)
  BY <1>1, <1>3, <1>4 DEF IsStore, Forgets, IsStackAccess, Instr, Tracks
<1>6. AddLo(m.regs[i.rs], i) = Frame(d + (bases[i.rs] + i.imm)) /\ bases[i.rs] + i.imm \in Int
  BY <1>3, <1>4, <1>5, AccessIs
<1>7. /\ slot = <<bases[i.rs] + i.imm, Size(i.op)>> /\ Size(i.op) \in {1, 4}
      /\ slot[1] = bases[i.rs] + i.imm /\ slot[2] = Size(i.op)
  BY DEF Slot, Size
<1> HIDE DEF slot
<1>8. IsSlot(slot)
  BY <1>6, <1>7 DEF IsSlot
<1>9. Step(m, i) = Store(m, AddLo(m.regs[i.rs], i), Size(i.op), m.regs[i.rt])
  BY <1>5 DEF Step, Calls
<1>10. Step(m, i) = Store(m, Frame(d + slot[1]), slot[2], m.regs[i.rt])
  BY <1>6, <1>7, <1>9
<1>11. Tracks(Step(m, i), d, t, bases)
  BY <1>3, <1>4, <1>5, <1>8, <1>10, StoreTracks
<1>12. Passed(t, ii + 1)
  <2>1. /\ slot \in DOMAIN t /\ t[slot].inst = ii /\ t[slot].loads = <<>>
        /\ \A s \in DOMAIN t : s # slot => s \in DOMAIN stores /\ t[s] = stores[s]
    BY <1>3, <1>5, <1>8, AfterStoreIs
  <2>2. Passed(stores, ii + 1)
    BY <1>3, <1>5, PassedInvalid
  <2> HIDE DEF t
  <2>3. Range(<<>>) = {} /\ ii < ii + 1
    BY <1>3 DEF Range
  <2> QED BY <2>1, <2>2, <2>3 DEF Passed
<1> QED BY <1>1, <1>2, <1>11, <1>12, Advance DEF m, i, slot, t

(***************************************************************************)
(* The inductive invariant, for every tame block and both options, as long *)
(* as no step erases an overwritten store.                                 *)
(***************************************************************************)
THEOREM IInvHolds == Spec /\ []~ErasesStore => [](Tame(orig) => IInv)
<1> DEFINE TInv == Tame(orig) => IInv
<1>1. Init => TInv
  BY InitIInv
<1>2. TInv /\ ~ErasesStore /\ [Next]_vars => TInv'
  <2> SUFFICES ASSUME TInv, ~ErasesStore, [Next]_vars, Tame(orig)' PROVE IInv'
    OBVIOUS
  <2>1. orig' = orig
    BY DEF Next, vars, Forget, ForwardLoad, PendLoad, ReadLoad, StackStore, Plain, Done
  <2>2. Tame(orig)
    BY <2>1, Zenon DEF Tame, IsBarrier
  <2>3. IInv
    BY <2>2
  <2> HIDE DEF TInv
  <2>4. CASE Forget BY <2>2, <2>3, <2>4, ForgetStep
  <2>5. CASE ForwardLoad BY <2>2, <2>3, <2>5, EraseLoadStep, MoveLoadStep
  <2>6. CASE PendLoad BY <2>2, <2>3, <2>6, PendLoadStep
  <2>7. CASE ReadLoad BY <2>2, <2>3, <2>7, ReadLoadStep
  <2>8. CASE StackStore BY <2>2, <2>3, <2>8, StackStoreStep
  <2>9. CASE Plain BY <2>2, <2>3, <2>9, PlainStep
  <2>10. CASE UNCHANGED vars
    <3>1. /\ code' = code /\ ii' = ii /\ stores' = stores /\ bases' = bases /\ orig' = orig
      BY <2>10 DEF vars
    <3>2. RestKept' /\ Erased' = Erased
      BY <2>3, <3>1 DEF IInv, RestKept, Erased
    <3>3. /\ StatesOf(code') = StatesOf(code) /\ StatesOf(orig') = StatesOf(orig)
          /\ Passed(stores', ii')
      BY <2>3, <3>1 DEF IInv
    <3>4. \E d \in Int : Tracks(StatesOf(code')[ii' - 1], d, stores', bases')
      BY <2>3, <3>1 DEF IInv
    <3> QED BY <2>3, <3>1, <3>2, <3>3, <3>4 DEF IInv
  <2> QED BY <2>4, <2>5, <2>6, <2>7, <2>8, <2>9, <2>10 DEF Next, Done
<1> QED BY <1>1, <1>2, PTL DEF Spec

(***************************************************************************)
(* StackBases and Stores are true at every step: a base holds the stack    *)
(* pointer plus its offset, and a slot whose source register is available  *)
(* holds what that register holds.                                         *)
(***************************************************************************)
THEOREM MapsSafe == Spec /\ []~ErasesStore => [](Tame(orig) => MapsTrue)
<1>1. (Tame(orig) => IInv) => (Tame(orig) => MapsTrue)
  <2> SUFFICES ASSUME IInv PROVE MapsTrue
    OBVIOUS
  <2> DEFINE m == StatesOf(code)[ii - 1]
  <2>1. ii - 1 \in 0 .. Len(code) /\ code \in Seq(Instr)
    BY DEF IInv
  <2>2. At = m
    BY <2>1, RunPrefix DEF At
  <2>3. PICK d \in Int : Tracks(m, d, stores, bases)
    BY DEF IInv
  <2> HIDE DEF m
  <2>4. m.regs[Sp] = Frame(d) /\ Typed(stores, bases)
    BY <2>3 DEF Tracks
  <2>5. \A k \in Int : AddImm(m.regs[Sp], k) = Frame(d + k) /\ Offset(Frame(d + k)) = d + k
    <3> TAKE k \in Int
    <3>1. d + k \in Int
      OBVIOUS
    <3>2. AddImm(Frame(d), k) = Frame(d + k)
      BY FrameIs
    <3>3. Offset(Frame(d + k)) = d + k
      BY <3>1, FrameIs
    <3> QED BY <2>4, <3>2, <3>3
  <2>6. \A r \in DOMAIN bases : m.regs[r] = AddImm(m.regs[Sp], bases[r])
    BY <2>3, <2>4, <2>5 DEF Tracks, Typed
  <2>7. ASSUME NEW s \in DOMAIN stores, stores[s].avail
        PROVE  IF s[2] = 4
               THEN Load(m, AddImm(m.regs[Sp], s[1]), 4) = m.regs[stores[s].src]
               ELSE Byte(m, Offset(AddImm(m.regs[Sp], s[1])))
                       = <<"byte", m.regs[stores[s].src], 0>>
    <3>1. s[1] \in Int /\ s[2] \in {1, 4} /\ d + s[1] \in Int
      BY <2>4 DEF Typed, IsSlot
    <3>2. Holds(m, d + s[1], s[2], m.regs[stores[s].src])
      BY <2>3, <2>7 DEF Tracks
    <3>3. /\ s[2] = 4 => Load(m, Frame(d + s[1]), 4) = m.regs[stores[s].src]
          /\ s[2] = 1 => Byte(m, d + s[1]) = <<"byte", m.regs[stores[s].src], 0>>
      BY <3>1, <3>2, HoldsLoad
    <3>4. /\ AddImm(m.regs[Sp], s[1]) = Frame(d + s[1])
          /\ Offset(Frame(d + s[1])) = d + s[1]
      BY <2>5, <3>1
    <3> QED BY <3>1, <3>3, <3>4
  <2> QED BY <2>2, <2>6, <2>7 DEF MapsTrue
<1> QED BY <1>1, IInvHolds, PTL

(***************************************************************************)
(* A tame block in which no store is erased computes after the walk what   *)
(* it computed before: registers, stack memory, accesses and calls.        *)
(***************************************************************************)
THEOREM BlockSafe == Spec /\ []~ErasesStore => [](Tame(orig) => SameBehaviour)
<1>1. (Tame(orig) => IInv) => (Tame(orig) => SameBehaviour)
  <2> SUFFICES ASSUME IInv, ii = Len(code) + 1 PROVE Run(code) = Run(orig)
    BY DEF SameBehaviour
  <2>1. Len(code) \in Nat /\ Len(orig) \in Nat
    BY DEF IInv
  <2>2. ii - 1 = Len(code) /\ (ii - 1) + Erased = Len(orig)
    BY <2>1 DEF Erased
  <2>3. StatesOf(code)[Len(code)] = StatesOf(orig)[Len(orig)]
    BY <2>2 DEF IInv
  <2> QED BY <2>1, <2>3, RunRec
<1> QED BY <1>1, IInvHolds, PTL

(***************************************************************************)
(* The walk over any block, whatever its instructions are and whether or   *)
(* not stores are erased.                                                  *)
(***************************************************************************)
AnyInstr == [op : AnyOpcode, rd : Reg, rs : Reg, rt : Reg, imm : Int, sym : Int]

\* f[k] is the code c after the first k waiting loads of q are rewritten.
AreRewrites(f, c, q, x, n) ==
    f = [k \in 0 .. n |-> IF k = 0 THEN c ELSE rewriteLoad(f[k - 1], q[k], x)]

Rewrites(c, q, x) ==
    CHOOSE f : f = [k \in 0 .. Len(q) |-> IF k = 0 THEN c
                                          ELSE rewriteLoad(f[k - 1], q[k], x)]

\* The recursion over the waiting loads has a solution.
LEMMA RewritesExist ==
    ASSUME NEW c, NEW q, NEW x, NEW n \in Nat
    PROVE  \E f : AreRewrites(f, c, q, x, n)
<1> DEFINE row(f, k) == IF k = 0 THEN c ELSE rewriteLoad(f[k - 1], q[k], x)
           Sol(f, m) == f = [k \in 0 .. m |-> row(f, k)]
           Bad == {m \in 0 .. n : ~ \E f : Sol(f, m)}
<1>1. Bad = {}
  <2> SUFFICES ASSUME Bad # {} PROVE FALSE
    OBVIOUS
  <2>1. PICK m \in Bad : \A k \in Bad : m <= k
    <3>1. Bad \in SUBSET Nat
      OBVIOUS
    <3> HIDE DEF Bad
    <3> QED BY <3>1, LeastNat
  <2>2. m \in 0 .. n
    OBVIOUS
  <2>3. CASE m = 0
    <3> DEFINE f == [k \in 0 .. 0 |-> c]
    <3>1. \A k \in 0 .. 0 : row(f, k) = c
      OBVIOUS
    <3>2. Sol(f, 0)
      <4> HIDE DEF row
      <4> QED BY <3>1
    <3> HIDE DEF Sol, f
    <3> QED BY <2>1, <2>3, <3>2
  <2>4. CASE m # 0
    <3>1. m \in Nat /\ m - 1 \in 0 .. n /\ ~ (m <= m - 1)
      BY <2>2, <2>4
    <3>2. m - 1 \notin Bad
      <4> HIDE DEF Bad
      <4> QED BY <2>1, <3>1
    <3>3. PICK f : Sol(f, m - 1)
      <4> HIDE DEF Sol
      <4> QED BY <3>1, <3>2
    <3> DEFINE g == [k \in 0 .. m |-> IF k = m THEN row(f, m) ELSE f[k]]
    <3>4. \A k \in 0 .. m : g[k] = row(g, k)
      <4> TAKE k \in 0 .. m
      <4>1. CASE k = 0
        <5>1. k # m /\ k \in 0 .. m - 1
          BY <2>4, <3>1, <4>1
        <5>2. f[k] = row(f, k)
          <6> HIDE DEF row
          <6> QED BY <3>3, <5>1
        <5> QED BY <4>1, <5>1, <5>2
      <4>2. CASE k # 0
        <5>1. k - 1 \in 0 .. m /\ k - 1 # m /\ g[k - 1] = f[k - 1]
          BY <3>1, <4>2
        <5>2. row(g, k) = row(f, k)
          BY <4>2, <5>1, Zenon
        <5>3. CASE k = m
          BY <5>2, <5>3
        <5>4. CASE k # m
          <6>1. k \in 0 .. m - 1
            BY <3>1, <5>4
          <6>2. f[k] = row(f, k)
            <7> HIDE DEF row
            <7> QED BY <3>3, <6>1
          <6> QED BY <5>2, <5>4, <6>2
        <5> QED BY <5>3, <5>4
      <4> QED BY <4>1, <4>2
    <3>5. g = [k \in 0 .. m |-> g[k]]
      OBVIOUS
    <3>6. Sol(g, m)
      <4> HIDE DEF g, row
      <4> QED BY <3>4, <3>5
    <3> HIDE DEF Sol, g
    <3> QED BY <2>1, <3>6
  <2> QED BY <2>3, <2>4
<1>2. n \in 0 .. n
  OBVIOUS
<1>3. \E f : Sol(f, n)
  <2> HIDE DEF Sol
  <2> QED BY <1>1, <1>2
<1> QED BY <1>3, Zenon DEF AreRewrites


\* The rewriting of the waiting loads, by its recursion equation.
RewritesInOrder(c, store) ==
    /\ forwardPendingLoads(c, store)
          = Rewrites(c, store.loads, store.src)[Len(store.loads)]
    /\ Rewrites(c, store.loads, store.src)[0] = c
    /\ \A k \in 1 .. Len(store.loads) :
          Rewrites(c, store.loads, store.src)[k] =
             rewriteLoad(Rewrites(c, store.loads, store.src)[k - 1],
                         store.loads[k], store.src)

\* It holds of every code and store.
LEMMA RewritesRec ==
    ASSUME NEW c, NEW store, Len(store.loads) \in Nat
    PROVE  RewritesInOrder(c, store)
<1> DEFINE q == store.loads
           x == store.src
           n == Len(q)
           row(f, k) == IF k = 0 THEN c ELSE rewriteLoad(f[k - 1], q[k], x)
           Sol(f) == f = [k \in 0 .. n |-> row(f, k)]
           X == Rewrites(c, q, x)
<1>1. forwardPendingLoads(c, store) = X[n]
  BY Zenon DEF forwardPendingLoads, Rewrites
<1>2. X = CHOOSE f : Sol(f)
  BY Zenon DEF Rewrites
<1>3. \E f : Sol(f)
  <2>1. n \in Nat
    OBVIOUS
  <2>2. \E f : AreRewrites(f, c, q, x, n)
    <3> HIDE DEF n, q, x
    <3> QED BY <2>1, RewritesExist, Zenon
  <2> QED BY <2>2, Zenon DEF AreRewrites
<1>4. Sol(X)
  <2> HIDE DEF Sol, X
  <2> QED BY <1>2, <1>3, Zenon
<1>5. \A k \in 0 .. n : X[k] = row(X, k)
  <2> HIDE DEF row, X, n
  <2> QED BY <1>4, Zenon
<1>6. n \in Nat /\ \A k \in 1 .. n : k \in 0 .. n /\ k # 0
  OBVIOUS
<1>7. X[0] = c
  <2>1. 0 \in 0 .. n
    BY <1>6
  <2>2. X[0] = row(X, 0)
    BY <1>5, <2>1, Zenon
  <2> QED BY <2>2, Zenon
<1>8. \A k \in 1 .. n : X[k] = rewriteLoad(X[k - 1], q[k], x)
  <2> HIDE DEF X, n
  <2> QED BY <1>5, <1>6, Zenon
<1> QED BY <1>1, <1>7, <1>8, Zenon DEF RewritesInOrder

\* A move is an instruction.
LEMMA MoveIs == ASSUME NEW rd \in Reg, NEW rs \in Reg PROVE makeMove(rd, rs) \in AnyInstr
<1>1. 0 \in Reg
  BY MachineAssumption
<1>2. makeMove(rd, rs)
         = [op |-> "ADDI", rd |-> rd, rs |-> rs, rt |-> 0, imm |-> 0, sym |-> 0]
  BY DEF makeMove, ADDI, I
<1>3. "ADDI" \in AnyOpcode
  BY DEF AnyOpcode, Opcode
<1>4. \A o \in AnyOpcode : [op |-> o, rd |-> rd, rs |-> rs, rt |-> 0, imm |-> 0, sym |-> 0]
                           \in AnyInstr
  BY <1>1 DEF AnyInstr
<1> QED BY <1>2, <1>3, <1>4, Zenon

\* One rewriting keeps the code a block and erases at most one instruction.
LEMMA RewriteIs ==
    ASSUME NEW c \in Seq(AnyInstr), NEW l \in PendingLoad, NEW x \in Reg,
           l.inst \in 1 .. Len(c)
    PROVE  /\ rewriteLoad(c, l, x) \in Seq(AnyInstr)
           /\ l.dst = x => Len(rewriteLoad(c, l, x)) = Len(c) - 1
           /\ l.dst # x => Len(rewriteLoad(c, l, x)) = Len(c)
<1> DEFINE n == makeMove(l.dst, x)
<1>1. n \in AnyInstr
  <2>1. l.dst \in Reg
    BY DEF PendingLoad
  <2> QED BY <2>1, MoveIs
<1> HIDE DEF n
<1>2. CASE l.dst = x
  <2>1. rewriteLoad(c, l, x) = RemoveAt(c, l.inst)
    BY <1>2 DEF rewriteLoad
  <2>2. RemoveAt(c, l.inst) \in Seq(AnyInstr) /\ Len(RemoveAt(c, l.inst)) = Len(c) - 1
    BY RemoveAtIs
  <2> QED BY <1>2, <2>1, <2>2
<1>3. CASE l.dst # x
  <2>1. rewriteLoad(c, l, x) = [c EXCEPT ![l.inst] = n]
    BY <1>3 DEF rewriteLoad, n
  <2>2. [c EXCEPT ![l.inst] = n] \in Seq(AnyInstr) /\ Len([c EXCEPT ![l.inst] = n]) = Len(c)
    BY <1>1
  <2> QED BY <1>3, <2>1, <2>2
<1> QED BY <1>2, <1>3

\* How many of the first k loads of q read x back.
Count(q, x, k) == Cardinality({j \in 1 .. k : q[j].dst = x})

\* The count goes up by one with each.
LEMMA CountIs ==
    ASSUME NEW q \in Seq(PendingLoad), NEW x, NEW k \in 0 .. Len(q)
    PROVE  /\ Count(q, x, k) \in Nat /\ Count(q, x, 0) = 0
           /\ Count(q, x, k) <= Count(q, x, Len(q))
           /\ k # 0 => Count(q, x, k) = Count(q, x, k - 1) + (IF q[k].dst = x THEN 1 ELSE 0)
<1> DEFINE T(n) == {j \in 1 .. n : q[j].dst = x}
<1>1. Len(q) \in Nat /\ k \in Nat /\ k <= Len(q)
  OBVIOUS
<1>2. \A n \in Nat : IsFiniteSet(T(n)) /\ Cardinality(T(n)) \in Nat
  <2> TAKE n \in Nat
  <2>1. IsFiniteSet(1 .. n) /\ T(n) \in SUBSET (1 .. n)
    BY FS_Interval
  <2> HIDE DEF T
  <2> QED BY <2>1, FS_Subset, FS_CardinalityType
<1>3. Cardinality(T(0)) = 0
  <2>1. T(0) = {}
    OBVIOUS
  <2> QED BY <2>1, FS_EmptySet
<1>4. Cardinality(T(k)) <= Cardinality(T(Len(q)))
  <2>1. T(k) \in SUBSET T(Len(q))
    BY <1>1
  <2> HIDE DEF T
  <2> QED BY <1>1, <1>2, <2>1, FS_Subset
<1>5. ASSUME k # 0
      PROVE  Cardinality(T(k)) = Cardinality(T(k - 1)) + (IF q[k].dst = x THEN 1 ELSE 0)
  <2>1. k - 1 \in Nat /\ k \notin T(k - 1)
    BY <1>1, <1>5
  <2>2. T(k) = IF q[k].dst = x THEN T(k - 1) \cup {k} ELSE T(k - 1)
    <3>1. 1 .. k = (1 .. (k - 1)) \cup {k}
      BY <1>1, <1>5
    <3> QED BY <3>1
  <2> HIDE DEF T
  <2>3. IsFiniteSet(T(k - 1)) /\ Cardinality(T(k - 1)) \in Nat
    BY <1>2, <2>1
  <2>4. CASE q[k].dst = x
    <3>1. Cardinality(T(k - 1) \cup {k}) = Cardinality(T(k - 1)) + 1
      BY <2>1, <2>3, FS_AddElement
    <3> QED BY <2>2, <2>4, <3>1
  <2>5. CASE q[k].dst # x
    BY <2>2, <2>3, <2>5
  <2> QED BY <2>4, <2>5
<1>6. /\ Count(q, x, k) = Cardinality(T(k)) /\ Count(q, x, 0) = Cardinality(T(0))
      /\ Count(q, x, Len(q)) = Cardinality(T(Len(q)))
      /\ Count(q, x, k - 1) = Cardinality(T(k - 1))
  BY Zenon DEF Count
<1> HIDE DEF T
<1> QED BY <1>1, <1>2, <1>3, <1>4, <1>5, <1>6

\* So do all of them, when they are in the first n instructions and these stay.
LEMMA RewritesAre ==
    ASSUME NEW c \in Seq(AnyInstr), NEW store \in StoredValue, NEW n \in Nat,
           n + Cardinality(ReadBack(store)) <= Len(c),
           \A l \in Range(store.loads) : l.inst \in 1 .. n
    PROVE  /\ forwardPendingLoads(c, store) \in Seq(AnyInstr)
           /\ Len(forwardPendingLoads(c, store)) = Len(c) - Cardinality(ReadBack(store))
           /\ Cardinality(ReadBack(store)) \in Nat
<1> DEFINE q == store.loads
           x == store.src
           N == Len(q)
           X == Rewrites(c, q, x)
           C(k) == Count(q, x, k)
           Fine(k) == X[k] \in Seq(AnyInstr) /\ Len(X[k]) = Len(c) - C(k)
           Bad == {k \in 0 .. N : ~Fine(k)}
<1>1. q \in Seq(PendingLoad) /\ x \in Reg /\ N \in Nat
  BY DEF StoredValue
<1>2. /\ forwardPendingLoads(c, store) = X[N] /\ X[0] = c
      /\ \A k \in 1 .. N : X[k] = rewriteLoad(X[k - 1], q[k], x)
  <2>1. Len(store.loads) \in Nat
    BY <1>1
  <2>2. RewritesInOrder(c, store)
    BY <2>1, RewritesRec, Zenon
  <2> QED BY <2>2, Zenon DEF RewritesInOrder
<1>3. \A k \in 1 .. N : q[k] \in PendingLoad /\ q[k].inst \in 1 .. n
  BY <1>1 DEF Range
<1>4. Cardinality(ReadBack(store)) = C(N) /\ n + C(N) <= Len(c) /\ Len(c) \in Nat
  <2>1. DOMAIN q = 1 .. N
    BY <1>1
  <2>2. ReadBack(store) = {j \in 1 .. N : q[j].dst = x}
    BY <2>1, Zenon DEF ReadBack
  <2>3. Cardinality(ReadBack(store)) = C(N)
    BY <2>2, Zenon DEF Count
  <2> HIDE DEF C
  <2> QED BY <2>3
<1>5. /\ \A k \in 0 .. N : C(k) \in Nat /\ C(k) <= C(N)
      /\ C(0) = 0
      /\ \A k \in 1 .. N : C(k) = C(k - 1) + (IF q[k].dst = x THEN 1 ELSE 0)
  <2>1. 0 \in 0 .. N /\ \A k \in 1 .. N : k \in 0 .. N /\ k # 0
    BY <1>1
  <2> QED BY <1>1, <2>1, CountIs
<1> HIDE DEF q, x, N, X, C
<1>6. Bad = {}
  <2> SUFFICES ASSUME Bad # {} PROVE FALSE
    OBVIOUS
  <2>1. PICK m \in Bad : \A k \in Bad : m <= k
    <3>1. Bad \in SUBSET Nat
      OBVIOUS
    <3> HIDE DEF Bad
    <3> QED BY <3>1, LeastNat
  <2>2. m \in 0 .. N /\ ~Fine(m)
    BY Zenon
  <2>3. m # 0
    <3>1. Fine(0)
      BY <1>2, <1>4, <1>5
    <3> QED BY <2>2, <3>1, Zenon
  <2>4. m \in 1 .. N /\ m - 1 \in 0 .. N /\ m - 1 < m
    BY <1>1, <2>2, <2>3
  <2>5. Fine(m - 1)
    <3>1. ~ (m <= m - 1)
      BY <2>4
    <3> HIDE DEF Fine
    <3> QED BY <2>1, <2>4, <3>1
  <2>6. X[m] = rewriteLoad(X[m - 1], q[m], x) /\ q[m] \in PendingLoad
    BY <1>2, <1>3, <2>4
  <2> DEFINE d == X[m - 1]
  <2>7. d \in Seq(AnyInstr) /\ Len(d) = Len(c) - C(m - 1)
    BY <2>5
  <2> HIDE DEF d
  <2>8. /\ C(m - 1) \in Nat /\ C(m - 1) <= C(N) /\ C(N) \in Nat
        /\ C(m) = C(m - 1) + (IF q[m].dst = x THEN 1 ELSE 0)
    <3>1. N \in 0 .. N
      BY <1>1
    <3> QED BY <1>5, <2>4, <3>1
  <2>9. q[m].inst \in 1 .. Len(d)
    <3> DEFINE p == q[m].inst
    <3>1. p \in 1 .. n
      BY <1>3, <2>4
    <3> HIDE DEF p
    <3>2. n <= Len(d) /\ Len(d) \in Nat
      BY <1>4, <2>7, <2>8
    <3>3. p \in 1 .. Len(d)
      BY <3>1, <3>2
    <3> QED BY <3>3 DEF p
  <2>10. /\ rewriteLoad(d, q[m], x) \in Seq(AnyInstr)
         /\ q[m].dst = x => Len(rewriteLoad(d, q[m], x)) = Len(d) - 1
         /\ q[m].dst # x => Len(rewriteLoad(d, q[m], x)) = Len(d)
    BY <1>1, <2>6, <2>7, <2>9, RewriteIs
  <2>11. X[m] = rewriteLoad(d, q[m], x)
    BY <2>6 DEF d
  <2>12. Len(X[m]) = Len(c) - C(m)
    <3>1. Len(d) = Len(c) - C(m - 1) /\ Len(c) \in Nat /\ C(m - 1) \in Nat
      BY <1>4, <2>7, <2>8
    <3>2. CASE q[m].dst = x
      <4>1. Len(X[m]) = Len(d) - 1 /\ C(m) = C(m - 1) + 1
        BY <2>8, <2>10, <2>11, <3>2
      <4> HIDE DEF C
      <4> QED BY <3>1, <4>1
    <3>3. CASE q[m].dst # x
      <4>1. Len(X[m]) = Len(d) /\ C(m) = C(m - 1)
        BY <2>8, <2>10, <2>11, <3>1, <3>3
      <4> QED BY <3>1, <4>1
    <3> QED BY <3>2, <3>3
  <2>13. Fine(m)
    BY <2>10, <2>11, <2>12
  <2> QED BY <2>2, <2>13, Zenon
<1>7. Fine(N)
  <2>1. N \in 0 .. N
    BY <1>1
  <2> HIDE DEF Fine
  <2> QED BY <1>6, <2>1
<1>8. C(N) \in Nat
  BY <1>1, <1>5
<1> QED BY <1>2, <1>4, <1>7, <1>8

\* What the walk keeps, whatever the block is: positions in it, in their order.
WInv ==
    /\ code \in Seq(AnyInstr) /\ ii \in Nat /\ 1 <= ii /\ ii <= Len(code) + 1
    /\ Typed(stores, bases) /\ Passed(stores, ii)
    /\ \A s \in DOMAIN stores : stores[s].inst # 0

\* The instruction at the iterator.
LEMMA WHere ==
    ASSUME WInv, Here
    PROVE  /\ ii \in 1 .. Len(code) /\ Len(code) \in Nat /\ code[ii] \in AnyInstr
           /\ code[ii].rd \in Reg /\ code[ii].rs \in Reg
           /\ code[ii].rt \in Reg /\ code[ii].imm \in Int
<1>1. ii \in 1 .. Len(code) /\ Len(code) \in Nat /\ code \in Seq(AnyInstr)
  BY DEF WInv, Here
<1>2. code[ii] \in AnyInstr
  BY <1>1
<1> QED BY <1>1, <1>2 DEF AnyInstr

\* The walk passes an instruction and leaves the code alone.
LEMMA WAdvance ==
    ASSUME WInv, Here, code' = code, ii' = ii + 1, Typed(stores', bases'),
           Passed(stores', ii + 1), \A s \in DOMAIN stores' : stores'[s].inst # 0
    PROVE  WInv'
<1>1. ii \in 1 .. Len(code) /\ Len(code) \in Nat /\ code' \in Seq(AnyInstr)
  BY WHere DEF WInv
<1>2. ii' \in Nat /\ 1 <= ii' /\ ii' <= Len(code') + 1
  BY <1>1
<1> QED BY <1>1, <1>2 DEF WInv

\* Nothing is known.
LEMMA ForgottenIs == Typed(NoStores, X2Only) /\ DOMAIN NoStores = {}
<1>1. Sp \in Reg \ {0}
  BY StackAssumption
<1>2. /\ DOMAIN NoStores = {} /\ NoStores = [s \in DOMAIN NoStores |-> NoStores[s]]
      /\ DOMAIN X2Only = {Sp} /\ X2Only[Sp] = 0
      /\ X2Only = [r \in DOMAIN X2Only |-> X2Only[r]]
  BY DEF NoStores, X2Only
<1> QED BY <1>1, <1>2 DEF Typed

\* The walk starts in the block.
LEMMA WInit == Init /\ orig \in Seq(AnyInstr) => WInv
<1> SUFFICES ASSUME Init, orig \in Seq(AnyInstr) PROVE WInv
  OBVIOUS
<1>1. code = orig /\ ii = 1 /\ stores = NoStores /\ bases = X2Only
  BY DEF Init
<1>2. Len(orig) \in Nat /\ ii \in Nat /\ 1 <= ii /\ ii <= Len(code) + 1
  BY <1>1
<1>3. Passed(stores, ii) /\ \A s \in DOMAIN stores : stores[s].inst # 0
  BY <1>1, ForgottenIs DEF Passed
<1> QED BY <1>1, <1>2, <1>3, ForgottenIs DEF WInv

\* All is forgotten.
LEMMA WForget == ASSUME WInv, Forget PROVE WInv'
<1>1. /\ Here /\ stores' = NoStores /\ bases' = X2Only /\ ii' = ii + 1 /\ code' = code
  BY DEF Forget
<1>2. Passed(stores', ii + 1) /\ \A s \in DOMAIN stores' : stores'[s].inst # 0
  BY <1>1, ForgottenIs DEF Passed
<1> QED BY <1>1, <1>2, ForgottenIs, WAdvance

\* What a redefined register makes unknown leaves the positions alone.
LEMMA WInvalid ==
    ASSUME NEW st, NEW ba, Typed(st, ba), NEW rs, NEW n \in Nat, Passed(st, n),
           \A s \in DOMAIN st : st[s].inst # 0
    PROVE  /\ Typed(invalidateSrcReg(st, rs), EraseBases(ba, rs))
           /\ Typed(st, EraseBases(ba, rs))
           /\ Passed(invalidateSrcReg(st, rs), n)
           /\ \A s \in DOMAIN invalidateSrcReg(st, rs) :
                 invalidateSrcReg(st, rs)[s].inst # 0
<1> DEFINE t == invalidateSrcReg(st, rs)
           b == EraseBases(ba, rs)
<1>1. Invalidated(t, b, st, ba, rs)
  BY InvalidIs
<1> HIDE DEF t, b
<1>2. /\ Typed(t, b) /\ DOMAIN t = DOMAIN st
      /\ \A s \in DOMAIN st : t[s].inst = st[s].inst /\ t[s].loads = st[s].loads
  BY <1>1 DEF Invalidated
<1>3. Typed(st, b)
  BY <1>2 DEF Typed
<1>4. Passed(t, n) /\ \A s \in DOMAIN t : t[s].inst # 0
  BY <1>2 DEF Passed
<1> QED BY <1>2, <1>3, <1>4 DEF t, b

\* Positions passed stay passed.
LEMMA WPassed ==
    ASSUME NEW st, NEW ba, Typed(st, ba), NEW n \in Nat, Passed(st, n)
    PROVE  Passed(st, n + 1)
BY PassedInvalid

\* An instruction that touches no memory.
LEMMA WPlain == ASSUME WInv, Plain PROVE WInv'
<1> DEFINE i == code[ii]
           rs == Defs(i)
           kept == EraseBases(bases, rs)
           sum == bases[i.rs] + i.imm
<1>1. /\ Here /\ ii' = ii + 1 /\ code' = code
      /\ stores' = invalidateSrcReg(stores, rs) /\ bases' = NewBases(i)
  BY DEF Plain
<1>2. /\ ii \in Nat /\ Typed(stores, bases) /\ Passed(stores, ii)
      /\ \A s \in DOMAIN stores : stores[s].inst # 0
  BY DEF WInv
<1>3. i.rd \in Reg /\ i.imm \in Int
  BY <1>1, WHere
<1> HIDE DEF i, rs
<1>4. Passed(stores, ii + 1)
  BY <1>2, WPassed
<1>5. /\ Typed(stores', kept) /\ Passed(stores', ii + 1)
      /\ \A s \in DOMAIN stores' : stores'[s].inst # 0
  BY <1>1, <1>2, <1>4, WInvalid
<1>6. bases' = IF i.op = "ADDI" /\ i.sym = 0 /\ i.rs \in DOMAIN bases /\ i.rd # 0
              THEN [r \in DOMAIN kept \cup {i.rd} |-> IF r = i.rd THEN sum ELSE kept[r]]
              ELSE kept
  BY <1>1, Zenon DEF NewBases, rs
<1> HIDE DEF kept
<1>7. Typed(stores', bases')
  <2>1. CASE i.op = "ADDI" /\ i.sym = 0 /\ i.rs \in DOMAIN bases /\ i.rd # 0
    <3>1. sum \in Int
      BY <1>2, <1>3, <2>1 DEF Typed
    <3> HIDE DEF sum
    <3>2. bases' = [r \in DOMAIN kept \cup {i.rd} |-> IF r = i.rd THEN sum ELSE kept[r]]
      BY <1>6, <2>1
    <3>3. /\ DOMAIN bases' = DOMAIN kept \cup {i.rd}
          /\ bases' = [r \in DOMAIN bases' |-> bases'[r]]
          /\ \A r \in DOMAIN bases' : bases'[r] = IF r = i.rd THEN sum ELSE kept[r]
      BY <3>2
    <3>4. \A r \in DOMAIN kept : r \in Reg \ {0} /\ kept[r] \in Int
      BY <1>5 DEF Typed
    <3>5. \A r \in DOMAIN bases' : r \in Reg \ {0} /\ bases'[r] \in Int
      BY <1>3, <2>1, <3>1, <3>3, <3>4
    <3> QED BY <1>5, <3>3, <3>5 DEF Typed
  <2>2. CASE ~ (i.op = "ADDI" /\ i.sym = 0 /\ i.rs \in DOMAIN bases /\ i.rd # 0)
    <3>1. bases' = kept
      BY <1>6, <2>2, Zenon
    <3> QED BY <1>5, <3>1
  <2> QED BY <2>1, <2>2
<1> QED BY <1>1, <1>5, <1>7, WAdvance

\* A load through a known base.
LEMMA WRead == ASSUME WInv, ReadLoad PROVE WInv'
<1> DEFINE slot == Slot(code[ii])
           rd == code[ii].rd
           kept == removeOverlappingReads(stores, slot)
<1>1. /\ Here /\ ii' = ii + 1 /\ code' = code
      /\ stores' = invalidateSrcReg(kept, {rd}) /\ bases' = EraseBases(bases, {rd})
  BY DEF ReadLoad, AtLoad
<1>2. /\ ii \in Nat /\ ii + 1 \in Nat /\ Typed(stores, bases) /\ Passed(stores, ii)
      /\ \A s \in DOMAIN stores : stores[s].inst # 0
  BY DEF WInv
<1> HIDE DEF slot, rd
<1>3. /\ Typed(kept, bases)
      /\ \A s \in DOMAIN kept : s \in DOMAIN stores /\ kept[s] = stores[s]
  BY <1>2, KeptIs
<1> HIDE DEF kept
<1>4. Passed(kept, ii + 1) /\ \A s \in DOMAIN kept : kept[s].inst # 0
  <2>1. Passed(kept, ii) /\ \A s \in DOMAIN kept : kept[s].inst # 0
    BY <1>2, <1>3 DEF Passed
  <2> QED BY <1>2, <1>3, <2>1, WPassed
<1>5. /\ Typed(stores', bases') /\ Passed(stores', ii + 1)
      /\ \A s \in DOMAIN stores' : stores'[s].inst # 0
  BY <1>1, <1>2, <1>3, <1>4, WInvalid
<1> QED BY <1>1, <1>5, WAdvance

\* A word load that is forwarded: it is erased, or a move replaces it.
LEMMA WForward == ASSUME WInv, ForwardLoad PROVE WInv'
<1> DEFINE i == code[ii]
           src == stores[Slot(i)].src
           n == makeMove(i.rd, src)
<1>1. /\ Here /\ Slot(i) \in DOMAIN stores /\ bases' = EraseBases(bases, {i.rd})
      /\ code' = IF i.rd = src THEN RemoveAt(code, ii) ELSE [code EXCEPT ![ii] = n]
      /\ ii' = IF i.rd = src THEN ii ELSE ii + 1
      /\ stores' = IF i.rd = src THEN stores ELSE invalidateSrcReg(stores, {i.rd})
  BY Zenon DEF ForwardLoad, AtLoad, CanForward
<1>2. /\ ii \in Nat /\ ii + 1 \in Nat /\ Typed(stores, bases) /\ Passed(stores, ii)
      /\ \A s \in DOMAIN stores : stores[s].inst # 0
      /\ code \in Seq(AnyInstr)
  BY DEF WInv
<1>3. ii \in 1 .. Len(code) /\ Len(code) \in Nat /\ i.rd \in Reg
  BY <1>1, WHere
<1>4. src \in Reg
  BY <1>1, <1>2 DEF Typed, StoredValue
<1> HIDE DEF i, src
<1>5. n \in AnyInstr
  BY <1>3, <1>4, MoveIs
<1> HIDE DEF n
<1>6. CASE i.rd = src
  <2>1. code' = RemoveAt(code, ii) /\ ii' = ii /\ stores' = stores
    BY <1>1, <1>6
  <2>2. code' \in Seq(AnyInstr) /\ Len(code') = Len(code) - 1
    BY <1>2, <1>3, <2>1, RemoveAtIs
  <2>3. ii' \in Nat /\ 1 <= ii' /\ ii' <= Len(code') + 1
    BY <1>3, <2>1, <2>2
  <2>4. Typed(stores', bases')
    <3>1. Typed(stores, EraseBases(bases, {i.rd}))
      BY <1>2, WInvalid
    <3> QED BY <1>1, <2>1, <3>1
  <2> QED BY <1>2, <2>1, <2>2, <2>3, <2>4 DEF WInv
<1>7. CASE i.rd # src
  <2>1. code' = [code EXCEPT ![ii] = n] /\ ii' = ii + 1
        /\ stores' = invalidateSrcReg(stores, {i.rd})
    BY <1>1, <1>7
  <2>2. code' \in Seq(AnyInstr) /\ Len(code') = Len(code)
    BY <1>2, <1>3, <1>5, <2>1
  <2>3. ii' \in Nat /\ 1 <= ii' /\ ii' <= Len(code') + 1
    BY <1>3, <2>1, <2>2
  <2>4. Passed(stores, ii + 1)
    BY <1>2, WPassed
  <2>5. /\ Typed(stores', bases') /\ Passed(stores', ii')
        /\ \A s \in DOMAIN stores' : stores'[s].inst # 0
    BY <1>1, <1>2, <2>1, <2>4, WInvalid
  <2> QED BY <2>2, <2>3, <2>5 DEF WInv
<1> QED BY <1>6, <1>7

\* A waiting load is behind its store and passed.
LEMMA NotedPassed ==
    ASSUME NEW st, NEW ba, Typed(st, ba), NEW n \in Nat, Passed(st, n),
           NEW slot \in DOMAIN st, NEW l \in PendingLoad, l.inst = n
    PROVE  Passed(Noted(st, slot, l), n + 1)
<1> DEFINE noted == Noted(st, slot, l)
<1>1. /\ Typed(noted, ba) /\ DOMAIN noted = DOMAIN st
      /\ \A s \in DOMAIN st : s # slot => noted[s] = st[s]
      /\ noted[slot].inst = st[slot].inst
      /\ noted[slot].loads = Append(st[slot].loads, l)
  BY NotedIs
<1> HIDE DEF noted
<1>2. Passed(st, n + 1)
  BY WPassed
<1>3. SUFFICES ASSUME NEW s \in DOMAIN noted
               PROVE  /\ noted[s].inst < n + 1
                      /\ \A x \in Range(noted[s].loads) :
                            noted[s].inst < x.inst /\ x.inst < n + 1
  BY DEF Passed, noted
<1>4. CASE s # slot
  BY <1>1, <1>2, <1>4 DEF Passed
<1>5. CASE s = slot
  <2>1. st[slot].inst \in Nat /\ st[slot].loads \in Seq(PendingLoad)
    BY DEF Typed, StoredValue
  <2>2. Range(noted[slot].loads) \subseteq Range(st[slot].loads) \cup {l}
    <3> DEFINE q == st[slot].loads
    <3>1. q \in Seq(PendingLoad)
      BY <2>1
    <3> HIDE DEF q
    <3>2. \A k \in DOMAIN Append(q, l) :
             Append(q, l)[k] = l \/ (k \in DOMAIN q /\ Append(q, l)[k] = q[k])
      BY <3>1
    <3>3. Range(Append(q, l)) \subseteq Range(q) \cup {l}
      BY <3>2, Zenon DEF Range
    <3> QED BY <1>1, <3>3 DEF q
  <2>3. st[slot].inst < n
    BY DEF Passed
  <2>4. /\ st[slot].inst < n + 1
        /\ \A x \in Range(st[slot].loads) : st[slot].inst < x.inst /\ x.inst < n + 1
    BY <1>2 DEF Passed
  <2>5. n < n + 1
    OBVIOUS
  <2> QED BY <1>1, <1>5, <2>2, <2>3, <2>4, <2>5
<1> QED BY <1>4, <1>5

\* A compressed load waits.
LEMMA WPend == ASSUME WInv, PendLoad PROVE WInv'
<1> DEFINE i == code[ii]
           slot == Slot(i)
           l == [inst |-> ii, dst |-> i.rd]
           noted == Noted(stores, slot, l)
<1>1. /\ Here /\ slot \in DOMAIN stores /\ ii' = ii + 1 /\ code' = code
      /\ stores' = IF i.rd = stores[slot].src THEN noted
                   ELSE invalidateSrcReg(noted, {i.rd})
      /\ bases' = EraseBases(bases, {i.rd})
  BY Zenon DEF PendLoad, AtLoad, CanForward, Noted
<1>2. /\ ii \in Nat /\ ii + 1 \in Nat /\ Typed(stores, bases) /\ Passed(stores, ii)
      /\ \A s \in DOMAIN stores : stores[s].inst # 0
  BY DEF WInv
<1>3. l \in PendingLoad /\ l.inst = ii
  BY <1>1, <1>2, WHere DEF PendingLoad
<1> HIDE DEF i, slot, l
<1>4. Passed(noted, ii + 1)
  BY <1>1, <1>2, <1>3, NotedPassed
<1>5. /\ Typed(noted, bases) /\ DOMAIN noted = DOMAIN stores
      /\ \A s \in DOMAIN stores : s # slot => noted[s] = stores[s]
      /\ noted[slot].inst = stores[slot].inst
  BY <1>1, <1>2, <1>3, NotedIs
<1> HIDE DEF noted
<1>6. \A s \in DOMAIN noted : noted[s].inst # 0
  BY <1>1, <1>2, <1>5
<1> DEFINE t == invalidateSrcReg(noted, {i.rd})
<1>7. /\ Typed(t, bases') /\ Typed(noted, bases') /\ Passed(t, ii + 1)
      /\ \A s \in DOMAIN t : t[s].inst # 0
  BY <1>1, <1>2, <1>4, <1>5, <1>6, WInvalid
<1>8. stores' = t \/ stores' = noted
  BY <1>1
<1> HIDE DEF t
<1>9. /\ Typed(stores', bases') /\ Passed(stores', ii + 1)
      /\ \A s \in DOMAIN stores' : stores'[s].inst # 0
  BY <1>4, <1>6, <1>7, <1>8
<1> QED BY <1>1, <1>9, WAdvance

\* A store, which may erase another one and the loads that wait for it.
LEMMA WStore == ASSUME WInv, StackStore, Room PROVE WInv'
<1> DEFINE i == code[ii]
           slot == Slot(i)
           e == stores[slot]
           t == AfterStore(stores, slot, ii, i.rt)
           c == forwardPendingLoads(code, e)
           k == Cardinality(ReadBack(e))
<1>1. /\ Here /\ ~Forgets(i) /\ IsStore(i) /\ ii' = ii + 1 /\ bases' = bases
      /\ code' = IF Overwrites(slot) THEN RemoveAt(c, e.inst) ELSE code
      /\ stores' = t
  BY Zenon DEF StackStore, AfterStore
<1>2. /\ ii \in Nat /\ ii + 1 \in Nat /\ Typed(stores, bases) /\ Passed(stores, ii)
      /\ \A s \in DOMAIN stores : stores[s].inst # 0
      /\ code \in Seq(AnyInstr)
  BY DEF WInv
<1>3. ii \in 1 .. Len(code) /\ Len(code) \in Nat /\ i.rt \in Reg /\ i.imm \in Int
  BY <1>1, WHere
<1>4. Overwrites(slot) => ii + k < Len(code)
  BY <1>1 DEF Room, ErasesStore
<1>5. i.rs \in DOMAIN bases
  BY <1>1 DEF Forgets, IsStackAccess
<1> HIDE DEF i
<1>6. IsSlot(slot)
  <2>1. slot = <<bases[i.rs] + i.imm, Size(i.op)>> /\ Size(i.op) \in {1, 4}
    BY DEF Slot, Size
  <2>2. bases[i.rs] + i.imm \in Int
    BY <1>2, <1>3, <1>5 DEF Typed
  <2> QED BY <2>1, <2>2 DEF IsSlot
<1> HIDE DEF slot
<1> DEFINE x == i.rt
<1>7. /\ Typed(t, bases) /\ slot \in DOMAIN t /\ t[slot].inst = ii /\ t[slot].loads = <<>>
      /\ \A s \in DOMAIN t : s # slot => s \in DOMAIN stores /\ t[s] = stores[s]
  <2>1. x \in Reg
    BY <1>3
  <2> HIDE DEF x
  <2>2. t = AfterStore(stores, slot, ii, x)
    BY DEF x
  <2> HIDE DEF t, e
  <2> QED BY <1>2, <1>6, <2>1, <2>2, AfterStoreIs
<1>8. Passed(t, ii + 1) /\ \A s \in DOMAIN t : t[s].inst # 0
  <2>1. Passed(stores, ii + 1)
    BY <1>2, WPassed
  <2> HIDE DEF t
  <2>2. Range(<<>>) = {} /\ ii < ii + 1 /\ ii # 0
    BY <1>3 DEF Range
  <2> QED BY <1>2, <1>7, <2>1, <2>2 DEF Passed
<1>9. code' \in Seq(AnyInstr) /\ ii <= Len(code')
  <2>1. CASE ~Overwrites(slot)
    BY <1>1, <1>2, <1>3, <2>1
  <2>2. CASE Overwrites(slot)
    <3>1. slot \in DOMAIN stores /\ ii + k < Len(code)
      BY <1>4, <2>2 DEF Overwrites
    <3>2. /\ e \in StoredValue /\ e.inst \in Nat /\ e.inst # 0 /\ e.inst < ii
          /\ e.loads \in Seq(PendingLoad) /\ Len(e.loads) \in Nat
          /\ \A l \in Range(e.loads) : e.inst < l.inst /\ l.inst < ii
      BY <1>2, <3>1 DEF Typed, StoredValue, Passed
    <3> HIDE DEF e
    <3>3. \A l \in Range(e.loads) : l.inst \in 1 .. ii
      <4>1. \A l \in Range(e.loads) : l.inst \in Nat
        <5>1. \A j \in DOMAIN e.loads : e.loads[j] \in PendingLoad
          BY <3>2
        <5>2. \A l \in Range(e.loads) : \E j \in DOMAIN e.loads : l = e.loads[j]
          BY Zenon DEF Range
        <5> QED BY <5>1, <5>2 DEF PendingLoad
      <4> QED BY <1>2, <3>2, <4>1
    <3>4. IsFiniteSet(ReadBack(e)) /\ k \in Nat
      <4>1. IsFiniteSet(DOMAIN e.loads) /\ ReadBack(e) \in SUBSET DOMAIN e.loads
        BY <3>2, FS_Interval DEF ReadBack
      <4> QED BY <4>1, FS_Subset, FS_CardinalityType
    <3> HIDE DEF k
    <3>5. c \in Seq(AnyInstr) /\ Len(c) = Len(code) - k
      <4>1. ii + k <= Len(code)
        BY <1>2, <1>3, <3>1, <3>4
      <4> QED BY <1>2, <3>2, <3>3, <4>1, RewritesAre DEF k
    <3>6. e.inst \in 1 .. Len(c) /\ ii <= Len(c) - 1
      BY <1>2, <1>3, <3>1, <3>2, <3>4, <3>5
    <3>7. RemoveAt(c, e.inst) \in Seq(AnyInstr) /\ Len(RemoveAt(c, e.inst)) = Len(c) - 1
      BY <3>5, <3>6, RemoveAtIs
    <3> QED BY <1>1, <2>2, <3>6, <3>7
  <2> QED BY <2>1, <2>2
<1>10. ii' \in Nat /\ 1 <= ii' /\ ii' <= Len(code') + 1
  BY <1>1, <1>2, <1>3, <1>9
<1> HIDE DEF t, c, e, k
<1>11. Typed(stores', bases') /\ Passed(stores', ii') /\ \A s \in DOMAIN stores' : stores'[s].inst # 0
  BY <1>1, <1>7, <1>8
<1> QED BY <1>9, <1>10, <1>11 DEF WInv

(***************************************************************************)
(* The walk over any block stays in it, and the positions it notes are of  *)
(* instructions it passed, with stores erased and loads forwarded, as long *)
(* as each step that erases a store has as many instructions behind it as  *)
(* it erases: by so many places it displaces the iterator.                 *)
(***************************************************************************)
THEOREM WalkSafe == Spec /\ []Room => [](orig \in AnyBlock => WalkInBlock)
<1> DEFINE T == orig \in Seq(AnyInstr) => WInv
<1>1. Init => T
  BY WInit
<1>2. T /\ Room /\ [Next]_vars => T'
  <2> SUFFICES ASSUME T, Room, [Next]_vars, (orig \in Seq(AnyInstr))' PROVE WInv'
    OBVIOUS
  <2>1. orig' = orig
    BY DEF Next, vars, Forget, ForwardLoad, PendLoad, ReadLoad, StackStore, Plain, Done
  <2>2. orig \in Seq(AnyInstr)
    BY <2>1
  <2>3. WInv
    BY <2>2
  <2> HIDE DEF T
  <2>4. CASE Forget BY <2>3, <2>4, WForget
  <2>5. CASE ForwardLoad BY <2>3, <2>5, WForward
  <2>6. CASE PendLoad BY <2>3, <2>6, WPend
  <2>7. CASE ReadLoad BY <2>3, <2>7, WRead
  <2>8. CASE StackStore BY <2>3, <2>8, WStore
  <2>9. CASE Plain BY <2>3, <2>9, WPlain
  <2>10. CASE UNCHANGED vars
    <3>1. /\ code' = code /\ ii' = ii /\ stores' = stores /\ bases' = bases
      BY <2>10 DEF vars
    <3>2. Passed(stores', ii') /\ Typed(stores', bases')
      BY <2>3, <3>1 DEF WInv
    <3> QED BY <2>3, <3>1, <3>2 DEF WInv
  <2> QED BY <2>4, <2>5, <2>6, <2>7, <2>8, <2>9, <2>10 DEF Next, Done
<1>3. T => (orig \in AnyBlock => WalkInBlock)
  BY DEF AnyBlock, AnyInstr, WInv, WalkInBlock, Passed
<1> QED BY <1>1, <1>2, <1>3, PTL DEF Spec
=============================================================================
