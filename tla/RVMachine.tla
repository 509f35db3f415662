----------------------------- MODULE RVMachine -----------------------------
(***************************************************************************)
(* A reference machine for the RISC-V passes: what a basic block computes, *)
(* on symbolic values, so that two blocks with the same final state agree  *)
(* for every initial content of registers and memory.                      *)
(*                                                                         *)
(* An instruction is [op, rd, rs, rt, imm, sym]: rd is defined, rs is the  *)
(* base or first source, rt the second source (the datum of a store).      *)
(* With sym # 0 the immediate is %hi(sym + imm) or %lo(sym + imm).         *)
(*                                                                         *)
(* A value is <<"abs", n>>, a number; <<"sym", s, a>>, the address of      *)
(* symbol s plus a; <<"hi", s, a>>, its upper part; <<"init", r>>, the     *)
(* initial content of a register; or a term over values.                   *)
(***************************************************************************)
EXTENDS Integers, Sequences

CONSTANTS Reg,       \* registers, 0 is x0
          Sp,        \* the stack pointer x2
          Page,      \* 2^12: what LUI counts in
          Word,      \* 2^32
          ArgReg,    \* registers a callee may read
          CallerSaved \* registers a callee may change

ASSUME MachineAssumption ==
    /\ 0 \in Reg /\ Reg \subseteq Nat
    /\ Page \in Nat \ {0} /\ Word \in Nat \ {0} /\ Word % Page = 0
    /\ ArgReg \subseteq Reg \ {0} /\ CallerSaved \subseteq Reg \ {0}

Abs(n) == <<"abs", n % Word>>

\* v + n
AddImm(v, n) ==
    CASE v[1] = "abs" -> Abs(v[2] + n)
      [] v[1] = "sym" -> <<"sym", v[2], v[3] + n>>
      [] v[1] = "sum" -> IF v[3] + n = 0 THEN v[2] ELSE <<"sum", v[2], v[3] + n>>
      [] OTHER -> IF n = 0 THEN v ELSE <<"sum", v, n>>

Add(v, w) ==
    CASE v[1] = "abs" -> AddImm(w, v[2])
      [] w[1] = "abs" -> AddImm(v, w[2])
      [] OTHER -> <<"add", v, w>>

Sub(v, w) == IF w[1] = "abs" THEN AddImm(v, -w[2]) ELSE <<"sub", v, w>>

\* v plus the immediate of i: the two halves of an address meet in %lo.
AddLo(v, i) ==
    CASE i.sym = 0 -> AddImm(v, i.imm)
      [] i.sym # 0 /\ v = <<"hi", i.sym, i.imm>> -> <<"sym", i.sym, i.imm>>
      [] OTHER -> <<"lo", v, i.sym, i.imm>>

-----------------------------------------------------------------------------
(***************************************************************************)
(* State: regs; mem, the bytes stored relative to the initial stack        *)
(* pointer; obs, what the rest of the program can see: calls and accesses  *)
(* to other memory, each with the stack memory at that point.              *)
(***************************************************************************)
InitState == [regs |-> [r \in Reg |-> IF r = 0 THEN Abs(0) ELSE <<"init", r>>],
              mem  |-> [a \in {} |-> 0],
              obs  |-> <<>>]

\* Is v an address in the frame, and where.
InFrame(v) == v = <<"init", Sp>> \/ (v[1] = "sum" /\ v[2] = <<"init", Sp>>)
Offset(v) == IF v[1] = "sum" THEN v[3] ELSE 0

SetReg(m, r, v) == IF r = 0 THEN m ELSE [m EXCEPT !.regs[r] = v]

Size(op) == IF op \in {"LW", "C_LW", "SW"} THEN 4 ELSE 1

\* Byte k of w; those of zero are alike.
ByteOf(w, k) == <<"byte", w, IF w = Abs(0) THEN 0 ELSE k>>

Byte(m, a) == IF a \in DOMAIN m.mem THEN m.mem[a]
              ELSE <<"byte", <<"mem", a, Len(m.obs)>>, 0>>

\* The last thing that happened to memory is that a word was stored at v.
JustStored(m, v) ==
    /\ m.obs # <<>> /\ m.mem = [a \in {} |-> 0]
    /\ LET last == m.obs[Len(m.obs)]
       IN  last[1] = "store" /\ last[2] = v /\ last[3] = 4

\* What a load of n bytes at v returns.
Load(m, v, n) ==
    LET o == Offset(v)
        bs == [k \in 0 .. (n - 1) |-> Byte(m, o + k)]
    IN  CASE ~InFrame(v) -> IF n = 4 /\ JustStored(m, v) THEN m.obs[Len(m.obs)][4]
                            ELSE <<"load", v, n, Len(m.obs), m.mem>>
          [] InFrame(v) /\ n = 4 /\ \A k \in 0 .. 3 : bs[k] = ByteOf(bs[0][2], k)
                -> bs[0][2]
          [] OTHER -> <<"bytes", bs>>

\* A store of w to v: outside the frame it is visible and may hit anything.
Store(m, v, n, w) ==
    IF InFrame(v)
    THEN [m EXCEPT !.mem =
            [a \in DOMAIN m.mem \cup Offset(v) .. (Offset(v) + n - 1) |->
               IF a \in Offset(v) .. (Offset(v) + n - 1)
               THEN ByteOf(w, a - Offset(v)) ELSE m.mem[a]]]
    ELSE [m EXCEPT !.obs = Append(@, <<"store", v, n, w, m.mem>>),
                   !.mem = [a \in {} |-> 0]]

\* What an instruction defines and reads: the outs and ins of its description.
\* For C_JAL rd is the implicit x1, for C_JR, C_MV and the stores the fields are
\* named by what they do; BB is no instruction.
Defs(i) == IF i.op \in {"SW", "SB", "BEQ", "C_JR", "BB"} THEN {} ELSE {i.rd}
Uses(i) == CASE i.op \in {"LUI", "C_LUI", "C_LI", "JAL", "C_JAL", "BB"} -> {}
             [] i.op \in {"ADD", "SUB", "SW", "SB", "BEQ"} -> {i.rs, i.rt}
             [] OTHER -> {i.rs}

\* JAL and JALR as calls: jumps and returns by them end a block.
Calls == {"JAL", "C_JAL", "JALR"}

\* Where a call goes that is not direct.
Callee(m, i) == IF i.op = "JALR" THEN AddLo(m.regs[i.rs], i) ELSE <<"direct">>

\* The registers a call changes: those a callee may change and the link register.
Lost(i) == CallerSaved \cup (Defs(i) \ {0})

\* A call shows its arguments and the frame to the callee.
Call(m, i) ==
    [regs |-> [r \in Reg |-> IF r \in Lost(i)
                             THEN <<"ret", r, Len(m.obs)>> ELSE m.regs[r]],
     mem  |-> [a \in {} |-> 0],
     obs  |-> Append(m.obs, <<"call", Callee(m, i), [r \in ArgReg |-> m.regs[r]],
                              m.mem>>)]

Step(m, i) ==
    CASE i.op \in {"LUI", "C_LUI"} ->
            SetReg(m, i.rd, IF i.sym = 0 THEN Abs(Page * i.imm)
                            ELSE <<"hi", i.sym, i.imm>>)
      [] i.op = "ADDI" -> SetReg(m, i.rd, AddLo(m.regs[i.rs], i))
      [] i.op = "C_LI" -> SetReg(m, i.rd, Abs(i.imm))
      [] i.op = "C_MV" -> SetReg(m, i.rd, m.regs[i.rs])
      [] i.op = "ADD"  -> SetReg(m, i.rd, Add(m.regs[i.rs], m.regs[i.rt]))
      [] i.op = "SUB"  -> SetReg(m, i.rd, Sub(m.regs[i.rs], m.regs[i.rt]))
      [] i.op \in {"LW", "C_LW", "LB"} ->
            SetReg(m, i.rd, Load(m, AddLo(m.regs[i.rs], i), Size(i.op)))
      [] i.op \in {"SW", "SB"} ->
            Store(m, AddLo(m.regs[i.rs], i), Size(i.op), m.regs[i.rt])
      [] i.op \in Calls -> Call(m, i)
      [] OTHER -> m

\* The state after a block.
Run(code) ==
    LET after[k \in 0 .. Len(code)] ==
            IF k = 0 THEN InitState ELSE Step(after[k - 1], code[k])
    IN  after[Len(code)]

\* Instruction builders.
I(op, rd, rs, rt, imm, sym) ==
    [op |-> op, rd |-> rd, rs |-> rs, rt |-> rt, imm |-> imm, sym |-> sym]
LUI(rd, imm) == I("LUI", rd, 0, 0, imm, 0)
ADDI(rd, rs, imm) == I("ADDI", rd, rs, 0, imm, 0)
LW(rd, rs, imm) == I("LW", rd, rs, 0, imm, 0)
SW(rt, rs, imm) == I("SW", 0, rs, rt, imm, 0)
JAL == I("JAL", 1, 0, 0, 0, 0)
=============================================================================
