-------------------------- MODULE StackMemForward --------------------------
(***************************************************************************)
(* The pass riscv-stack-mem-forward                                        *)
(* (bolt/lib/Passes/RISCV/RISCVStackMemForward.cpp): within a block, a     *)
(* load of a stack slot becomes a move from the register that was stored   *)
(* there, and a store to a slot that is overwritten is erased.             *)
(*                                                                         *)
(* The walk keeps iterators into a vector: the current instruction, the    *)
(* store of every slot and the loads that wait for its fate.  They are     *)
(* positions here; erasing an instruction moves the later ones down and    *)
(* leaves the positions as they are.                                       *)
(***************************************************************************)
EXTENDS RVMachine, FiniteSets, SequencesExt

CONSTANT Inputs      \* records [block, opts]: a block and the options given,
                     \* a subset of {"forward", "dse"}

\* A callee gives the stack pointer back as it was.
ASSUME StackAssumption == Sp \in Reg \ {0} /\ Sp \notin CallerSaved

VARIABLES code,    \* the block being rewritten
          ii,      \* the iterator II
          stores,  \* Stores: from a slot <<offset, size>> to a StoredValue
          bases,   \* StackBases: registers known to be X2 plus an offset
          orig,    \* the input block, for the properties
          opts     \* the options of the run

vars == <<code, ii, stores, bases, orig, opts>>

X2Only == [r \in {Sp} |-> 0]
NoStores == [s \in {} |-> 0]

rangesOverlap(a, b) == a[1] < b[1] + b[2] /\ b[1] < a[1] + a[2]

IsLoad(i) == i.op \in {"LW", "C_LW", "LB"}
IsStore(i) == i.op \in {"SW", "SB"}

\* getStackAccess: is it a load or store through a known base; its slot.
IsStackAccess(i) == (IsLoad(i) \/ IsStore(i)) /\ i.sym = 0 /\ i.rs \in DOMAIN bases
Slot(i) == <<bases[i.rs] + i.imm, Size(i.op)>>
CanForwardWord(i) == Size(i.op) = 4

\* A JAL is no barrier, nor a JALR: their descriptions have none of the flags that
\* are tested.
IsBarrier(i) == i.op \in {"BEQ", "C_JAL"}

\* Seeded fault: the registers that hold stored values are taken to be stable.
invalidateNothing(sm, rs) == sm

invalidateSrcReg(sm, rs) ==
    [s \in DOMAIN sm |->
        [sm[s] EXCEPT !.avail = @ /\ sm[s].src \notin rs]]

\* Seeded fault: only a read of the very slot removes it.
removeExactReads(sm, slot) == [s \in DOMAIN sm \ {slot} |-> sm[s]]

removeOverlappingReads(sm, slot) ==
    [s \in {t \in DOMAIN sm : ~rangesOverlap(t, slot)} |-> sm[s]]

EraseBases(b, rs) == [r \in DOMAIN b \ rs |-> b[r]]

makeMove(rd, rs) == ADDI(rd, rs, 0)

\* A waiting load at its noted position: erased, or made a move.
rewriteLoad(c, load, src) ==
    IF load.dst = src THEN RemoveAt(c, load.inst)
    ELSE [c EXCEPT ![load.inst] = makeMove(load.dst, src)]

\* The loads are rewritten in order, each at the position that was noted for it.
forwardPendingLoads(c, store) ==
    LET after[k \in 0 .. Len(store.loads)] ==
            IF k = 0 THEN c ELSE rewriteLoad(after[k - 1], store.loads[k], store.src)
    IN  after[Len(store.loads)]
-----------------------------------------------------------------------------
Init == /\ \E x \in Inputs : orig = x.block /\ opts = x.opts
        /\ code = orig /\ ii = 1 /\ stores = NoStores /\ bases = X2Only

Here == ii <= Len(code)

Forgets(i) == \/ IsBarrier(i)
              \/ ~IsStackAccess(i) /\ (IsLoad(i) \/ IsStore(i))
              \/ Sp \in Defs(i)

\* A barrier, another memory access or a new stack pointer: all is forgotten.
Forget ==
    /\ Here /\ Forgets(code[ii])
    /\ stores' = NoStores /\ bases' = X2Only /\ ii' = ii + 1
    /\ UNCHANGED <<code, orig, opts>>

CanForward(i) ==
    /\ "forward" \in opts /\ CanForwardWord(i)
    /\ Slot(i) \in DOMAIN stores /\ stores[Slot(i)].avail

AtLoad == Here /\ ~Forgets(code[ii]) /\ IsLoad(code[ii])

\* Seeded fault: the iterator returned by the erasure is incremented as well.
ForwardLoadSkip ==
    /\ AtLoad /\ CanForward(code[ii]) /\ code[ii].op = "LW"
    /\ LET i == code[ii]
           src == stores[Slot(i)].src
       IN  /\ code' = IF i.rd = src THEN RemoveAt(code, ii)
                      ELSE [code EXCEPT ![ii] = makeMove(i.rd, src)]
           /\ stores' = IF i.rd = src THEN stores
                        ELSE invalidateSrcReg(stores, {i.rd})
           /\ bases' = EraseBases(bases, {i.rd})
    /\ ii' = ii + 1
    /\ UNCHANGED <<orig, opts>>

\* A full LW becomes a move, or nothing when the register is the stored one.
ForwardLoad ==
    /\ AtLoad /\ CanForward(code[ii]) /\ code[ii].op = "LW"
    /\ LET i == code[ii]
           src == stores[Slot(i)].src
       IN  /\ code' = IF i.rd = src THEN RemoveAt(code, ii)
                      ELSE [code EXCEPT ![ii] = makeMove(i.rd, src)]
           /\ ii' = IF i.rd = src THEN ii ELSE ii + 1
           /\ stores' = IF i.rd = src THEN stores
                        ELSE invalidateSrcReg(stores, {i.rd})
           /\ bases' = EraseBases(bases, {i.rd})
    /\ UNCHANGED <<orig, opts>>

\* A compressed load waits: moving it only pays if the store goes as well.
PendLoad ==
    /\ AtLoad /\ CanForward(code[ii]) /\ code[ii].op # "LW"
    /\ LET i == code[ii]
           slot == Slot(i)
           noted == [stores EXCEPT ![slot].loads =
                        Append(@, [inst |-> ii, dst |-> i.rd])]
       IN  /\ stores' = IF i.rd = stores[slot].src THEN noted
                        ELSE invalidateSrcReg(noted, {i.rd})
           /\ bases' = EraseBases(bases, {i.rd})
    /\ ii' = ii + 1
    /\ UNCHANGED <<code, orig, opts>>

\* Any other load: the stores it may read from must stay.
ReadLoad ==
    /\ AtLoad /\ ~CanForward(code[ii])
    /\ stores' = invalidateSrcReg(removeOverlappingReads(stores, Slot(code[ii])),
                                  {code[ii].rd})
    /\ bases' = EraseBases(bases, {code[ii].rd})
    /\ ii' = ii + 1
    /\ UNCHANGED <<code, orig, opts>>

Overwrites(slot) ==
    /\ "dse" \in opts /\ slot \in DOMAIN stores
    /\ stores[slot].loads = <<>> \/ "forward" \in opts

(***************************************************************************)
(* A store.  When it overwrites a slot exactly, the old store's loads are  *)
(* rewritten and the old store erased: II then designates the instruction  *)
(* behind the current store, and so does the position that is noted.       *)
(***************************************************************************)
StackStore ==
    /\ Here /\ ~Forgets(code[ii]) /\ IsStore(code[ii])
    /\ LET slot == Slot(code[ii])
           kept == removeOverlappingReads(stores, slot)
       IN  /\ code' = IF Overwrites(slot)
                      THEN RemoveAt(forwardPendingLoads(code, stores[slot]),
                                    stores[slot].inst)
                      ELSE code
           /\ stores' = [s \in DOMAIN kept \cup {slot} |->
                            IF s = slot
                            THEN [inst |-> ii, src |-> code[ii].rt,
                                  avail |-> TRUE, loads |-> <<>>]
                            ELSE kept[s]]
    /\ ii' = ii + 1
    /\ UNCHANGED <<bases, orig, opts>>

\* getStackBaseDef: an ADDI from a base makes its destination a base.
NewBases(i) ==
    LET kept == EraseBases(bases, Defs(i))
    IN  IF i.op = "ADDI" /\ i.sym = 0 /\ i.rs \in DOMAIN bases /\ i.rd # 0
        THEN [r \in DOMAIN kept \cup {i.rd} |->
                 IF r = i.rd THEN bases[i.rs] + i.imm ELSE kept[r]]
        ELSE kept

Plain ==
    /\ Here /\ ~Forgets(code[ii]) /\ ~IsLoad(code[ii]) /\ ~IsStore(code[ii])
    /\ stores' = invalidateSrcReg(stores, Defs(code[ii]))
    /\ bases' = NewBases(code[ii])
    /\ ii' = ii + 1
    /\ UNCHANGED <<code, orig, opts>>

\* At the end, or past it, where the walk has left the vector.
Done == ~Here /\ UNCHANGED vars

Next == Forget \/ ForwardLoad \/ PendLoad \/ ReadLoad \/ StackStore \/ Plain \/ Done

Spec == Init /\ [][Next]_vars
-----------------------------------------------------------------------------
(***************************************************************************)
(* Blocks and walks that stay clear of the known defects: a JAL is no      *)
(* barrier, and the erasure of an overwritten store displaces the walk.    *)
(***************************************************************************)
Opcode == {"LUI", "C_LUI", "ADDI", "C_LI", "C_MV", "ADD", "SUB", "LW", "C_LW", "LB",
           "SW", "SB", "BEQ", "C_JAL"}

Instr == [op : Opcode, rd : Reg, rs : Reg, rt : Reg, imm : Int, sym : Int]

\* No JAL, no JALR, and the stack pointer is moved by constants only.
Tame(b) ==
    /\ b \in Seq(Instr)
    /\ \A k \in DOMAIN b : Sp \in Defs(b[k]) =>
          b[k].op = "ADDI" /\ b[k].rs = Sp /\ b[k].sym = 0

\* The next step erases a store.
ErasesStore ==
    /\ Here /\ ~Forgets(code[ii]) /\ IsStore(code[ii])
    /\ Overwrites(Slot(code[ii]))

\* Blocks of any instructions, jumps and calls included.
AnyOpcode == Opcode \cup {"JAL", "JALR", "C_JR"}
AnyBlock == Seq([op : AnyOpcode, rd : Reg, rs : Reg, rt : Reg, imm : Int, sym : Int])

\* The waiting loads that go with their store: those that read its register back.
ReadBack(store) == {k \in DOMAIN store.loads : store.loads[k].dst = store.src}

\* A step that erases a store and loads has more instructions behind it than loads
\* go: one for each instruction that is erased.
Room == ErasesStore => ii + Cardinality(ReadBack(stores[Slot(code[ii])])) < Len(code)
-----------------------------------------------------------------------------
(***************************************************************************)
(* The walk stays in the block: the iterator never passes its end, so the  *)
(* comparison with BB.end() stops it, and the positions noted for stores   *)
(* and waiting loads, which erasures move, are of instructions it passed.  *)
(***************************************************************************)
WalkInBlock ==
    /\ ii <= Len(code) + 1
    /\ \A s \in DOMAIN stores :
          /\ stores[s].inst < ii
          /\ \A l \in Range(stores[s].loads) :
                stores[s].inst < l.inst /\ l.inst < ii

\* The machine when it reaches the iterator.
At == Run(SubSeq(code, 1, ii - 1))

(***************************************************************************)
(* A register in StackBases holds the stack pointer plus its offset, and a *)
(* slot whose source is available holds what that register holds: it is    *)
(* what makes a load from the slot and a move from the register the same.  *)
(***************************************************************************)
MapsTrue ==
    LET m == At
    IN  /\ \A r \in DOMAIN bases : m.regs[r] = AddImm(m.regs[Sp], bases[r])
        /\ \A s \in DOMAIN stores : stores[s].avail =>
              LET v == m.regs[stores[s].src]
                  a == AddImm(m.regs[Sp], s[1])
              IN  IF s[2] = 4 THEN Load(m, a, 4) = v
                  ELSE Byte(m, Offset(a)) = <<"byte", v, 0>>

(***************************************************************************)
(* The rewritten block does what the input did: the same final registers,  *)
(* the same stack memory and the same observable accesses and calls.       *)
(***************************************************************************)
SameBehaviour == ii = Len(code) + 1 => Run(code) = Run(orig)
=============================================================================
