------------------------------- MODULE Lowering -------------------------------
(***************************************************************************)
(* Lowerer (legacy_lowering.py): the items of a kernel, one by one, become *)
(* AEC instructions.  Registers get physical numbers when they are first   *)
(* named, wide ones two of them; immediates go through temporaries; items  *)
(* of a legalised region get its guard; branches are patched at the end.   *)
(***************************************************************************)
EXTENDS ControlPlan, AecIsa

CONSTANTS Wide,            \* the registers of 64 bits, %rd<n>
          Predicates,      \* the predicates, %p<n>: numbers
          TempBase         \* the first temporary register: 240 in the code

(* The numbers of registers, up to three temporaries included, fit the     *)
(* fields of an instruction: 255 is the last in the code.                  *)
ASSUME LoweringAssumption == Wide \subseteq Reg /\ Predicates \subseteq Reg \cap 0..7
                             /\ TempBase \in Nat /\ TempBase + 3 <= 2^16
                             /\ TempBase + 3 <= W

(* layout_parameters: the offset of each parameter, given their types.     *)
SizeOf == [u64 |-> 8, b64 |-> 8, f64 |-> 8, u32 |-> 4, b32 |-> 4, s32 |-> 4, f32 |-> 4,
           u16 |-> 2, f16 |-> 2]
AlignUp(n, to) == IF n % to = 0 THEN n ELSE n + (to - (n % to))
Layout(types) ==
    LET Offset[k \in 1..Len(types)] ==
            AlignUp(IF k = 1 THEN 0 ELSE Offset[k - 1] + SizeOf[types[k - 1]],
                    SizeOf[types[k]])
    IN  Offset

-----------------------------------------------------------------------------
(* What the lowering has made so far.                                      *)
StartOutput == [code |-> <<>>, mapping |-> <<>>, reserved |-> {}, next |-> 1,
                labels |-> <<>>, branches |-> {}, failed |-> FALSE]

(* RegisterAllocator.reg: the next free number, an even one with its       *)
(* successor for a wide register.                                          *)
NeededOne(r, base) == {base}                               \* a mutant
Needed(r, base) == IF r \in Wide THEN {base, base + 1} ELSE {base}
Free(r, out) ==
    {base \in out.next..(TempBase - 1) :
        /\ r \in Wide => base % 2 = 0
        /\ Needed(r, base) \cap out.reserved = {}
        /\ \A g \in Needed(r, base) : g < TempBase}
Place(out, o) ==
    LET r == o[2]
        base == CHOOSE b \in Free(r, out) : \A c \in Free(r, out) : b <= c
    IN  IF o[1] # "reg" \/ r \in DOMAIN out.mapping THEN out
        ELSE IF Free(r, out) = {} THEN [out EXCEPT !.failed = TRUE]
        ELSE [out EXCEPT !.mapping = [s \in {r} \cup DOMAIN @ |->
                                         IF s = r THEN base ELSE @[s]],
                         !.reserved = @ \cup Needed(r, base),
                         !.next = base + Cardinality(Needed(r, base))]

(* The operands of an item in the order the lowering meets them.           *)
NamedBy(i) == CASE i.op = "ld" /\ i.srcs[1][1] = "reg" -> i.srcs \o <<R(i.dst)>>
                [] i.op \in {"st", "setp"} -> i.srcs
                [] i.op \in {"bra", "ret"} -> <<>>
                [] OTHER -> <<R(i.dst)>> \o i.srcs
PlaceAll(out, i) ==
    LET After[n \in 0..Len(NamedBy(i))] ==
            IF n = 0 THEN out ELSE Place(After[n - 1], NamedBy(i)[n])
    IN  After[Len(NamedBy(i))]

-----------------------------------------------------------------------------
IsImmediate(o) == o[1] \in {"int", "float"}
Temp(n) == TempBase + n

(* _operand_reg: the register of an operand; immediates take a temporary   *)
(* each, in their order.                                                   *)
Immediates(i) == {k \in DOMAIN i.srcs : IsImmediate(i.srcs[k])}
OperandReg(i, k, out) ==
    IF IsImmediate(i.srcs[k]) THEN Temp(Cardinality({j \in Immediates(i) : j < k}))
    ELSE out.mapping[i.srcs[k][2]]
LoadImm(d, v) == [Aec("LOADI", "none") EXCEPT !.dest = d, !.imm = v]
LoadConstants(i) ==
    [n \in 1..Cardinality(Immediates(i)) |->
        LoadImm(Temp(n - 1),
                i.srcs[CHOOSE k \in Immediates(i) :
                          Cardinality({j \in Immediates(i) : j < k}) = n - 1][2])]

(* _guard: the item's own predicate, which parameters are loaded without.  *)
OwnGuard(i, inst) ==
    IF i.guard THEN [inst EXCEPT !.pred = i.pred, !.neg = i.neg] ELSE inst

(* PTX_TO_AEC_TYPE.                                                        *)
AecType(ty) == IF ty = "u64" THEN "b64" ELSE ty

LoadParam(i, offset, out) ==
    LET d == out.mapping[i.dst]
        Half(n) == <<LoadImm(Temp(n), offset + 4 * n),
                     [Aec("LD", "u32") EXCEPT !.dest = d + n, !.src1 = Temp(n),
                                              !.space = "pmem"]>>
    IN  IF i.dst \in Wide THEN Half(0) \o Half(1) ELSE Half(0)

Move(i, out) ==
    LET d == out.mapping[i.dst]
        o == i.srcs[1]
    IN  CASE o[1] \in DOMAIN Specials ->
                [Aec("CPY", "u32") EXCEPT !.dest = d, !.src1 = Specials[o[1]]]
          [] o[1] = "reg" ->
                [Aec("CPY", AecType(i.ty)) EXCEPT !.dest = d, !.src1 = out.mapping[o[2]]]
          [] OTHER -> [Aec(IF i.ty = "u64" THEN "LOADI64" ELSE "LOADI", "none")
                          EXCEPT !.dest = d, !.imm = o[2]]

(* add.u64 and mul.wide compute the low word and clear the high one.       *)
AluOp == [add |-> "ADD", mul |-> "MUL", and |-> "AND", fma |-> "FMA"]
Alu(i, out) ==
    LET inst == [Aec(AluOp[i.op], IF i.dst \in Wide THEN "u32" ELSE AecType(i.ty)) EXCEPT
                    !.dest = out.mapping[i.dst],
                    !.src1 = OperandReg(i, 1, out), !.src2 = OperandReg(i, 2, out),
                    !.src3 = IF i.op = "fma" THEN OperandReg(i, 3, out) ELSE 0]
        high == LoadImm(out.mapping[i.dst] + 1, 0)
    IN  <<OwnGuard(i, inst)>> \o IF i.dst \in Wide THEN <<OwnGuard(i, high)>> ELSE <<>>

(* What an item becomes before the guard of its region.                    *)
Instrs(i, offsets, out) ==
    CASE i.op = "ld" /\ i.srcs[1][1] = "param" ->
            LoadParam(i, offsets[i.srcs[1][2]], out)
      [] i.op = "ld" /\ i.srcs[1][1] # "param" ->
            <<OwnGuard(i, [Aec("LD", AecType(i.ty)) EXCEPT !.dest = out.mapping[i.dst],
                              !.src1 = out.mapping[i.srcs[1][2]], !.space = "gmem"])>>
      [] i.op = "st" ->
            <<OwnGuard(i, [Aec("ST", AecType(i.ty)) EXCEPT !.src1 = out.mapping[i.srcs[1][2]],
                              !.src2 = out.mapping[i.srcs[2][2]], !.space = "gmem"])>>
      [] i.op = "mov" -> <<OwnGuard(i, Move(i, out))>>
      [] i.op = "setp" ->
            LoadConstants(i) \o
            <<OwnGuard(i, [Aec("CMPP", AecType(i.ty)) EXCEPT
                              !.dest = i.dst, !.cmp = i.cmp,
                              !.src1 = OperandReg(i, 1, out), !.src2 = OperandReg(i, 2, out)])>>
      [] i.op = "bra" /\ i.guard -> <<OwnGuard(i, Aec("BRX", "none"))>>
      [] i.op = "bra" /\ ~ i.guard -> <<Aec("BR", "none")>>
      [] i.op = "ret" -> <<Aec("HALT", "none")>>
      [] OTHER -> LoadConstants(i) \o Alu(i, out)

(* _emit: the guard of the region, unless the instruction has one.         *)
Guarded(inst, k, plan) ==
    IF k \in DOMAIN plan.guards /\ inst.pred = NoPredicate
    THEN [inst EXCEPT !.pred = plan.guards[k][1], !.neg = plan.guards[k][2]] ELSE inst

NotUniform(k, i, plan) ==      \* CompileError: neither proven uniform nor legalised
    i.op = "bra" /\ i.guard /\ k \notin plan.uniform \cup plan.legacy

LowerItem(k, its, offsets, plan, out) ==
    LET i == its[k]
        placed == PlaceAll(out, i)
        new == Instrs(i, offsets, placed)
    IN  IF i.op = "label" THEN [out EXCEPT !.labels = [p \in {k} \cup DOMAIN @ |->
                                   IF p = k THEN Len(out.code) ELSE @[p]]]
        ELSE IF k \in plan.skipped THEN out
        ELSE IF NotUniform(k, i, plan) \/ placed.failed THEN [out EXCEPT !.failed = TRUE]
        ELSE [placed EXCEPT
                 !.code = @ \o [n \in DOMAIN new |-> Guarded(new[n], k, plan)],
                 !.branches = IF i.op = "bra" THEN @ \cup {<<Len(out.code) + 1, k>>} ELSE @]

(* _patch_branches: addresses count from 0.                                *)
Patched(its, out) ==
    [n \in DOMAIN out.code |->
        IF \E b \in out.branches : b[1] = n
        THEN LET b == CHOOSE c \in out.branches : c[1] = n
             IN  [out.code[n] EXCEPT !.imm = out.labels[LabelAt(its[b[2]].lbl, its)]]
        ELSE out.code[n]]

=============================================================================
