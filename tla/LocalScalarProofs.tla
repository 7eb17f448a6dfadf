-------------------------- MODULE LocalScalarProofs --------------------------
(***************************************************************************)
(* Proofs about LocalScalar, for all four passes, kernels of any length    *)
(* and arrivals with any register values.                                  *)
(*                                                                         *)
(* The argument.  Folding and load reuse keep both lanes in one state: a   *)
(* constant is what its register holds, and a cached load comes from a     *)
(* load since which nothing has written memory, the register it went to or *)
(* the one it came through (Cached).  A dead result makes the lanes differ *)
(* in registers that nothing reads.  With common subexpressions each       *)
(* register is in one of three conditions.  It agrees in both lanes        *)
(* (Agrees).  Or its definition was removed in a scope that has ended, and *)
(* nothing outside of that scope reads it (Gone).  Or it was removed in    *)
(* this one (Aliased), and then either its alias, which has no alias, has  *)
(* its value until it is read for the last time, or it is not read again   *)
(* in the scope.                                                           *)
(***************************************************************************)
EXTENDS LocalScalar, CfgProofs

At == DOMAIN items
Same(s, t) == s.mem = t.mem /\ s.seen = t.seen

(* The item that moves an operand to the same register, and a state in     *)
(* which a register has another value.                                     *)
MovOf(i, o) == [i EXCEPT !.op = "mov", !.srcs = <<o>>]
SetReg(s, d, x) == [s EXCEPT !.reg[d] = x]

-----------------------------------------------------------------------------
(* The inductive invariant.                                                *)

DreInv == \A r \in ReadBy(At) : out.reg[r] = src.reg[r]

FoldInv == out = src /\ DOMAIN constants = Reg /\ HoldsIn(constants, out)

(* Where a cached load comes from.                                         *)
Cached(k) ==
    \E j \in 1..(idx - 1) :
        /\ items[j].op = "ld"
        /\ k = <<items[j].srcs[1], items[j].ty>>
        /\ cache[k] = items[j].dst
        /\ \A n \in j..(idx - 1) : ~ ReuseBarrier(items[n])
ReuseInv ==
    /\ out = src
    /\ \A k \in DOMAIN cache :
          Cached(k) /\ out.reg[cache[k]] = out.mem[Val(k[1], out)]

(* Instruction n defined r for its scope alone: the pass may remove it.    *)
Local(n, r) ==
    /\ ~ CseBoundary(items[n])
    /\ items[n].dst = r
    /\ r \notin OutsideReads(n)

Agrees(r) == aliases[r] = r /\ out.reg[r] = src.reg[r]
Gone(r) ==
    /\ aliases[r] = r
    /\ \E n, m \in 1..(idx - 1) : n < m /\ Local(n, r) /\ CseBoundary(items[m])

Represented(r, t) ==
    /\ aliases[t] = t
    /\ out.reg[t] = src.reg[r]
    /\ \A j, k \in At :
          (idx <= j /\ j <= k /\ SameScope(idx, k, items) /\ Dest(items[j]) = t)
              => r \notin ReadRegs(items[k])
Unread(r) ==
    \A k \in At : idx <= k /\ SameScope(idx, k, items) => r \notin ReadRegs(items[k])
Aliased(r) ==
    /\ \E n \in 1..(idx - 1) : Local(n, r)
    /\ Represented(r, aliases[r]) \/ Unread(r)

Listed(k) ==
    /\ exprs[k] \in Reg /\ aliases[exprs[k]] = exprs[k]
    /\ k[3] \in Seq(Operand)
    /\ out.reg[exprs[k]] = Result(k[1], k[2], Vals(k[3], out))
CseInv ==
    /\ \A r \in Reg : Agrees(r) \/ Gone(r) \/ Aliased(r)
    /\ \A k \in DOMAIN exprs : Listed(k)

IInv ==
    /\ <<pass, items>> \in Inputs
    /\ idx \in 1..(Len(items) + 1)
    /\ Shape(src) /\ Shape(out) /\ Same(out, src)
    /\ aliases \in [Reg -> Reg]
    /\ pass # "cse" => exprs = NoExprs /\ aliases = NoAliases
    /\ pass # "fold" => constants = NoConstants
    /\ pass # "reuse" => cache = NoExprs
    /\ pass = "dre" => DreInv
    /\ pass = "fold" => FoldInv
    /\ pass = "reuse" => ReuseInv
    /\ pass = "cse" => CseInv

-----------------------------------------------------------------------------
(* Items and what executing them does to two lanes.                        *)

(* The items that come in.                                                 *)
LEMMA ItemFacts ==
  ASSUME <<pass, items>> \in Inputs
  PROVE  /\ pass \in {"dre", "cse", "fold", "reuse"}
         /\ items \in Seq(Item) /\ At = 1..Len(items) /\ Len(items) \in Nat
         /\ \A k \in At :
               /\ items[k] \in Item
               /\ items[k].op \in PureOp \cup {"ld", "fma"} => items[k].dst \in Reg
               /\ items[k].op = "ld" => items[k].srcs # <<>>
<1>1. /\ pass \in {"dre", "cse", "fold", "reuse"}
      /\ items \in Seq(Item)
      /\ \A k \in At :
            /\ items[k].op \in PureOp \cup {"ld", "fma"} => items[k].dst \in Reg
            /\ items[k].op = "ld" => items[k].srcs # <<>>
  <2> DEFINE p == <<pass, items>>
  <2>1. p[1] = pass /\ p[2] = items /\ p \in Inputs
    OBVIOUS
  <2> HIDE DEF p
  <2> QED BY <2>1, InputsAssumption DEF At
<1> QED BY <1>1 DEF At

(* Operands that agree have the same values.                               *)
LEMMA SameVals ==
  ASSUME NEW srcs \in Seq(Operand), NEW s, NEW t,
         \A r \in RegsIn(srcs) : s.reg[r] = t.reg[r]
  PROVE  Vals(srcs, s) = Vals(srcs, t)
<1>1. \A k \in DOMAIN srcs : Val(srcs[k], s) = Val(srcs[k], t)
  BY DEF Val, RegsIn
<1> QED BY <1>1 DEF Vals

(* What an instruction writes is unlike NoReg.                             *)
LEMMA WritesFacts ==
  ASSUME NEW i, i.op \in Op, i.op \in PureOp \cup {"ld", "fma"} => i.dst \in Reg,
         NEW s, Shape(s)
  PROVE  /\ Shape(Exec(i, s))
         /\ Exec(i, s).reg = NewReg(i, s)
         /\ Exec(i, s).mem = NewMem(i, s)
         /\ Exec(i, s).seen = NewSeen(i, s)
         /\ \A r \in Reg : r # Writes(i) => NewReg(i, s)[r] = s.reg[r]
         /\ i.op \in PureOp => NewReg(i, s)[i.dst] = Result(i.op, i.ty, Vals(i.srcs, s))
         /\ i.op = "ld" => NewReg(i, s)[i.dst] = s.mem[Vals(i.srcs, s)[1]]
<1> DEFINE u == Exec(i, s)
           q == NewReg(i, s)
           m == NewMem(i, s)
           z == NewSeen(i, s)
<1>1. u = [reg |-> q, mem |-> m, seen |-> z]
  BY ExecFields
<1>2. DOMAIN q = Reg
  BY DEF NewReg, Shape
<1>3. \A r \in Reg : r # Writes(i) => q[r] = s.reg[r]
  BY DEF NewReg, Writes, Shape
<1>4. i.op \in PureOp => q[i.dst] = Result(i.op, i.ty, Vals(i.srcs, s))
  BY DEF NewReg, PureOp, Shape
<1>5. i.op = "ld" => q[i.dst] = s.mem[Vals(i.srcs, s)[1]]
  BY DEF NewReg, PureOp, Shape
<1>6. Shape(u) /\ u.reg = q /\ u.mem = m /\ u.seen = z
  <2> HIDE DEF u, q, m, z
  <2> QED BY <1>1, <1>2 DEF Shape
<1> QED BY <1>3, <1>4, <1>5, <1>6

(* Two instructions that differ in their operands alone, and read the same *)
(* values, do the same.                                                    *)
LEMMA SameExec ==
  ASSUME NEW i, NEW j, i.op \in Op, j.op = i.op, j.ty = i.ty, j.dst = i.dst,
         i.op \in PureOp \cup {"ld", "fma"} => i.dst \in Reg,
         NEW s, NEW t, Shape(s), Shape(t), Same(t, s),
         Vals(j.srcs, t) = Vals(i.srcs, s)
  PROVE  /\ Same(Exec(j, t), Exec(i, s))
         /\ \A r \in Reg : r = Writes(i) => Exec(j, t).reg[r] = Exec(i, s).reg[r]
         /\ \A r \in Reg : r # Writes(i) => /\ Exec(j, t).reg[r] = t.reg[r]
                                           /\ Exec(i, s).reg[r] = s.reg[r]
<1>1. /\ Exec(i, s).reg = NewReg(i, s) /\ Exec(j, t).reg = NewReg(j, t)
      /\ Exec(i, s).mem = NewMem(i, s) /\ Exec(j, t).mem = NewMem(j, t)
      /\ Exec(i, s).seen = NewSeen(i, s) /\ Exec(j, t).seen = NewSeen(j, t)
      /\ \A r \in Reg : r # Writes(i) => NewReg(i, s)[r] = s.reg[r]
      /\ \A r \in Reg : r # Writes(j) => NewReg(j, t)[r] = t.reg[r]
  BY WritesFacts
<1>2. NewMem(j, t) = NewMem(i, s) /\ NewSeen(j, t) = NewSeen(i, s)
  BY DEF NewMem, NewSeen, Same
<1>3. Writes(j) = Writes(i)
  BY DEF Writes
<1>4. ASSUME NEW r \in Reg, r = Writes(i) PROVE NewReg(j, t)[r] = NewReg(i, s)[r]
  <2>1. i.op \in PureOp \cup {"ld", "fma"} /\ r = i.dst
    BY <1>4, PtxAssumption DEF Writes
  <2>2. s.mem = t.mem /\ DOMAIN s.reg = Reg /\ DOMAIN t.reg = Reg
    BY DEF Same, Shape
  <2> QED BY <2>1, <2>2 DEF NewReg
<1> QED BY <1>1, <1>2, <1>3, <1>4 DEF Same

(* The part of the invariant that every step keeps alike.                  *)
LEMMA EmitFrame ==
  ASSUME <<pass, items>> \in Inputs, idx \in 1..(Len(items) + 1), idx <= Len(items),
         NEW e, Emit(e)
  PROVE  /\ <<pass', items'>> \in Inputs
         /\ pass' = pass /\ items' = items /\ At' = At
         /\ idx' = idx + 1 /\ idx' \in 1..(Len(items') + 1)
         /\ idx \in At /\ idx \in 1..(idx' - 1)
         /\ \A n \in 1..(idx - 1) : n \in 1..(idx' - 1) /\ n < idx /\ n \in At
         /\ \A n \in 1..(idx' - 1) : n = idx \/ n \in 1..(idx - 1)
<1>1. Len(items) \in Nat /\ At = 1..Len(items)
  BY ItemFacts
<1>2. pass' = pass /\ items' = items /\ idx' = idx + 1
  BY DEF Emit
<1>3. At' = At
  BY <1>2 DEF At
<1>4. /\ idx \in 1..Len(items) /\ idx + 1 \in 1..(Len(items) + 1)
      /\ (idx + 1) - 1 = idx
  BY <1>1
<1> QED BY <1>1, <1>2, <1>3, <1>4

(* Lanes in one state that take the same item stay in one state.           *)
LEMMA EmitKeepsEqual ==
  ASSUME out = src, Emit(<<item>>)
  PROVE  out' = src'
<1>1. <<item>> # <<>> /\ <<item>>[1] = item
  OBVIOUS
<1> QED BY <1>1 DEF Emit

(* Lanes that agree on what the item reads agree on what it does.          *)
LEMMA EmitItem ==
  ASSUME <<pass, items>> \in Inputs, idx \in At,
         Shape(src), Shape(out), Same(out, src),
         \A r \in RegsIn(item.srcs) : out.reg[r] = src.reg[r],
         Emit(<<item>>)
  PROVE  /\ Shape(src') /\ Shape(out') /\ Same(out', src')
         /\ \A r \in Reg : \/ out'.reg[r] = src'.reg[r]
                           \/ out'.reg[r] = out.reg[r] /\ src'.reg[r] = src.reg[r]
<1>1. /\ item \in Item /\ item.op \in Op /\ item.srcs \in Seq(Operand)
      /\ item.op \in PureOp \cup {"ld", "fma"} => item.dst \in Reg
  BY ItemFacts DEF item, Item
<1>2. CASE \E a \in Arrivals : src' = [src EXCEPT !.reg = a] /\ out' = [out EXCEPT !.reg = a]
  <2>1. PICK a \in Arrivals : src' = [src EXCEPT !.reg = a] /\ out' = [out EXCEPT !.reg = a]
    BY <1>2
  <2>2. DOMAIN a = Reg
    BY <2>1, StartsAssumption
  <2>3. /\ src' = [reg |-> a, mem |-> src.mem, seen |-> src.seen]
        /\ out' = [reg |-> a, mem |-> out.mem, seen |-> out.seen]
    BY <2>1 DEF Shape
  <2> QED BY <2>2, <2>3 DEF Shape, Same
<1>3. CASE UNCHANGED <<src, out>>
  BY <1>3 DEF Shape, Same
<1>4. CASE src' = Exec(item, src) /\ out' = Exec(item, out)
  <2>1. Vals(item.srcs, out) = Vals(item.srcs, src)
    BY <1>1, SameVals
  <2>2. Shape(src') /\ Shape(out')
    BY <1>1, <1>4, WritesFacts
  <2>3. /\ Same(Exec(item, out), Exec(item, src))
        /\ \A r \in Reg : r = Writes(item) => Exec(item, out).reg[r] = Exec(item, src).reg[r]
        /\ \A r \in Reg : r # Writes(item) => /\ Exec(item, out).reg[r] = out.reg[r]
                                              /\ Exec(item, src).reg[r] = src.reg[r]
    <3> DEFINE i == item
               s == src
               t == out
    <3>1. /\ i.op \in Op /\ (i.op \in PureOp \cup {"ld", "fma"} => i.dst \in Reg)
          /\ Shape(s) /\ Shape(t) /\ Same(t, s) /\ Vals(i.srcs, t) = Vals(i.srcs, s)
      BY <1>1, <2>1
    <3> HIDE DEF i, s, t
    <3>2. /\ Same(Exec(i, t), Exec(i, s))
          /\ \A r \in Reg : r = Writes(i) => Exec(i, t).reg[r] = Exec(i, s).reg[r]
          /\ \A r \in Reg : r # Writes(i) => /\ Exec(i, t).reg[r] = t.reg[r]
                                             /\ Exec(i, s).reg[r] = s.reg[r]
      BY <3>1, SameExec
    <3> QED BY <3>2 DEF i, s, t
  <2>4. Same(out', src')
    BY <1>4, <2>3 DEF Same
  <2> QED BY <1>4, <2>2, <2>3, <2>4
<1>5. <<item>> # <<>> /\ <<item>>[1] = item
  OBVIOUS
<1> QED BY <1>2, <1>3, <1>4, <1>5 DEF Emit

(* A pure instruction writes its result and nothing else.                  *)
LEMMA PureExec ==
  ASSUME NEW i, i.op \in PureOp, NEW s
  PROVE  Exec(i, s) = SetReg(s, i.dst, Result(i.op, i.ty, Vals(i.srcs, s)))
BY DEF Exec, PureOp, SetReg

(* A mov writes its operand.                                               *)
LEMMA MovExec ==
  ASSUME NEW i \in Item, NEW o, NEW s
  PROVE  Exec(MovOf(i, o), s) = SetReg(s, i.dst, Val(o, s))
<1> DEFINE m == MovOf(i, o)
<1>1. m.op = "mov" /\ m.srcs = <<o>> /\ m.dst = i.dst /\ m.ty = i.ty
  BY DEF Item, MovOf
<1> HIDE DEF m
<1>2. Vals(m.srcs, s)[1] = Val(o, s)
  BY <1>1 DEF Vals
<1>3. Result(m.op, m.ty, Vals(m.srcs, s)) = Val(o, s)
  BY <1>1, <1>2 DEF Result
<1>4. m.op \in PureOp
  BY <1>1 DEF PureOp
<1>5. Exec(m, s) = SetReg(s, m.dst, Result(m.op, m.ty, Vals(m.srcs, s)))
  BY <1>4, PureExec
<1> QED BY <1>1, <1>3, <1>5 DEF m

(* A load writes what is in memory at its address.                         *)
LEMMA LoadExec ==
  ASSUME NEW i, i.op = "ld", i.srcs \in Seq(Operand), i.srcs # <<>>, NEW s
  PROVE  Exec(i, s) = SetReg(s, i.dst, s.mem[Val(i.srcs[1], s)])
<1>1. Vals(i.srcs, s)[1] = Val(i.srcs[1], s)
  BY DEF Vals
<1>2. Exec(i, s) = SetReg(s, i.dst, s.mem[Vals(i.srcs, s)[1]])
  BY DEF Exec, SetReg
<1> QED BY <1>1, <1>2

(* What instructions read are registers.                                   *)
LEMMA ReadRegsFacts ==
  ASSUME <<pass, items>> \in Inputs, NEW k \in At
  PROVE  /\ ReadRegs(items[k]) \subseteq Reg
         /\ RegsIn(items[k].srcs) \subseteq ReadRegs(items[k])
         /\ items[k].srcs \in Seq(Operand)
<1>1. /\ items[k].srcs \in Seq(Operand)
      /\ items[k].op = "fma" => items[k].dst \in Reg
  BY ItemFacts DEF Item
<1>2. \A o \in Operand : o[1] = "reg" => o[2] \in Reg
  BY DEF Operand
<1>3. RegsIn(items[k].srcs) \subseteq Reg
  BY <1>1, <1>2 DEF RegsIn
<1> QED BY <1>1, <1>3 DEF ReadRegs

-----------------------------------------------------------------------------
(* Dead results.                                                           *)

(* What is removed writes a register that nothing reads.                   *)
LEMMA DeadResultStep == IInv /\ DeadResult => IInv'
<1> SUFFICES ASSUME IInv, DeadResult PROVE IInv'
  OBVIOUS
<1>1. /\ <<pass, items>> \in Inputs /\ idx \in 1..(Len(items) + 1) /\ idx <= Len(items)
      /\ Shape(src) /\ Shape(out) /\ Same(out, src) /\ DreInv /\ pass = "dre"
      /\ aliases \in [Reg -> Reg] /\ exprs = NoExprs /\ aliases = NoAliases
      /\ constants = NoConstants /\ cache = NoExprs
      /\ UNCHANGED <<exprs, aliases, constants, cache>>
      /\ Emit(IF Removable(item) THEN <<>> ELSE <<item>>)
  BY DEF IInv, DeadResult, Running
<1>2. /\ <<pass', items'>> \in Inputs /\ pass' = pass /\ items' = items /\ At' = At
      /\ idx' \in 1..(Len(items') + 1) /\ idx \in At
  BY <1>1, EmitFrame
<1>3. /\ item \in Item /\ item.op \in Op /\ item.srcs \in Seq(Operand)
      /\ item.op \in PureOp \cup {"ld", "fma"} => item.dst \in Reg
  BY <1>1, <1>2, ItemFacts DEF item, Item
<1>4. \A r \in ReadBy(At) : r \in Reg
  BY <1>1, ReadRegsFacts DEF ReadBy
<1>5. /\ Shape(src') /\ Shape(out') /\ Same(out', src')
      /\ \A r \in ReadBy(At) : out'.reg[r] = src'.reg[r]
  <2>1. CASE Removable(item)
    <3>1. /\ item.op \in PureOp /\ ~ item.guard /\ item.op # "label"
          /\ item.dst \in Reg /\ item.dst \notin ReadBy(At)
      BY <2>1, <1>3 DEF Removable, PureOp, At
    <3>2. src' = Exec(item, src) /\ out' = out
      BY <1>1, <2>1, <3>1 DEF Emit
    <3>3. /\ Shape(src') /\ src'.reg = NewReg(item, src)
          /\ src'.mem = NewMem(item, src) /\ src'.seen = NewSeen(item, src)
          /\ \A r \in Reg : r # Writes(item) => NewReg(item, src)[r] = src.reg[r]
      BY <1>1, <1>3, <3>2, WritesFacts
    <3>4. Writes(item) = item.dst /\ NewMem(item, src) = src.mem /\ NewSeen(item, src) = src.seen
      BY <3>1 DEF Writes, NewMem, NewSeen, PureOp
    <3>5. Same(out', src')
      BY <1>1, <3>2, <3>3, <3>4 DEF Same
    <3> QED BY <1>1, <1>4, <3>1, <3>2, <3>3, <3>4, <3>5 DEF DreInv
  <2>2. CASE ~ Removable(item)
    <3>1. Emit(<<item>>)
      BY <1>1, <2>2
    <3>2. \A r \in RegsIn(item.srcs) : r \in ReadBy(At)
      BY <1>1, <1>2, ReadRegsFacts DEF ReadBy, item
    <3>3. \A r \in RegsIn(item.srcs) : out.reg[r] = src.reg[r]
      BY <1>1, <3>2 DEF DreInv
    <3>4. /\ Shape(src') /\ Shape(out') /\ Same(out', src')
          /\ \A r \in Reg : \/ out'.reg[r] = src'.reg[r]
                            \/ out'.reg[r] = out.reg[r] /\ src'.reg[r] = src.reg[r]
      BY <1>1, <1>2, <3>1, <3>3, EmitItem
    <3> QED BY <1>1, <1>4, <3>4 DEF DreInv
  <2> QED BY <2>1, <2>2
<1>6. DreInv'
  BY <1>2, <1>5 DEF DreInv, ReadBy
<1> QED BY <1>1, <1>2, <1>5, <1>6 DEF IInv, NoAliases, NoExprs, NoConstants, Same, Shape

-----------------------------------------------------------------------------
(* Constants.                                                              *)

(* A result that is folded is the result.                                  *)
LEMMA FoldedSound ==
  ASSUME NEW i \in Item, ~ FoldBoundary(i), NEW s, HoldsIn(constants, s),
         NEW v \in Folded(i)
  PROVE  v = Result(i.op, i.ty, Vals(i.srcs, s))
<1>1. /\ i.srcs \in Seq(Operand)
      /\ i.op \in {"mov", "add", "mul"} /\ (i.op = "mul" => i.ty = "f32")
  BY DEF FoldBoundary, PureOp, Item
<1>2. PICK f \in [DOMAIN i.srcs -> Word] :
         /\ \A k \in DOMAIN i.srcs : f[k] \in Known(i.srcs[k], i.ty, constants)
         /\ v = Evaluate(i, f)
  BY DEF Folded
<1>3. \A k \in DOMAIN i.srcs : f[k] = Val(i.srcs[k], s)
  <2> TAKE k \in DOMAIN i.srcs
  <2>1. i.srcs[k] \in Operand
    BY <1>1
  <2>2. f[k] \in Known(i.srcs[k], i.ty, constants)
    BY <1>2
  <2>3. Known(i.srcs[k], i.ty, constants) = {Val(i.srcs[k], s)}
    BY <2>1, <2>2, KnownSound
  <2> QED BY <2>2, <2>3
<1>4. f = Vals(i.srcs, s)
  BY <1>3 DEF Vals
<1>5. Evaluate(i, f) = Result(i.op, i.ty, f)
  <2>1. CASE i.op = "mov"
    BY <2>1 DEF Evaluate, Result
  <2>2. CASE i.op = "mul"
    BY <2>2, <1>1 DEF Evaluate, Result
  <2>3. CASE i.op = "add" /\ i.ty = "f32"
    BY <2>3 DEF Evaluate, Result
  <2>4. CASE i.op = "add" /\ i.ty # "f32"
    BY <2>4 DEF Evaluate, Result
  <2> QED BY <1>1, <2>1, <2>2, <2>3, <2>4
<1> QED BY <1>2, <1>4, <1>5

(* At the end of a block the constants are given up.                       *)
LEMMA FoldBlockEndsStep == IInv /\ FoldBlockEnds => IInv'
<1> SUFFICES ASSUME IInv, FoldBlockEnds PROVE IInv'
  OBVIOUS
<1>1. /\ <<pass, items>> \in Inputs /\ idx \in 1..(Len(items) + 1) /\ idx <= Len(items)
      /\ Shape(src) /\ Shape(out) /\ Same(out, src) /\ FoldInv /\ pass = "fold"
      /\ aliases \in [Reg -> Reg] /\ exprs = NoExprs /\ aliases = NoAliases
      /\ cache = NoExprs /\ UNCHANGED <<exprs, aliases, cache>>
      /\ constants' = NoConstants /\ Emit(<<item>>)
  BY DEF IInv, FoldBlockEnds, Running
<1>2. /\ <<pass', items'>> \in Inputs /\ pass' = pass
      /\ idx' \in 1..(Len(items') + 1) /\ idx \in At
  BY <1>1, EmitFrame
<1>3. out = src /\ out' = src'
  BY <1>1, EmitKeepsEqual DEF FoldInv
<1>4. Shape(src') /\ Shape(out') /\ Same(out', src')
  BY <1>1, <1>2, <1>3, EmitItem
<1>5. FoldInv'
  BY <1>1, <1>3 DEF FoldInv, HoldsIn, NoConstants
<1> QED BY <1>1, <1>2, <1>4, <1>5 DEF IInv, NoAliases, NoExprs, Same, Shape

(* Folded or not, the instruction does what it did, and the pass knows it. *)
LEMMA FoldInstructionStep == IInv /\ FoldInstruction => IInv'
<1> SUFFICES ASSUME IInv, FoldInstruction PROVE IInv'
  OBVIOUS
<1>1. /\ <<pass, items>> \in Inputs /\ idx \in 1..(Len(items) + 1) /\ idx <= Len(items)
      /\ Shape(src) /\ Shape(out) /\ Same(out, src) /\ FoldInv /\ pass = "fold"
      /\ aliases \in [Reg -> Reg] /\ exprs = NoExprs /\ aliases = NoAliases
      /\ cache = NoExprs /\ UNCHANGED <<exprs, aliases, cache>>
      /\ ~ FoldBoundary(item)
  BY DEF IInv, FoldInstruction, Running
<1> DEFINE Told(e, c) ==
               \/ \E v \in Folded(item) :
                     /\ c = <<item.ty, v>>
                     /\ e = MovOf(item, Immediate(v, item.ty))
               \/ c = <<>> /\ e = item
<1>2. \E e, c : /\ Emit(<<e>>) /\ constants' = [constants EXCEPT ![item.dst] = c]
                /\ Told(e, c)
  <2>1. CASE Folded(item) = {}
    <3>1. constants' = [constants EXCEPT ![item.dst] = <<>>] /\ Emit(<<item>>)
      BY <2>1 DEF FoldInstruction
    <3> QED BY <3>1
  <2>2. CASE Folded(item) # {}
    <3>1. PICK v \in Folded(item) :
             /\ constants' = [constants EXCEPT ![item.dst] = <<item.ty, v>>]
             /\ Emit(<<MovOf(item, Immediate(v, item.ty))>>)
      BY <2>2 DEF FoldInstruction, MovOf
    <3> DEFINE e == MovOf(item, Immediate(v, item.ty))
               c == <<item.ty, v>>
    <3>2. Emit(<<e>>) /\ constants' = [constants EXCEPT ![item.dst] = c] /\ Told(e, c)
      BY <3>1
    <3> HIDE DEF e, c, Told
    <3> QED BY <3>2
  <2> QED BY <2>1, <2>2
<1>3. PICK e, c : /\ Emit(<<e>>) /\ constants' = [constants EXCEPT ![item.dst] = c]
                  /\ Told(e, c)
  BY <1>2
<1>4. /\ <<pass', items'>> \in Inputs /\ pass' = pass
      /\ idx' \in 1..(Len(items') + 1) /\ idx \in At
  BY <1>1, <1>3, EmitFrame
<1>5. /\ item \in Item /\ item.op \in Op /\ item.op \in PureOp /\ item.dst \in Reg
      /\ ~ item.guard /\ item.op # "label"
  <2>1. item \in Item /\ item.op \in PureOp /\ ~ item.guard
    BY <1>1, <1>4, ItemFacts DEF item, FoldBoundary
  <2>2. item.dst \in Reg
    BY <1>1, <1>4, <2>1, ItemFacts DEF item
  <2> QED BY <2>1, <2>2 DEF PureOp, Op
<1>6. src' = Exec(item, src) /\ out' = Exec(e, out)
  <2>1. <<e>> # <<>> /\ <<e>>[1] = e
    OBVIOUS
  <2> QED BY <1>3, <1>5, <2>1 DEF Emit
<1>7. out = src /\ DOMAIN constants = Reg /\ HoldsIn(constants, src)
  BY <1>1 DEF FoldInv
<1>8. /\ Exec(e, src) = Exec(item, src)
      /\ c # <<>> => c[2] = Result(item.op, item.ty, Vals(item.srcs, src))
  <2>1. ASSUME NEW v \in Folded(item), c = <<item.ty, v>>,
               e = MovOf(item, Immediate(v, item.ty))
        PROVE  /\ Exec(e, src) = Exec(item, src)
               /\ c # <<>> => c[2] = Result(item.op, item.ty, Vals(item.srcs, src))
    <3>1. v = Result(item.op, item.ty, Vals(item.srcs, src))
      BY <1>1, <1>5, <1>7, FoldedSound
    <3>2. Val(Immediate(v, item.ty), src) = v
      BY DEF Val, Immediate, F, I
    <3>3. Exec(e, src) = SetReg(src, item.dst, Val(Immediate(v, item.ty), src))
      BY <2>1, <1>5, MovExec
    <3>4. Exec(item, src)
            = SetReg(src, item.dst, Result(item.op, item.ty, Vals(item.srcs, src)))
      BY <1>5, PureExec
    <3>5. c[2] = v
      BY <2>1
    <3> QED BY ONLY <3>1, <3>2, <3>3, <3>4, <3>5
  <2> QED BY <1>3, <2>1
<1>9. out' = src'
  BY <1>6, <1>7, <1>8
<1>10. /\ Shape(src') /\ src'.reg = NewReg(item, src)
       /\ \A r \in Reg : r # Writes(item) => NewReg(item, src)[r] = src.reg[r]
       /\ NewReg(item, src)[item.dst] = Result(item.op, item.ty, Vals(item.srcs, src))
  BY <1>1, <1>5, <1>6, WritesFacts
<1>11. Shape(out') /\ Same(out', src')
  BY <1>9, <1>10 DEF Same
<1>12. HoldsIn(constants', out')
  <2> SUFFICES ASSUME NEW r \in Reg, constants'[r] # <<>>
               PROVE  src'.reg[r] = constants'[r][2]
    BY <1>9 DEF HoldsIn
  <2>1. CASE r = item.dst
    <3>1. constants'[r] = c
      BY <2>1, <1>3, <1>7
    <3> QED BY <3>1, <2>1, <1>8, <1>10
  <2>2. CASE r # item.dst
    <3>1. constants'[r] = constants[r]
      BY <2>2, <1>3, <1>7
    <3>2. src'.reg[r] = src.reg[r]
      BY <2>2, <1>5, <1>10 DEF Writes
    <3> QED BY <3>1, <3>2, <1>7 DEF HoldsIn
  <2> QED BY <2>1, <2>2
<1>13. FoldInv'
  BY <1>3, <1>7, <1>9, <1>12 DEF FoldInv
<1> QED BY <1>1, <1>4, <1>10, <1>11, <1>13 DEF IInv, NoAliases, NoExprs, Same, Shape

-----------------------------------------------------------------------------
(* Loads.                                                                  *)

(* What the invariant says while this pass runs.                           *)
LEMMA ReuseRuns ==
  ASSUME IInv, Running("reuse")
  PROVE  /\ <<pass, items>> \in Inputs /\ idx \in 1..(Len(items) + 1) /\ idx <= Len(items)
         /\ idx \in At /\ item = items[idx]
         /\ Shape(src) /\ Shape(out) /\ Same(out, src) /\ ReuseInv /\ pass = "reuse"
         /\ aliases \in [Reg -> Reg] /\ exprs = NoExprs /\ aliases = NoAliases
         /\ constants = NoConstants
         /\ item \in Item /\ item.op \in Op /\ item.srcs \in Seq(Operand)
         /\ item.op \in PureOp \cup {"ld", "fma"} => item.dst \in Reg
         /\ item.op = "ld" => item.srcs # <<>>
<1>1. /\ <<pass, items>> \in Inputs /\ idx \in 1..(Len(items) + 1) /\ idx <= Len(items)
      /\ Shape(src) /\ Shape(out) /\ Same(out, src) /\ ReuseInv /\ pass = "reuse"
      /\ aliases \in [Reg -> Reg] /\ exprs = NoExprs /\ aliases = NoAliases
      /\ constants = NoConstants
  BY DEF IInv, Running
<1>2. idx \in At
  BY <1>1, ItemFacts
<1>3. /\ items[idx] \in Item
      /\ items[idx].op \in PureOp \cup {"ld", "fma"} => items[idx].dst \in Reg
      /\ items[idx].op = "ld" => items[idx].srcs # <<>>
  BY <1>1, <1>2, ItemFacts
<1> QED BY <1>1, <1>2, <1>3 DEF item, Item

(* With ReuseInv for the next item, the rest of the invariant follows.     *)
LEMMA ReuseRest ==
  ASSUME IInv, Running("reuse"), NEW e, Emit(<<e>>), out' = src', Shape(src'),
         UNCHANGED <<exprs, aliases, constants>>,
         \A k \in DOMAIN cache' :
            Cached(k)' /\ out'.reg[cache'[k]] = out'.mem[Val(k[1], out')]
  PROVE  IInv'
<1>1. /\ <<pass', items'>> \in Inputs /\ pass' = pass
      /\ idx' \in 1..(Len(items') + 1)
  BY ReuseRuns, EmitFrame
<1>2. ReuseInv'
  BY DEF ReuseInv
<1>3. Same(out', src') /\ Shape(out')
  BY DEF Same
<1>4. /\ pass = "reuse" /\ aliases \in [Reg -> Reg] /\ exprs = NoExprs
      /\ aliases = NoAliases /\ constants = NoConstants
  BY ReuseRuns
<1> QED BY <1>1, <1>2, <1>3, <1>4 DEF IInv, NoAliases, NoExprs, NoConstants, Same, Shape

(* A barrier empties the cache.                                            *)
LEMMA ReuseForgetsStep == IInv /\ ReuseForgets => IInv'
<1> SUFFICES ASSUME IInv, ReuseForgets PROVE IInv'
  OBVIOUS
<1>1. /\ Running("reuse") /\ Emit(<<item>>) /\ cache' = NoExprs
      /\ UNCHANGED <<exprs, aliases, constants>>
  BY DEF ReuseForgets
<1>2. out = src /\ out' = src'
  BY <1>1, ReuseRuns, EmitKeepsEqual DEF ReuseInv
<1>3. Shape(src')
  BY <1>1, <1>2, ReuseRuns, EmitItem
<1>4. DOMAIN cache' = {}
  BY <1>1 DEF NoExprs
<1> QED BY <1>1, <1>2, <1>3, <1>4, ReuseRest

(* In an admissible kernel an item that is not a barrier leaves an entry   *)
(* of the cache alone, unless it writes the register it was loaded by and  *)
(* the pass drops it.                                                      *)
LEMMA CachedIsKept ==
  ASSUME IInv, Running("reuse"), AdmissibleReuse(items), ~ ReuseBarrier(item),
         NEW e, Emit(<<e>>), out' = src', src' = Exec(item, src),
         NEW k \in DOMAIN cache, k \in DOMAIN cache', cache'[k] = cache[k],
         k[1] # R(Dest(item)) \/ item.op = "ld"
  PROVE  Cached(k)' /\ out'.reg[cache'[k]] = out'.mem[Val(k[1], out')]
<1>0. /\ <<pass, items>> \in Inputs /\ idx \in 1..(Len(items) + 1) /\ idx <= Len(items)
      /\ idx \in At /\ item = items[idx] /\ Shape(src) /\ out = src
      /\ item.op \in Op /\ (item.op \in PureOp \cup {"ld", "fma"} => item.dst \in Reg)
      /\ Cached(k) /\ out.reg[cache[k]] = out.mem[Val(k[1], out)]
  BY ReuseRuns DEF ReuseInv
<1>1. /\ items' = items /\ idx' = idx + 1 /\ idx \in 1..(idx' - 1)
      /\ \A n \in 1..(idx - 1) : n \in 1..(idx' - 1) /\ n < idx /\ n \in At
      /\ \A n \in 1..(idx' - 1) : n = idx \/ n \in 1..(idx - 1)
  BY <1>0, EmitFrame
<1>2. PICK j \in 1..(idx - 1) :
         /\ items[j].op = "ld"
         /\ k = <<items[j].srcs[1], items[j].ty>>
         /\ cache[k] = items[j].dst
         /\ \A n \in j..(idx - 1) : ~ ReuseBarrier(items[n])
  BY <1>0 DEF Cached
<1>3. j \in At /\ j < idx /\ j <= idx /\ j \in 1..(idx' - 1) /\ idx \in Nat /\ j \in Nat
  BY <1>0, <1>1
<1>4. \A n \in j..idx : ~ ReuseBarrier(items[n])
  <2> TAKE n \in j..idx
  <2>1. n = idx \/ n \in j..(idx - 1)
    BY <1>3
  <2> QED BY <2>1, <1>0, <1>2
<1>5. Cached(k)'
  <2>1. idx' - 1 = idx
    BY <1>1, <1>3
  <2> QED BY <1>1, <1>2, <1>3, <1>4, <2>1 DEF Cached
<1>6. /\ item.dst # cache[k]
      /\ item.op \in {"ld", "fma"} => R(item.dst) # k[1]
  <2>1. /\ j < idx => items[idx].dst # items[j].dst
        /\ items[idx].op \in {"ld", "fma"} => R(items[idx].dst) # items[j].srcs[1]
    BY <1>0, <1>2, <1>3, <1>4 DEF AdmissibleReuse, At
  <2> QED BY <2>1, <1>0, <1>2, <1>3
<1>7. /\ cache[k] \in Reg /\ k[1] \in Operand
  <2>1. /\ items[j].dst \in Reg /\ items[j].srcs \in Seq(Operand) /\ items[j].srcs # <<>>
    BY <1>0, <1>2, <1>3, ItemFacts DEF Item
  <2> QED BY <2>1, <1>2
<1>8. /\ \A r \in Reg : r # Writes(item) => src'.reg[r] = src.reg[r]
      /\ src'.mem = src.mem
  <2>1. /\ src'.reg = NewReg(item, src) /\ src'.mem = NewMem(item, src)
        /\ \A r \in Reg : r # Writes(item) => NewReg(item, src)[r] = src.reg[r]
    BY <1>0, WritesFacts
  <2>2. NewMem(item, src) = src.mem
    BY DEF NewMem, ReuseBarrier
  <2> QED BY <2>1, <2>2
<1>9. cache[k] # Writes(item)
  BY <1>6, <1>7, PtxAssumption DEF Writes
<1>10. Val(k[1], src') = Val(k[1], src)
  <2>1. CASE k[1][1] = "reg"
    <3>1. k[1][2] \in Reg /\ k[1] = R(k[1][2])
      BY <2>1, <1>7 DEF Operand, R
    <3>2. k[1][2] # Writes(item)
      BY <3>1, <1>6, PtxAssumption DEF Writes, Dest
    <3> QED BY <3>1, <3>2, <1>8, <2>1 DEF Val
  <2>2. CASE k[1][1] # "reg"
    BY <2>2 DEF Val
  <2> QED BY <2>1, <2>2
<1>11. src'.reg[cache[k]] = src.reg[cache[k]]
  BY <1>7, <1>8, <1>9
<1> QED BY <1>0, <1>5, <1>8, <1>10, <1>11

(* A load that is in the cache becomes a move of the same value; one that  *)
(* is not enters it.                                                       *)
LEMMA ReuseLoadStep == IInv /\ AdmissibleReuse(items) /\ ReuseLoad => IInv'
<1> SUFFICES ASSUME IInv, AdmissibleReuse(items), ReuseLoad PROVE IInv'
  OBVIOUS
<1> DEFINE key == <<item.srcs[1], item.ty>>
           moved == MovOf(item, R(cache[key]))
<1>1. /\ Running("reuse") /\ ~ ReuseBarrier(item) /\ item.op = "ld"
      /\ UNCHANGED <<exprs, aliases, constants>>
      /\ \/ key \in DOMAIN cache /\ Emit(<<moved>>) /\ UNCHANGED cache
         \/ /\ key \notin DOMAIN cache
            /\ cache' = Plus(cache, key, item.dst) /\ Emit(<<item>>)
  BY DEF ReuseLoad, MovOf
<1>2. /\ <<pass, items>> \in Inputs /\ idx \in 1..(Len(items) + 1) /\ idx <= Len(items)
      /\ idx \in At /\ item = items[idx] /\ Shape(src) /\ out = src
      /\ item \in Item /\ item.op \in Op /\ item.dst \in Reg
      /\ item.srcs \in Seq(Operand) /\ item.srcs # <<>>
      /\ item.op \in PureOp \cup {"ld", "fma"} => item.dst \in Reg
      /\ \A k \in DOMAIN cache : out.reg[cache[k]] = out.mem[Val(k[1], out)]
  BY <1>1, ReuseRuns DEF ReuseInv
<1>3. ~ item.guard /\ item.op # "label"
  BY <1>1 DEF ReuseBarrier
<1>4. Exec(item, src) = SetReg(src, item.dst, src.mem[Val(item.srcs[1], src)])
  BY <1>1, <1>2, LoadExec
<1>5. ASSUME src' = Exec(item, src)
      PROVE  Shape(src')
  BY <1>5, <1>2, WritesFacts
<1> HIDE DEF moved
<1>6. CASE key \in DOMAIN cache /\ Emit(<<moved>>) /\ UNCHANGED cache
  <2>1. src' = Exec(item, src) /\ out' = Exec(moved, out)
    <3>1. <<moved>> # <<>> /\ <<moved>>[1] = moved
      OBVIOUS
    <3> QED BY <1>3, <1>6, <3>1 DEF Emit
  <2>2. Exec(moved, src) = SetReg(src, item.dst, Val(R(cache[key]), src))
    BY <1>2, MovExec DEF moved
  <2>3. Val(R(cache[key]), src) = src.mem[Val(item.srcs[1], src)]
    <3>1. Val(R(cache[key]), src) = src.reg[cache[key]]
      BY DEF Val, R
    <3>2. src.reg[cache[key]] = src.mem[Val(key[1], src)]
      BY <1>2, <1>6
    <3> QED BY <3>1, <3>2
  <2>4. out' = src'
    BY <1>2, <1>4, <2>1, <2>2, <2>3
  <2>5. \A k \in DOMAIN cache' :
            Cached(k)' /\ out'.reg[cache'[k]] = out'.mem[Val(k[1], out')]
    BY <1>1, <1>6, <2>1, <2>4, CachedIsKept
  <2> QED BY <1>1, <1>5, <1>6, <2>1, <2>4, <2>5, ReuseRest
<1>7. CASE /\ key \notin DOMAIN cache
           /\ cache' = Plus(cache, key, item.dst) /\ Emit(<<item>>)
  <2>1. src' = Exec(item, src)
    <3>1. <<item>> # <<>> /\ <<item>>[1] = item
      OBVIOUS
    <3> QED BY <1>3, <1>7, <3>1 DEF Emit
  <2>2. out' = src'
    BY <1>2, <1>7, EmitKeepsEqual
  <2> HIDE DEF key
  <2>0. PICK y : y = key
    OBVIOUS
  <2>3. /\ DOMAIN cache' = DOMAIN cache \cup {y}
        /\ cache'[y] = item.dst
        /\ \A k \in DOMAIN cache : k # y => cache'[k] = cache[k]
    BY <2>0, <1>7 DEF Plus
  <2>4. ASSUME NEW k \in DOMAIN cache'
        PROVE  Cached(k)' /\ out'.reg[cache'[k]] = out'.mem[Val(k[1], out')]
    <3>1. CASE k # y
      BY <3>1, <1>1, <1>7, <2>1, <2>2, <2>3, <2>4, CachedIsKept
    <3>2. CASE k = y
      <4>1. /\ items' = items /\ idx' = idx + 1 /\ idx \in 1..(idx' - 1) /\ idx \in Nat
        BY <1>2, <1>7, EmitFrame
      <4>0. y = <<items[idx].srcs[1], items[idx].ty>>
        BY <2>0, <1>2 DEF key
      <4>2. Cached(y)'
        <5>1. idx' - 1 = idx /\ \A n \in idx..idx : n = idx
          BY <4>1
        <5> QED BY <1>1, <1>2, <2>3, <4>0, <4>1, <5>1 DEF Cached
      <4>3. R(item.dst) # item.srcs[1]
        <5>1. idx <= idx /\ \A n \in idx..idx : n = idx
          BY <4>1
        <5> QED BY <1>1, <1>2, <5>1 DEF AdmissibleReuse, At
      <4>4. item.srcs[1] \in Operand
        BY <1>2
      <4>5. /\ src'.reg = NewReg(item, src) /\ src'.mem = NewMem(item, src)
            /\ \A r \in Reg : r # Writes(item) => NewReg(item, src)[r] = src.reg[r]
            /\ NewReg(item, src)[item.dst] = src.mem[Vals(item.srcs, src)[1]]
        BY <1>1, <1>2, <2>1, WritesFacts
      <4>6. Vals(item.srcs, src)[1] = Val(item.srcs[1], src) /\ src'.mem = src.mem
        BY <1>1, <1>2, <4>5 DEF Vals, NewMem
      <4>7. Val(item.srcs[1], src') = Val(item.srcs[1], src)
        <5> DEFINE o == item.srcs[1]
        <5>1. CASE o[1] = "reg"
          <6>1. o[2] \in Reg /\ o = R(o[2])
            BY <5>1, <4>4 DEF Operand, R
          <6>2. o[2] # Writes(item)
            BY <6>1, <4>3, <1>1 DEF Writes
          <6> QED BY <5>1, <6>1, <6>2, <4>5 DEF Val
        <5>2. CASE o[1] # "reg"
          BY <5>2 DEF Val
        <5> QED BY <5>1, <5>2
      <4>8. src'.reg[item.dst] = src'.mem[Val(item.srcs[1], src')]
        BY <4>5, <4>6, <4>7
      <4>9. y[1] = item.srcs[1]
        BY <2>0 DEF key
      <4> QED BY <3>2, <2>2, <2>3, <4>2, <4>8, <4>9
    <3> QED BY <3>1, <3>2
  <2> QED BY <1>1, <1>5, <1>7, <2>1, <2>2, <2>4, ReuseRest
<1> QED BY <1>1, <1>6, <1>7

(* Other instructions drop what was loaded through the register they       *)
(* write.                                                                  *)
LEMMA ReuseOtherStep == IInv /\ AdmissibleReuse(items) /\ ReuseOther => IInv'
<1> SUFFICES ASSUME IInv, AdmissibleReuse(items), ReuseOther PROVE IInv'
  OBVIOUS
<1> DEFINE stale == {k \in DOMAIN cache : k[1] = R(Dest(item))}
<1>1. /\ Running("reuse") /\ ~ ReuseBarrier(item) /\ Emit(<<item>>)
      /\ cache' = Minus(cache, stale)
      /\ UNCHANGED <<exprs, aliases, constants>>
  BY DEF ReuseOther
<1>2. out = src /\ out' = src'
  BY <1>1, ReuseRuns, EmitKeepsEqual DEF ReuseInv
<1>3. Shape(src')
  BY <1>1, <1>2, ReuseRuns, EmitItem
<1>4. src' = Exec(item, src)
  <2>1. <<item>> # <<>> /\ <<item>>[1] = item /\ ~ item.guard /\ item.op # "label"
    BY <1>1 DEF ReuseBarrier
  <2> QED BY <2>1, <1>1 DEF Emit
<1>5. \A k \in DOMAIN cache' :
         k \in DOMAIN cache /\ cache'[k] = cache[k] /\ k[1] # R(Dest(item))
  BY <1>1 DEF Minus
<1>6. \A k \in DOMAIN cache' :
         Cached(k)' /\ out'.reg[cache'[k]] = out'.mem[Val(k[1], out')]
  BY <1>1, <1>2, <1>4, <1>5, CachedIsKept
<1> QED BY <1>1, <1>2, <1>3, <1>6, ReuseRest

-----------------------------------------------------------------------------
(* Aliases.                                                                *)

(* Following a map from r ends where one step leads, if that is an end.    *)
LEMMA ResolveFacts ==
  ASSUME NEW map \in [Reg -> Reg], NEW r \in Reg, map[map[r]] = map[r]
  PROVE  Resolve(r, map) = map[r]
<1> DEFINE N == Cardinality(Reg)
           Body(f) == [n \in 0..N |-> IF n = 0 THEN r ELSE map[f[n - 1]]]
           g == [n \in 0..N |-> IF n = 0 THEN r ELSE map[r]]
           Follow == CHOOSE f : f = Body(f)
<1>1. N \in Nat /\ N # 0
  <2>1. N \in Nat
    BY RegistersAssumption, FS_CardinalityType
  <2>2. N # 0
    BY RegistersAssumption, FS_EmptySet
  <2> QED BY <2>1, <2>2
<1>2. Resolve(r, map) = Follow[N]
  BY Zenon DEF Resolve
<1> HIDE DEF N
<1>3. g = Body(g)
  <2>1. \A n \in 0..N : n # 0 => n - 1 \in 0..N
    BY <1>1
  <2>2. \A n \in 0..N : g[n] = Body(g)[n]
    BY <2>1
  <2>3. g = [n \in 0..N |-> g[n]] /\ Body(g) = [n \in 0..N |-> Body(g)[n]]
    OBVIOUS
  <2> HIDE DEF g, Body
  <2> QED BY <2>2, <2>3
<1>4. Follow = Body(Follow)
  <2> HIDE DEF g, Body
  <2> QED BY <1>3
<1>5. \A n \in 0..N : n # 0 => Follow[n] = map[r]
  <2> DEFINE Bad == {n \in 0..N : n # 0 /\ Follow[n] # map[r]}
  <2>1. \A n \in 0..N : Follow[n] = IF n = 0 THEN r ELSE map[Follow[n - 1]]
    <3> HIDE DEF Follow
    <3> QED BY <1>4
  <2> HIDE DEF Follow
  <2> SUFFICES ASSUME Bad # {} PROVE FALSE
    OBVIOUS
  <2>2. PICK n \in Bad : \A m \in Bad : n <= m
    <3>1. Bad \subseteq Nat
      BY <1>1
    <3> HIDE DEF Bad
    <3> QED BY <3>1, LeastNumber
  <2>3. n \in 0..N /\ n # 0 /\ n - 1 \in 0..N /\ n - 1 \notin Bad /\ n - 1 < n
    BY <2>2, <1>1
  <2>4. Follow[n] = map[Follow[n - 1]]
    BY <2>1, <2>3
  <2>5. Follow[n - 1] \in {r, map[r]}
    BY <2>1, <2>3
  <2> QED BY <2>2, <2>4, <2>5
<1>6. N \in 0..N
  BY <1>1
<1> HIDE DEF Follow
<1> QED BY <1>1, <1>2, <1>5, <1>6

-----------------------------------------------------------------------------
(* Common subexpressions.                                                  *)

(* What the invariant says while this pass runs.                           *)
LEMMA CseRuns ==
  ASSUME IInv, Running("cse")
  PROVE  /\ <<pass, items>> \in Inputs /\ idx \in 1..(Len(items) + 1) /\ idx <= Len(items)
         /\ idx \in At /\ idx \in Nat /\ item = items[idx]
         /\ Shape(src) /\ Shape(out) /\ Same(out, src) /\ CseInv /\ pass = "cse"
         /\ aliases \in [Reg -> Reg] /\ constants = NoConstants /\ cache = NoExprs
         /\ item \in Item /\ item.op \in Op /\ item.srcs \in Seq(Operand)
         /\ item.op \in PureOp \cup {"ld", "fma"} => item.dst \in Reg
         /\ ~ CseBoundary(item) =>
               /\ item.op \in PureOp /\ item.dst \in Reg /\ Dest(item) = item.dst
               /\ ~ item.guard /\ item.op # "label"
         /\ \A n \in 1..(idx - 1) : n \in At /\ n < idx /\ n \in Nat
<1>1. /\ <<pass, items>> \in Inputs /\ idx \in 1..(Len(items) + 1) /\ idx <= Len(items)
      /\ Shape(src) /\ Shape(out) /\ Same(out, src) /\ CseInv /\ pass = "cse"
      /\ aliases \in [Reg -> Reg] /\ constants = NoConstants /\ cache = NoExprs
  BY DEF IInv, Running
<1>2. /\ idx \in At /\ idx \in Nat
      /\ \A n \in 1..(idx - 1) : n \in At /\ n < idx /\ n \in Nat
  BY <1>1, ItemFacts
<1>3. /\ items[idx] \in Item
      /\ items[idx].op \in PureOp \cup {"ld", "fma"} => items[idx].dst \in Reg
  BY <1>1, <1>2, ItemFacts
<1>4. /\ item \in Item /\ item.op \in Op /\ item.srcs \in Seq(Operand)
      /\ item.op \in PureOp \cup {"ld", "fma"} => item.dst \in Reg
  BY <1>3 DEF item, Item
<1>5. ~ CseBoundary(item) =>
               /\ item.op \in PureOp /\ item.dst \in Reg /\ Dest(item) = item.dst
               /\ ~ item.guard /\ item.op # "label"
  BY <1>4 DEF CseBoundary, Dest, PureOp
<1> QED BY <1>1, <1>2, <1>4, <1>5 DEF item

(* What is local to a scope is not read past its ends.                     *)
LEMMA NotReadOutside ==
  ASSUME NEW n \in At, NEW m \in At, NEW k \in At, NEW r, Local(n, r),
         CseBoundary(items[m]), (n <= m /\ m <= k) \/ (k <= m /\ m <= n)
  PROVE  r \notin ReadRegs(items[k])
<1>1. k \notin Scope(n)
  BY DEF Scope, At
<1> QED BY <1>1 DEF Local, OutsideReads, ReadBy, At

(* What the next item reads, it finds under the new names: at the end of a *)
(* scope they are the old ones.                                            *)
LEMMA ReadsAgree ==
  ASSUME IInv, Running("cse"), NEW r \in RegsIn(item.srcs)
  PROVE  /\ r \in Reg /\ r \in ReadRegs(item)
         /\ CseBoundary(item) => out.reg[r] = src.reg[r]
         /\ ~ CseBoundary(item) =>
               /\ Resolve(r, aliases) = aliases[r] /\ aliases[r] \in Reg
               /\ out.reg[aliases[r]] = src.reg[r]
               /\ aliases[r] # r => aliases[r] # item.dst
<1>1. /\ <<pass, items>> \in Inputs /\ idx \in At /\ idx \in Nat /\ item = items[idx]
      /\ aliases \in [Reg -> Reg]
      /\ \A n \in 1..(idx - 1) : n \in At /\ n < idx /\ n \in Nat
      /\ ~ CseBoundary(item) => Dest(item) = item.dst
      /\ \A q \in Reg : Agrees(q) \/ Gone(q) \/ Aliased(q)
  BY CseRuns DEF CseInv
<1>2. r \in Reg /\ r \in ReadRegs(item)
  BY <1>1, ReadRegsFacts
<1>3. ~ Gone(r)
  <2> SUFFICES ASSUME NEW n \in 1..(idx - 1), NEW m \in 1..(idx - 1), n < m,
                      Local(n, r), CseBoundary(items[m])
               PROVE  FALSE
    BY DEF Gone
  <2>1. n \in At /\ m \in At /\ n <= m /\ m <= idx
    BY <1>1
  <2>2. r \notin ReadRegs(items[idx])
    BY <1>1, <2>1, NotReadOutside
  <2> QED BY <1>1, <1>2, <2>2
<1>4. CASE Agrees(r)
  <2>1. aliases[r] = r /\ out.reg[r] = src.reg[r] /\ aliases[aliases[r]] = aliases[r]
    BY <1>4 DEF Agrees
  <2>2. Resolve(r, aliases) = aliases[r]
    BY <1>1, <1>2, <2>1, ResolveFacts
  <2> QED BY <1>2, <2>1, <2>2
<1>5. CASE Aliased(r)
  <2>1. PICK n \in 1..(idx - 1) : Local(n, r)
    BY <1>5 DEF Aliased
  <2>2. ~ CseBoundary(item)
    <3> SUFFICES ASSUME CseBoundary(item) PROVE FALSE
      OBVIOUS
    <3>1. n \in At /\ n <= idx /\ idx <= idx
      BY <1>1
    <3>2. r \notin ReadRegs(items[idx])
      BY <1>1, <2>1, <3>1, NotReadOutside
    <3> QED BY <1>1, <1>2, <3>2
  <2>3. idx <= idx /\ SameScope(idx, idx, items)
    <3>1. idx <= idx /\ \A m \in idx..idx : m = idx
      BY <1>1
    <3> QED BY <1>1, <2>2, <3>1 DEF SameScope
  <2>4. Represented(r, aliases[r])
    BY <1>1, <1>2, <1>5, <2>3 DEF Aliased, Unread
  <2>5. /\ aliases[aliases[r]] = aliases[r] /\ aliases[r] \in Reg
        /\ out.reg[aliases[r]] = src.reg[r]
    BY <1>1, <1>2, <2>4 DEF Represented
  <2>6. aliases[r] # item.dst
    BY <1>1, <1>2, <2>2, <2>3, <2>4 DEF Represented
  <2>7. Resolve(r, aliases) = aliases[r]
    BY <1>1, <1>2, <2>5, ResolveFacts
  <2> QED BY <1>2, <2>2, <2>5, <2>6, <2>7
<1> QED BY <1>1, <1>2, <1>3, <1>4, <1>5

(* So the item with its operands renamed does in the one lane what the     *)
(* item does in the other.                                                 *)
LEMMA RenamedFacts ==
  ASSUME IInv, Running("cse"), ~ CseBoundary(item),
         NEW e, e = [item EXCEPT !.srcs = Rename(item.srcs)]
  PROVE  /\ e.op = item.op /\ e.ty = item.ty /\ e.dst = item.dst
         /\ e.srcs \in Seq(Operand)
         /\ Vals(e.srcs, out) = Vals(item.srcs, src)
         /\ item.dst \notin RegsIn(item.srcs) => item.dst \notin RegsIn(e.srcs)
<1>1. item \in Item /\ item.srcs \in Seq(Operand) /\ item.dst \in Reg
  BY CseRuns
<1>2. /\ e.op = item.op /\ e.ty = item.ty /\ e.dst = item.dst
      /\ e.srcs = Rename(item.srcs)
  BY <1>1 DEF Item
<1>3. ASSUME NEW k \in DOMAIN item.srcs
      PROVE  /\ Rename(item.srcs)[k] \in Operand
             /\ Val(Rename(item.srcs)[k], out) = Val(item.srcs[k], src)
             /\ Rename(item.srcs)[k][1] = "reg" =>
                   \/ Rename(item.srcs)[k][2] # item.dst
                   \/ /\ item.srcs[k][1] = "reg"
                      /\ Rename(item.srcs)[k][2] = item.srcs[k][2]
  <2> DEFINE o == item.srcs[k]
  <2>0. o \in Operand
    BY <1>1
  <2>1. CASE o[1] = "reg"
    <3>1. o[2] \in RegsIn(item.srcs)
      BY <2>1 DEF RegsIn
    <3>2. /\ Resolve(o[2], aliases) = aliases[o[2]] /\ aliases[o[2]] \in Reg
          /\ out.reg[aliases[o[2]]] = src.reg[o[2]]
          /\ aliases[o[2]] # o[2] => aliases[o[2]] # item.dst
      BY <3>1, ReadsAgree
    <3>3. Rename(item.srcs)[k] = R(aliases[o[2]])
      BY <2>1, <3>2 DEF Rename
    <3>4. R(aliases[o[2]]) \in Operand
      BY <3>2 DEF R, Operand
    <3>5. Val(R(aliases[o[2]]), out) = src.reg[o[2]] /\ Val(o, src) = src.reg[o[2]]
      BY <2>1, <3>2 DEF Val, R
    <3>6. R(aliases[o[2]])[2] = aliases[o[2]]
      BY DEF R
    <3> HIDE DEF o
    <3> QED BY <2>1, <3>2, <3>3, <3>4, <3>5, <3>6 DEF o
  <2>2. CASE o[1] # "reg"
    <3>1. Rename(item.srcs)[k] = o
      BY <2>2 DEF Rename
    <3>2. Val(o, out) = Val(o, src)
      BY <2>2 DEF Val
    <3> QED BY <2>0, <2>2, <3>1, <3>2
  <2> QED BY <2>1, <2>2
<1>4. DOMAIN Rename(item.srcs) = DOMAIN item.srcs
  BY DEF Rename
<1>5. Rename(item.srcs) \in Seq(Operand)
  <2>1. item.srcs \in [1..Len(item.srcs) -> Operand] /\ Len(item.srcs) \in Nat
    BY <1>1
  <2>2. Rename(item.srcs) = [k \in 1..Len(item.srcs) |-> Rename(item.srcs)[k]]
    BY <2>1 DEF Rename
  <2> QED BY SMTT(60), <1>3, <2>1, <2>2
<1>6. Vals(Rename(item.srcs), out) = Vals(item.srcs, src)
  BY <1>3, <1>4 DEF Vals
<1>7. item.dst \notin RegsIn(item.srcs) => item.dst \notin RegsIn(Rename(item.srcs))
  BY <1>3, <1>4 DEF RegsIn
<1> QED BY <1>2, <1>5, <1>6, <1>7

(* With CseInv for the next item, the rest of the invariant follows.       *)
LEMMA CseRest ==
  ASSUME IInv, Running("cse"), NEW e, Emit(e),
         Shape(src'), Shape(out'), Same(out', src'),
         UNCHANGED <<constants, cache>>, aliases' \in [Reg -> Reg], CseInv'
  PROVE  IInv'
<1>1. /\ <<pass', items'>> \in Inputs /\ pass' = pass
      /\ idx' \in 1..(Len(items') + 1)
  BY CseRuns, EmitFrame
<1>2. /\ pass = "cse" /\ constants = NoConstants /\ cache = NoExprs
  BY CseRuns
<1> QED BY <1>1, <1>2 DEF IInv, NoAliases, NoExprs, NoConstants, Same, Shape

(* Between scopes nothing is known, and what was removed is gone.          *)
LEMMA CseScopeEndsStep == IInv /\ CseScopeEnds => IInv'
<1> SUFFICES ASSUME IInv, CseScopeEnds PROVE IInv'
  OBVIOUS
<1>1. /\ Running("cse") /\ CseBoundary(item) /\ exprs' = NoExprs /\ aliases' = NoAliases
      /\ Emit(<<item>>) /\ UNCHANGED <<constants, cache>>
  BY DEF CseScopeEnds
<1>2. /\ <<pass, items>> \in Inputs /\ idx \in 1..(Len(items) + 1) /\ idx <= Len(items)
      /\ idx \in At /\ idx \in Nat /\ item = items[idx] /\ Shape(src) /\ Shape(out)
      /\ Same(out, src) /\ \A r \in Reg : Agrees(r) \/ Gone(r) \/ Aliased(r)
      /\ \A n \in 1..(idx - 1) : n \in At /\ n < idx
  BY <1>1, CseRuns DEF CseInv
<1>3. /\ items' = items /\ idx' = idx + 1 /\ idx \in 1..(idx' - 1)
      /\ \A n \in 1..(idx - 1) : n \in 1..(idx' - 1)
  BY <1>1, <1>2, EmitFrame
<1>4. \A r \in RegsIn(item.srcs) : out.reg[r] = src.reg[r]
  BY <1>1, ReadsAgree
<1>5. /\ Shape(src') /\ Shape(out') /\ Same(out', src')
      /\ \A r \in Reg : \/ out'.reg[r] = src'.reg[r]
                        \/ out'.reg[r] = out.reg[r] /\ src'.reg[r] = src.reg[r]
  BY <1>1, <1>2, <1>4, EmitItem
<1>6. aliases' \in [Reg -> Reg] /\ \A r \in Reg : aliases'[r] = r
  BY <1>1 DEF NoAliases
<1>7. ASSUME NEW n, NEW r PROVE Local(n, r)' <=> Local(n, r)
  BY <1>3 DEF Local, OutsideReads, ReadBy, Scope
<1>8. ASSUME NEW r \in Reg PROVE Agrees(r)' \/ Gone(r)'
  <2>1. CASE out'.reg[r] = src'.reg[r]
    BY <2>1, <1>6 DEF Agrees
  <2>2. CASE out.reg[r] = src.reg[r] /\ out'.reg[r] = out.reg[r] /\ src'.reg[r] = src.reg[r]
    BY <2>2, <1>6 DEF Agrees
  <2>3. CASE Gone(r)
    <3>1. PICK n, m \in 1..(idx - 1) : n < m /\ Local(n, r) /\ CseBoundary(items[m])
      BY <2>3 DEF Gone
    <3> QED BY <3>1, <1>3, <1>6, <1>7 DEF Gone
  <2>4. CASE Aliased(r)
    <3>1. PICK n \in 1..(idx - 1) : Local(n, r)
      BY <2>4 DEF Aliased
    <3>2. n < idx /\ n \in 1..(idx' - 1)
      BY <1>2, <1>3, <3>1
    <3> QED BY <1>1, <1>2, <1>3, <1>6, <1>7, <3>1, <3>2 DEF Gone
  <2> QED BY <1>2, <1>5, <2>1, <2>2, <2>3, <2>4 DEF Agrees
<1>9. CseInv'
  <2>1. DOMAIN exprs' = {}
    BY <1>1 DEF NoExprs
  <2> QED BY <1>8, <2>1 DEF CseInv
<1> QED BY <1>1, <1>5, <1>6, <1>9, CseRest

(* In a scope that goes on, what is read later is read from here on.       *)
LEMMA ScopeGoesOn ==
  ASSUME IInv, Running("cse"), ~ CseBoundary(item), NEW k \in At,
         SameScope(idx + 1, k, items)
  PROVE  SameScope(idx, k, items)
<1>1. idx \in Nat /\ item = items[idx] /\ At \subseteq Nat
  BY CseRuns, ItemFacts
<1>2. \A n \in idx..k : n = idx \/ n \in (idx + 1)..k
  BY <1>1
<1> QED BY <1>1, <1>2 DEF SameScope

(* A register that the instruction does not define stays in its condition: *)
(* if it stands for the one that is, it is not read again.                 *)
LEMMA OthersStand ==
  ASSUME IInv, Running("cse"), ~ CseBoundary(item), NEW e, Emit(e),
         \A q \in Reg : q # item.dst =>
             /\ aliases'[q] = aliases[q]
             /\ out'.reg[q] = out.reg[q] /\ src'.reg[q] = src.reg[q],
         NEW r \in Reg, r # item.dst
  PROVE  (Agrees(r) \/ Gone(r) \/ Aliased(r))'
<1>1. /\ <<pass, items>> \in Inputs /\ idx \in 1..(Len(items) + 1) /\ idx <= Len(items)
      /\ idx \in At /\ idx \in Nat /\ item = items[idx] /\ aliases \in [Reg -> Reg]
      /\ item.dst \in Reg /\ Dest(item) = item.dst
      /\ Agrees(r) \/ Gone(r) \/ Aliased(r)
  BY CseRuns DEF CseInv
<1>2. /\ items' = items /\ At' = At /\ idx' = idx + 1
      /\ \A n \in 1..(idx - 1) : n \in 1..(idx' - 1)
  BY <1>1, EmitFrame
<1>3. ASSUME NEW n PROVE Local(n, r)' <=> Local(n, r)
  BY <1>2 DEF Local, OutsideReads, ReadBy, Scope
<1>4. /\ aliases'[r] = aliases[r]
      /\ out'.reg[r] = out.reg[r] /\ src'.reg[r] = src.reg[r]
  OBVIOUS
<1>5. CASE Agrees(r)
  BY <1>4, <1>5 DEF Agrees
<1>6. CASE Gone(r)
  BY <1>2, <1>3, <1>4, <1>6 DEF Gone
<1>7. CASE Aliased(r)
  <2>1. PICK n \in 1..(idx - 1) : Local(n, r)
    BY <1>7 DEF Aliased
  <2>2. \E m \in 1..(idx' - 1) : Local(m, r)'
    BY <1>2, <1>3, <2>1
  <2>3. ASSUME NEW k \in At, idx + 1 <= k, SameScope(idx + 1, k, items)
        PROVE  idx <= k /\ SameScope(idx, k, items)
    <3>1. idx <= k
      BY <1>1, <2>3, ItemFacts
    <3> QED BY <2>3, <3>1, ScopeGoesOn
  <2>4. CASE Unread(r)
    <3>1. Unread(r)'
      BY <1>2, <2>3, <2>4 DEF Unread
    <3> QED BY <2>2, <3>1 DEF Aliased
  <2>5. CASE Represented(r, aliases[r]) /\ aliases[r] # item.dst
    <3>1. aliases'[aliases'[r]] = aliases'[r] /\ out'.reg[aliases'[r]] = src'.reg[r]
      BY <1>1, <1>4, <2>5 DEF Represented
    <3>2. ASSUME NEW j \in At, NEW k \in At, idx + 1 <= j, j <= k,
                 SameScope(idx + 1, k, items), Dest(items[j]) = aliases[r]
          PROVE  r \notin ReadRegs(items[k])
      <4>1. idx <= j /\ idx + 1 <= k
        BY <1>1, <3>2, ItemFacts
      <4> QED BY <2>3, <2>5, <3>2, <4>1 DEF Represented
    <3>3. Represented(r, aliases[r])'
      BY <1>2, <1>4, <3>1, <3>2 DEF Represented
    <3> QED BY <2>2, <3>3 DEF Aliased
  <2>6. CASE Represented(r, aliases[r]) /\ aliases[r] = item.dst
    <3>1. ASSUME NEW k \in At, idx + 1 <= k, SameScope(idx + 1, k, items)
          PROVE  r \notin ReadRegs(items[k])
      <4>1. idx <= idx /\ idx <= k /\ SameScope(idx, k, items)
        BY <1>1, <2>3, <3>1
      <4> QED BY <1>1, <2>6, <4>1 DEF Represented
    <3>2. Unread(r)'
      BY <1>2, <3>1 DEF Unread
    <3> QED BY <2>2, <3>2 DEF Aliased
  <2> QED BY <1>7, <2>4, <2>5, <2>6 DEF Aliased
<1> QED BY <1>1, <1>5, <1>6, <1>7

(* What is listed without the register that is defined is still true.      *)
LEMMA ExprsStand ==
  ASSUME IInv, Running("cse"), ~ CseBoundary(item),
         \A q \in Reg : q # item.dst =>
             aliases'[q] = aliases[q] /\ out'.reg[q] = out.reg[q],
         NEW k \in DOMAIN Minus(exprs, StaleExprs(item.dst)),
         k \in DOMAIN exprs', exprs'[k] = Minus(exprs, StaleExprs(item.dst))[k]
  PROVE  Listed(k)'
<1>1. k \in DOMAIN exprs /\ k \notin StaleExprs(item.dst) /\ exprs'[k] = exprs[k]
  BY DEF Minus
<1>2. exprs[k] # item.dst /\ item.dst \notin RegsIn(k[3])
  BY <1>1 DEF StaleExprs
<1>3. Listed(k)
  BY <1>1, CseRuns DEF CseInv
<1>4. \A r \in RegsIn(k[3]) : out'.reg[r] = out.reg[r]
  <2>1. ASSUME NEW r \in RegsIn(k[3]) PROVE r \in Reg
    <3>1. PICK n \in DOMAIN k[3] : k[3][n][1] = "reg" /\ k[3][n][2] = r
      BY DEF RegsIn
    <3>2. k[3][n] \in Operand
      BY <1>3 DEF Listed
    <3> QED BY <3>1, <3>2 DEF Operand
  <2> QED BY <1>2, <2>1
<1>5. Vals(k[3], out') = Vals(k[3], out)
  BY <1>3, <1>4, SameVals DEF Listed
<1> QED BY <1>1, <1>2, <1>3, <1>5 DEF Listed

(* An instruction that is kept gives its register the same value in both   *)
(* lanes.                                                                  *)
LEMMA CseKeeps ==
  ASSUME IInv, Running("cse"), ~ CseBoundary(item),
         NEW e, e = [item EXCEPT !.srcs = Rename(item.srcs)], Emit(<<e>>)
  PROVE  /\ Shape(src') /\ Shape(out') /\ Same(out', src')
         /\ src'.reg[item.dst] = out'.reg[item.dst]
         /\ out'.reg[item.dst] = Result(e.op, e.ty, Vals(e.srcs, out))
         /\ \A q \in Reg : q # item.dst => /\ out'.reg[q] = out.reg[q]
                                           /\ src'.reg[q] = src.reg[q]
<1>1. /\ item.op \in PureOp /\ item.dst \in Reg /\ ~ item.guard /\ item.op # "label"
      /\ Shape(src) /\ Shape(out) /\ Same(out, src)
  BY CseRuns
<1>2. src' = Exec(item, src) /\ out' = Exec(e, out)
  <2>1. <<e>> # <<>> /\ <<e>>[1] = e
    OBVIOUS
  <2> QED BY <1>1, <2>1 DEF Emit
<1>3. /\ e.op = item.op /\ e.ty = item.ty /\ e.dst = item.dst
      /\ Vals(e.srcs, out) = Vals(item.srcs, src)
  BY RenamedFacts
<1> DEFINE x == Result(e.op, e.ty, Vals(e.srcs, out))
<1>4. src' = SetReg(src, item.dst, x)
  BY <1>1, <1>2, <1>3, PureExec
<1>5. out' = SetReg(out, item.dst, x)
  BY <1>1, <1>2, <1>3, PureExec
<1> HIDE DEF x
<1>6. ASSUME NEW s, Shape(s)
      PROVE  /\ Shape(SetReg(s, item.dst, x)) /\ Same(SetReg(s, item.dst, x), s)
             /\ SetReg(s, item.dst, x).reg[item.dst] = x
             /\ \A q \in Reg : q # item.dst => SetReg(s, item.dst, x).reg[q] = s.reg[q]
  BY <1>1, <1>6 DEF SetReg, Shape, Same
<1>7. Same(out', src')
  BY <1>1, <1>4, <1>5, <1>6 DEF Same
<1>8. out'.reg[item.dst] = x /\ src'.reg[item.dst] = x
  BY <1>1, <1>4, <1>5, <1>6
<1> QED BY <1>1, <1>4, <1>5, <1>6, <1>7, <1>8 DEF x

(* An expression that is listed is not computed again: the register that   *)
(* has its value stands for the one that would have got it.                *)
LEMMA CseRemoves ==
  ASSUME IInv, Running("cse"), ~ CseBoundary(item),
         NEW e, e = [item EXCEPT !.srcs = Rename(item.srcs)],
         NEW key \in DOMAIN exprs, key = Key(e), exprs[key] # item.dst, Emit(<<>>)
  PROVE  /\ out' = out /\ Shape(src') /\ Same(out', src')
         /\ src'.reg[item.dst] = out.reg[exprs[key]]
         /\ \A q \in Reg : q # item.dst => src'.reg[q] = src.reg[q]
<1>1. /\ item.op \in PureOp /\ item.dst \in Reg /\ ~ item.guard /\ item.op # "label"
      /\ Shape(src) /\ Same(out, src)
  BY CseRuns
<1>2. src' = Exec(item, src) /\ out' = out
  BY <1>1 DEF Emit
<1>3. /\ e.op = item.op /\ e.ty = item.ty
      /\ Vals(e.srcs, out) = Vals(item.srcs, src)
  BY RenamedFacts
<1>4. out.reg[exprs[key]] = Result(item.op, item.ty, Vals(item.srcs, src))
  <2>1. Listed(key)
    BY CseRuns DEF CseInv
  <2>2. key[1] = e.op /\ key[2] = e.ty /\ key[3] = e.srcs
    BY DEF Key
  <2> QED BY <1>3, <2>1, <2>2 DEF Listed
<1>5. src' = SetReg(src, item.dst, out.reg[exprs[key]])
  BY <1>1, <1>2, <1>4, PureExec
<1> QED BY <1>1, <1>2, <1>5 DEF SetReg, Shape, Same

(* What stands for a register has its value until the last read of it.     *)
LEMMA AliasStands ==
  ASSUME IInv, Running("cse"), ~ CseBoundary(item),
         NEW d, d = item.dst, NEW t \in Reg, ~ AliasReadAfter(d, t),
         NEW e, Emit(e), aliases'[t] = t, out'.reg[t] = src'.reg[d]
  PROVE  Represented(d, t)'
<1>1. /\ idx \in At /\ idx \in Nat /\ At \subseteq Nat
      /\ items' = items /\ At' = At /\ idx' = idx + 1
  BY CseRuns, ItemFacts, EmitFrame
<1>2. ASSUME NEW j \in At, NEW k \in At, idx + 1 <= j, j <= k,
             SameScope(idx + 1, k, items), Dest(items[j]) = t
      PROVE  d \notin ReadRegs(items[k])
  <2>1. SameScope(idx, k, items)
    BY <1>2, ScopeGoesOn
  <2>2. j \in Nat /\ k \in Nat /\ idx < j
    BY <1>1, <1>2
  <2>3. j \in Scope(idx)
    <3>1. ASSUME NEW n \in At, (j <= n /\ n <= idx) \/ (idx <= n /\ n <= j)
          PROVE  ~ CseBoundary(items[n])
      <4>1. n \in idx..k
        BY <1>1, <1>2, <2>2, <3>1
      <4> QED BY <2>1, <4>1 DEF SameScope
    <3> QED BY <3>1 DEF Scope, At
  <2>4. k \in Scope(idx)
    <3>1. ASSUME NEW n \in At, (k <= n /\ n <= idx) \/ (idx <= n /\ n <= k)
          PROVE  ~ CseBoundary(items[n])
      <4>1. n \in idx..k
        BY <1>1, <1>2, <2>2, <3>1
      <4> QED BY <2>1, <4>1 DEF SameScope
    <3> QED BY <3>1 DEF Scope, At
  <2> QED BY <1>2, <2>2, <2>3, <2>4 DEF AliasReadAfter
<1> QED BY <1>1, <1>2 DEF Represented

(* An instruction is kept, with its expression listed or not, or it is     *)
(* removed.                                                                *)
LEMMA CseInstructionStep == IInv /\ AdmissibleCse(items) /\ CseInstruction => IInv'
<1> SUFFICES ASSUME IInv, AdmissibleCse(items), CseInstruction PROVE IInv'
  OBVIOUS
<1>1. PICK e : e = [item EXCEPT !.srcs = Rename(item.srcs)]
  OBVIOUS
<1>2. PICK key : key = Key(e)
  OBVIOUS
<1>3. PICK fresh : fresh = Minus(exprs, StaleExprs(item.dst))
  OBVIOUS
<1>4. PICK own : own = [aliases EXCEPT ![item.dst] = item.dst]
  OBVIOUS
<1>5. PICK d : d = item.dst
  OBVIOUS
<1>6. /\ Running("cse") /\ ~ CseBoundary(item) /\ UNCHANGED <<constants, cache>>
      /\ \/ exprs' = fresh /\ aliases' = own /\ Emit(<<e>>)
         \/ exprs' = Plus(fresh, key, d) /\ aliases' = own /\ Emit(<<e>>)
         \/ /\ d \notin OutsideReads(idx)
            /\ key \in DOMAIN fresh
            /\ ~ AliasReadAfter(d, Resolve(fresh[key], own))
            /\ exprs' = fresh
            /\ aliases' = [own EXCEPT ![d] = Resolve(fresh[key], own)]
            /\ Emit(<<>>)
  BY <1>1, <1>2, <1>3, <1>4, <1>5 DEF CseInstruction
<1>7. /\ <<pass, items>> \in Inputs /\ idx \in At /\ item = items[idx]
      /\ aliases \in [Reg -> Reg] /\ d \in Reg /\ Shape(out)
      /\ \A k \in DOMAIN exprs : Listed(k)
  BY <1>5, <1>6, CseRuns DEF CseInv
<1>8. own \in [Reg -> Reg] /\ own[d] = d /\ \A q \in Reg : q # d => own[q] = aliases[q]
  BY <1>4, <1>5, <1>7
<1>9. /\ DOMAIN fresh \subseteq DOMAIN exprs
      /\ \A k \in DOMAIN fresh : fresh[k] = exprs[k] /\ exprs[k] # d
  BY <1>3, <1>5 DEF Minus, StaleExprs
<1>10. /\ e.op = item.op /\ e.ty = item.ty /\ e.srcs \in Seq(Operand)
       /\ d \notin RegsIn(e.srcs)
  <2>1. d \notin ReadRegs(items[idx])
    BY <1>5, <1>6, <1>7 DEF AdmissibleCse, At
  <2>2. d \notin RegsIn(item.srcs)
    BY <1>7, <2>1 DEF ReadRegs
  <2> QED BY <1>1, <1>5, <1>6, <2>2, RenamedFacts
<1>11. key[1] = e.op /\ key[2] = e.ty /\ key[3] = e.srcs
  BY <1>2 DEF Key
<1>12. CASE aliases' = own /\ Emit(<<e>>) /\ exprs' \in {fresh, Plus(fresh, key, d)}
  <2>1. /\ Shape(src') /\ Shape(out') /\ Same(out', src')
        /\ src'.reg[d] = out'.reg[d]
        /\ out'.reg[d] = Result(e.op, e.ty, Vals(e.srcs, out))
        /\ \A q \in Reg : q # d => /\ out'.reg[q] = out.reg[q]
                                   /\ src'.reg[q] = src.reg[q]
    BY <1>1, <1>5, <1>6, <1>12, CseKeeps
  <2>2. ASSUME NEW r \in Reg PROVE (Agrees(r) \/ Gone(r) \/ Aliased(r))'
    <3>1. CASE r = d
      BY <1>8, <1>12, <2>1, <3>1 DEF Agrees
    <3>2. CASE r # d
      BY <1>5, <1>6, <1>8, <1>12, <2>1, <3>2, OthersStand
    <3> QED BY <3>1, <3>2
  <2>3. ASSUME NEW k \in DOMAIN fresh, k \in DOMAIN exprs', exprs'[k] = fresh[k]
        PROVE  Listed(k)'
    BY <1>3, <1>5, <1>6, <1>8, <1>12, <2>1, <2>3, ExprsStand
  <2>4. Vals(e.srcs, out') = Vals(e.srcs, out)
    <3>1. \A r \in RegsIn(e.srcs) : r \in Reg
      <4> SUFFICES ASSUME NEW n \in DOMAIN e.srcs, e.srcs[n][1] = "reg"
                   PROVE  e.srcs[n][2] \in Reg
        BY DEF RegsIn
      <4>1. e.srcs[n] \in Operand
        BY <1>10
      <4> QED BY <4>1 DEF Operand
    <3>2. \A r \in RegsIn(e.srcs) : out'.reg[r] = out.reg[r]
      BY <1>10, <2>1, <3>1
    <3> QED BY <1>10, <3>2, SameVals
  <2>5. ASSUME exprs' = Plus(fresh, key, d) PROVE Listed(key)'
    <3>1. exprs'[key] = d
      BY <2>5 DEF Plus
    <3> QED BY <1>7, <1>8, <1>10, <1>11, <1>12, <2>1, <2>4, <3>1 DEF Listed
  <2>6. \A k \in DOMAIN exprs' : Listed(k)'
    <3>1. CASE exprs' = fresh
      BY <2>3, <3>1
    <3>2. CASE exprs' = Plus(fresh, key, d)
      <4>1. \A k \in DOMAIN exprs' :
               k = key \/ (k \in DOMAIN fresh /\ exprs'[k] = fresh[k])
        BY <3>2 DEF Plus
      <4> QED BY <2>3, <2>5, <3>2, <4>1
    <3> QED BY <1>12, <3>1, <3>2
  <2>7. CseInv'
    BY <2>2, <2>6 DEF CseInv
  <2> QED BY <1>6, <1>8, <1>12, <2>1, <2>7, CseRest
<1>13. CASE /\ d \notin OutsideReads(idx)
            /\ key \in DOMAIN fresh
            /\ ~ AliasReadAfter(d, Resolve(fresh[key], own))
            /\ exprs' = fresh
            /\ aliases' = [own EXCEPT ![d] = Resolve(fresh[key], own)]
            /\ Emit(<<>>)
  <2>1. PICK t : t = exprs[key]
    OBVIOUS
  <2>2. key \in DOMAIN exprs /\ fresh[key] = t /\ t # d /\ t \in Reg /\ aliases[t] = t
    BY <1>7, <1>9, <1>13, <2>1 DEF Listed
  <2>3. own[t] = t
    BY <1>8, <2>2
  <2>4. Resolve(fresh[key], own) = t
    BY <1>8, <2>2, <2>3, ResolveFacts
  <2>5. /\ ~ AliasReadAfter(d, t)
        /\ aliases' \in [Reg -> Reg] /\ aliases'[d] = t
        /\ \A q \in Reg : q # d => aliases'[q] = aliases[q]
    BY <1>7, <1>8, <1>13, <2>2, <2>4
  <2>6. /\ out' = out /\ Shape(src') /\ Same(out', src')
        /\ src'.reg[d] = out.reg[t]
        /\ \A q \in Reg : q # d => src'.reg[q] = src.reg[q]
    BY <1>1, <1>2, <1>5, <1>6, <1>13, <2>1, <2>2, CseRemoves
  <2>7. Represented(d, t)'
    BY <1>5, <1>6, <1>13, <2>2, <2>5, <2>6, AliasStands
  <2>8. \E n \in 1..(idx' - 1) : Local(n, d)'
    <3>1. PICK n : n = idx
      OBVIOUS
    <3>2. items' = items /\ n \in 1..(idx' - 1)
      BY <1>6, <1>13, <3>1, CseRuns, EmitFrame
    <3>3. Local(n, d)
      BY <1>5, <1>6, <1>7, <1>13, <3>1 DEF Local
    <3>4. Local(n, d)'
      BY <3>2, <3>3 DEF Local, OutsideReads, ReadBy, Scope
    <3> QED BY <3>2, <3>4
  <2>9. ASSUME NEW r \in Reg PROVE (Agrees(r) \/ Gone(r) \/ Aliased(r))'
    <3>1. CASE r = d
      BY <2>5, <2>7, <2>8, <3>1 DEF Aliased
    <3>2. CASE r # d
      BY <1>5, <1>6, <1>13, <2>5, <2>6, <3>2, OthersStand
    <3> QED BY <3>1, <3>2
  <2>10. \A k \in DOMAIN exprs' : Listed(k)'
    BY <1>3, <1>5, <1>6, <1>13, <2>5, <2>6, ExprsStand
  <2>11. CseInv'
    BY <2>9, <2>10 DEF CseInv
  <2> QED BY <1>6, <1>7, <1>13, <2>5, <2>6, <2>11, CseRest
<1> QED BY <1>6, <1>12, <1>13

-----------------------------------------------------------------------------
(* The invariant, and what follows from it.                                *)

(* Nothing is known, and the lanes are in one state.                       *)
LEMMA InitIInv == Init => IInv
<1> SUFFICES ASSUME Init PROVE IInv
  OBVIOUS
<1>1. PICK p \in Inputs : pass = p[1] /\ items = p[2]
  BY DEF Init
<1>2. /\ idx = 1 /\ exprs = NoExprs /\ aliases = NoAliases /\ constants = NoConstants
      /\ cache = NoExprs /\ src \in Starts /\ out = src
  BY DEF Init
<1>3. <<pass, items>> \in Inputs
  <2>1. p[1] \in {"dre", "cse", "fold", "reuse"} /\ p = <<p[1], p[2]>>
    BY <1>1, InputsAssumption
  <2> QED BY <1>1, <2>1
<1>4. idx \in 1..(Len(items) + 1)
  BY <1>2, <1>3, ItemFacts
<1>5. Shape(src)
  <2>1. src \in State
    BY <1>2, StartsAssumption
  <2> QED BY <2>1 DEF State, Shape
<1>6. aliases \in [Reg -> Reg] /\ \A r \in Reg : Agrees(r)
  BY <1>2 DEF NoAliases, Agrees
<1>7. DOMAIN exprs = {} /\ DOMAIN cache = {}
  BY <1>2 DEF NoExprs
<1>8. CseInv
  BY <1>6, <1>7 DEF CseInv
<1>9. ReuseInv
  BY <1>2, <1>7 DEF ReuseInv
<1>10. FoldInv
  BY <1>2 DEF FoldInv, NoConstants, HoldsIn
<1>11. DreInv
  BY <1>2 DEF DreInv
<1> QED BY <1>2, <1>3, <1>4, <1>5, <1>6, <1>8, <1>9, <1>10, <1>11 DEF IInv, Same

(* In every kernel that a pass has in view, what it has written down, what *)
(* it removed and the two lanes are as IInv says, after any number of      *)
(* items (local_scalar.py 33-172, experimental.py 25-112).                 *)
THEOREM Invariant ==
    Spec => [](<<pass, items>> \in Inputs /\ (Admissible(pass, items) => IInv))
<1> DEFINE V == <<pass, items>> \in Inputs /\ (Admissible(pass, items) => IInv)
<1>1. Init => V
  BY InitIInv DEF IInv
<1>2. V /\ [Next]_vars => V'
  <2> SUFFICES ASSUME V, [Next]_vars PROVE V'
    BY SMTT(60)
  <2>1. pass' = pass /\ items' = items
    BY DEF Next, DeadResult, CseScopeEnds, CseInstruction, FoldBlockEnds, FoldInstruction,
           ReuseForgets, ReuseLoad, ReuseOther, Emit, vars
  <2>2. ASSUME Admissible(pass, items) PROVE IInv'
    <3>1. IInv
      BY <2>2
    <3> HIDE DEF V
    <3>2. CASE UNCHANGED vars
      BY <3>1, <3>2 DEF vars, IInv, Same, Shape, DreInv, FoldInv, HoldsIn, ReuseInv,
         Cached, CseInv, Agrees, Gone, Aliased, Represented, Unread, Local, Listed,
         OutsideReads, ReadBy, Scope, At
    <3>3. CASE DeadResult \/ FoldBlockEnds \/ FoldInstruction
      BY <3>1, <3>3, DeadResultStep, FoldBlockEndsStep, FoldInstructionStep
    <3>4. CASE CseScopeEnds \/ CseInstruction
      <4>1. AdmissibleCse(items)
        <5>1. pass = "cse"
          BY <3>4 DEF CseScopeEnds, CseInstruction, Running
        <5> QED BY <2>2, <5>1 DEF Admissible
      <4> QED BY <3>1, <3>4, <4>1, CseScopeEndsStep, CseInstructionStep
    <3>5. CASE ReuseForgets \/ ReuseLoad \/ ReuseOther
      <4>1. AdmissibleReuse(items)
        <5>1. pass = "reuse"
          BY <3>5 DEF ReuseForgets, ReuseLoad, ReuseOther, Running
        <5> QED BY <2>2, <5>1 DEF Admissible
      <4> QED BY <3>1, <3>5, <4>1, ReuseForgetsStep, ReuseLoadStep, ReuseOtherStep
    <3> QED BY <3>2, <3>3, <3>4, <3>5 DEF Next
  <2> QED BY <2>1, <2>2
<1> QED BY <1>1, <1>2, PTL DEF Spec

(* Stores and compares see the same values in the same order, and memory   *)
(* is the same (local_scalar.py 33-172, experimental.py 25-112).           *)
THEOREM SameEffectsHolds == Spec => [](Admissible(pass, items) => SameEffects)
<1>1. IInv => SameEffects
  BY DEF IInv, Same, SameEffects
<1> QED BY <1>1, Invariant, PTL

(* The next instruction reads, under the names the pass gives its          *)
(* operands, the values that it read before the pass (local_scalar.py      *)
(* 227-260, experimental.py 48-98).                                        *)
THEOREM ReadsSameValuesHolds == Spec => [](Admissible(pass, items) => ReadsSameValues)
<1>1. IInv => ReadsSameValues
  <2> SUFFICES ASSUME IInv, idx <= Len(items), NEW r \in RegsIn(item.srcs)
               PROVE  out.reg[IF CseBoundary(item) THEN r ELSE Resolve(r, aliases)]
                        = src.reg[r]
    BY DEF ReadsSameValues
  <2>1. <<pass, items>> \in Inputs /\ idx \in At
    BY ItemFacts DEF IInv
  <2>2. CASE pass = "cse"
    BY <2>2, ReadsAgree DEF Running
  <2>3. CASE pass # "cse"
    <3>1. r \in ReadBy(At) /\ r \in Reg
      BY <2>1, ReadRegsFacts DEF item, ReadBy
    <3>2. out.reg[r] = src.reg[r]
      BY <2>1, <2>3, <3>1, ItemFacts DEF IInv, DreInv, FoldInv, ReuseInv
    <3>3. aliases \in [Reg -> Reg] /\ aliases[r] = r
      BY <2>3, <3>1 DEF IInv, NoAliases
    <3>4. Resolve(r, aliases) = r
      BY <3>1, <3>3, ResolveFacts
    <3> QED BY <3>2, <3>4
  <2> QED BY <2>2, <2>3
<1> QED BY <1>1, Invariant, PTL

(* A constant is the value of its register, a listed expression that of    *)
(* the register listed for it, and a cached load that of memory at its     *)
(* address (local_scalar.py 149-153, 240-257, experimental.py 79-96).      *)
THEOREM FactsHoldHolds == Spec => [](Admissible(pass, items) => FactsHold)
<1>1. IInv => FactsHold
  <2> SUFFICES ASSUME IInv PROVE FactsHold
    OBVIOUS
  <2>1. \A r \in Reg : constants[r] # <<>> => out.reg[r] = constants[r][2]
    BY DEF IInv, FoldInv, HoldsIn, NoConstants
  <2>2. \A k \in DOMAIN exprs :
           out.reg[exprs[k]] = Result(k[1], k[2], Vals(k[3], out))
    <3>1. exprs = NoExprs => DOMAIN exprs = {}
      BY DEF NoExprs
    <3> QED BY <3>1 DEF IInv, CseInv, Listed
  <2>3. \A k \in DOMAIN cache : out.reg[cache[k]] = out.mem[Val(k[1], out)]
    <3>1. cache = NoExprs => DOMAIN cache = {}
      BY DEF NoExprs
    <3> QED BY <3>1 DEF IInv, ReuseInv
  <2> QED BY <2>1, <2>2, <2>3 DEF FactsHold
<1> QED BY <1>1, Invariant, PTL

(* Where control meets, a register that some block reads first agrees: had *)
(* its definition been removed, that read would be in the same scope and,  *)
(* unless it came before, have been renamed (local_scalar.py 89-97,        *)
(* 190-194).                                                               *)
LEMMA ReadFirstAgrees ==
  ASSUME IInv, pass = "cse", AdmissibleCse(items), idx <= Len(items),
         item.op \in {"label", "bra"}, NEW r \in ReadFirst
  PROVE  out.reg[r] = src.reg[r]
<1>1. /\ <<pass, items>> \in Inputs /\ idx \in At /\ idx \in Nat /\ item = items[idx]
      /\ At = 1..Len(items) /\ At \subseteq Nat /\ Running("cse")
      /\ \A n \in 1..(idx - 1) : n \in At /\ n < idx /\ n \in Nat
  BY CseRuns, ItemFacts DEF Running
<1>2. CseBoundary(items[idx])
  BY <1>1 DEF CseBoundary, PureOp
<1>3. r \in Reg
  BY DEF ReadFirst
<1>4. PICK k \in At :
         /\ r \in ReadRegs(items[k])
         /\ \A j \in 1..(k - 1) :
               (\A n \in j..k : items[n].op \notin {"label", "bra", "ret"}) =>
                   ~ (items[j].dst = r /\ ~ items[j].guard)
  BY DEF ReadFirst, At
<1>5. ASSUME NEW n \in 1..(idx - 1), Local(n, r) PROVE FALSE
  <2>1. n \in At /\ n < idx /\ n \in Nat /\ k \in Nat /\ items[n].dst = r
    BY <1>1, <1>5 DEF Local
  <2>2. ASSUME NEW x \in At, (n <= x /\ x <= k) \/ (k <= x /\ x <= n)
        PROVE  /\ ~ CseBoundary(items[x])
               /\ items[x].op \notin {"label", "bra", "ret"} /\ ~ items[x].guard
    <3>1. ~ CseBoundary(items[x])
      BY <1>4, <1>5, <2>1, <2>2, NotReadOutside
    <3> QED BY <3>1 DEF CseBoundary, PureOp
  <2>3. k < idx
    <3>1. ~ (n <= idx /\ idx <= k)
      BY <1>1, <1>2, <2>2
    <3> QED BY <1>1, <2>1, <3>1
  <2>4. k # n
    BY <1>4, <1>5, <2>1, <2>2 DEF AdmissibleCse, At
  <2>5. ~ (n < k)
    <3> SUFFICES ASSUME n < k PROVE FALSE
      OBVIOUS
    <3>1. n \in 1..(k - 1) /\ \A x \in n..k : x \in At /\ n <= x /\ x <= k
      BY <1>1, <2>1, <2>3
    <3>2. \A x \in n..k : items[x].op \notin {"label", "bra", "ret"}
      BY <2>2, <3>1
    <3>3. ~ items[n].guard
      BY <2>1, <2>2
    <3> QED BY <1>4, <2>1, <3>1, <3>2, <3>3
  <2>6. ~ (k < n)
    <3> SUFFICES ASSUME k < n PROVE FALSE
      OBVIOUS
    <3>1. SameScope(k, n, items)
      <4>1. \A x \in k..n : x \in At /\ k <= x /\ x <= n
        BY <1>1, <2>1
      <4> QED BY <2>2, <4>1 DEF SameScope
    <3>2. ASSUME NEW j \in 1..(k - 1), items[j].dst = r PROVE ~ SameScope(j, n, items)
      <4> SUFFICES ASSUME SameScope(j, n, items) PROVE FALSE
        OBVIOUS
      <4>1. j \in j..k /\ \A x \in j..k : x \in j..n
        BY <2>1
      <4>2. \A x \in j..k : items[x].op \notin {"label", "bra", "ret"} /\ ~ items[x].guard
        BY <4>1 DEF SameScope, CseBoundary, PureOp
      <4> QED BY <1>4, <3>2, <4>1, <4>2
    <3>3. ReadInOtherScope(r, n, items)
      <4>1. n \in {x \in DOMAIN items : ~ CseBoundary(items[x])} /\ k \in 1..(n - 1)
        BY <1>1, <2>1, <2>2 DEF At
      <4> QED BY <1>4, <2>1, <3>1, <3>2, <4>1 DEF AdmissibleCse
    <3>4. PICK p \in At, m \in At :
             /\ r \in ReadRegs(items[p]) /\ CseBoundary(items[m])
             /\ (p <= m /\ m <= n) \/ (n <= m /\ m <= p)
      BY <3>3 DEF ReadInOtherScope, At
    <3> QED BY <1>5, <2>1, <3>4, NotReadOutside
  <2> QED BY <2>1, <2>4, <2>5, <2>6
<1>6. ~ Gone(r) /\ ~ Aliased(r)
  BY <1>5 DEF Gone, Aliased
<1>7. Agrees(r) \/ Gone(r) \/ Aliased(r)
  BY <1>3 DEF IInv, CseInv
<1> QED BY <1>6, <1>7 DEF Agrees

(* Where control can go elsewhere, or come from elsewhere, the registers   *)
(* that any block reads before it defines them agree: what a pass removed  *)
(* is not missed there (local_scalar.py 89-97, 190-194).                   *)
THEOREM AgreeWhereControlMeetsHolds ==
    Spec => [](Admissible(pass, items) => AgreeWhereControlMeets)
<1>1. IInv /\ Admissible(pass, items) => AgreeWhereControlMeets
  <2> SUFFICES ASSUME IInv, Admissible(pass, items), idx <= Len(items),
                      item.op \in {"label", "bra"}, NEW r \in ReadFirst
               PROVE  out.reg[r] = src.reg[r]
    BY DEF AgreeWhereControlMeets
  <2>1. CASE pass = "cse"
    BY <2>1, ReadFirstAgrees DEF Admissible
  <2>2. CASE pass = "dre"
    <3>1. r \in ReadBy(At)
      BY DEF ReadFirst, ReadBy, At
    <3> QED BY <2>2, <3>1 DEF IInv, DreInv
  <2>3. CASE pass \in {"fold", "reuse"}
    BY <2>3 DEF IInv, FoldInv, ReuseInv
  <2> QED BY <2>1, <2>2, <2>3, ItemFacts DEF IInv
<1> QED BY <1>1, Invariant, PTL

=============================================================================
