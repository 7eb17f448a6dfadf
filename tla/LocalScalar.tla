----------------------------- MODULE LocalScalar -----------------------------
(***************************************************************************)
(* The four passes that walk the items of a kernel once, in order:         *)
(*   dre    ConservativeDeadResultEliminationPass   local_scalar.py        *)
(*   cse    BasicBlockLocalCSEPass                  local_scalar.py        *)
(*   fold   LocalConstantFoldingPass                local_scalar.py        *)
(*   reuse  RepeatedGlobalLoadReusePass             experimental.py        *)
(* One step is one iteration: the pass looks at items[idx] and appends to  *)
(* kept what it makes of it.  src and out are not in the code: they are    *)
(* the state of a lane that has executed items up to idx, and of one that  *)
(* has executed kept.  At a label a lane may arrive from anywhere, with    *)
(* other register values, so no fact about them may survive it.            *)
(***************************************************************************)
EXTENDS Ptx, FiniteSets

CONSTANTS Inputs,     \* pairs <<pass, items>>
          Starts,     \* states a lane may start in
          Arrivals    \* register values with which it may reach a label

(* Whatever writes a register names it, and a load has an address.         *)
ASSUME InputsAssumption ==
    \A p \in Inputs :
        /\ p \in {"dre", "cse", "fold", "reuse"} \X Seq(Item)
        /\ \A k \in DOMAIN p[2] :
              /\ p[2][k].op \in PureOp \cup {"ld", "fma"} => p[2][k].dst \in Reg
              /\ p[2][k].op = "ld" => p[2][k].srcs # <<>>
ASSUME RegistersAssumption == IsFiniteSet(Reg)
ASSUME StartsAssumption == Starts \subseteq State /\ Arrivals \subseteq [Reg -> Word]

VARIABLES
    pass, items,
    idx,         \* the next item
    kept,        \* kept_items
    exprs,       \* cse: expression_destinations, expression -> register
    aliases,     \* cse: aliases; a register without one is its own
    constants,   \* fold: constants; <<>> or <<type, word>> for each register
    cache,       \* reuse: load_cache, <<address register, type>> -> register
    src, out

vars == <<pass, items, idx, kept, exprs, aliases, constants, cache, src, out>>

NoExprs == <<>>                          \* the empty function
NoAliases == [r \in Reg |-> r]

Init == /\ \E p \in Inputs : pass = p[1] /\ items = p[2]
        /\ idx = 1
        /\ kept = <<>>
        /\ exprs = NoExprs
        /\ aliases = NoAliases
        /\ constants = NoConstants
        /\ cache = NoExprs
        /\ src \in Starts
        /\ out = src

item == items[idx]
Running(p) == pass = p /\ idx <= Len(items)

(* A map without the keys that are stale, and one with a binding more.     *)
Minus(map, stale) == [k \in DOMAIN map \ stale |-> map[k]]
Plus(map, key, val) ==
    [k \in DOMAIN map \cup {key} |-> IF k = key THEN val ELSE map[k]]

(* The iteration ends with emitted, no item or one, in the place of item.  *)
(* Guards are never touched, so both lanes decide alike.                   *)
Emit(emitted) ==
    /\ kept' = kept \o emitted
    /\ idx' = idx + 1
    /\ UNCHANGED <<pass, items>>
    /\ \/ /\ item.op = "label"
          /\ \E a \in Arrivals : /\ src' = [src EXCEPT !.reg = a]
                                 /\ out' = [out EXCEPT !.reg = a]
       \/ item.guard /\ UNCHANGED <<src, out>>
       \/ /\ src' = Exec(item, src)
          /\ out' = IF emitted = <<>> THEN out ELSE Exec(emitted[1], out)

-----------------------------------------------------------------------------
(* Dead results.                                                           *)

(* Registers that are read by an instruction in a set of positions.        *)
ReadBy(S) == UNION {ReadRegs(items[k]) : k \in S}

RemovableReadBefore(i) ==      \* a mutant: only the reads before it count
    ~ i.guard /\ i.op \in PureOp /\ i.dst \notin ReadBy(1..idx)
Removable(i) ==
    ~ i.guard /\ i.op \in PureOp /\ i.dst \notin ReadBy(DOMAIN items)

DeadResult ==
    /\ Running("dre")
    /\ Emit(IF Removable(item) THEN <<>> ELSE <<item>>)
    /\ UNCHANGED <<exprs, aliases, constants, cache>>

-----------------------------------------------------------------------------
(* Common subexpressions.                                                  *)

(* A label, a guarded instruction and everything impure is a scope of its  *)
(* own; the items between two of them form one.                            *)
CseBoundary(i) == i.guard \/ i.op \notin PureOp
Scope(k) == {j \in DOMAIN items :
                \A n \in DOMAIN items :
                    (j <= n /\ n <= k) \/ (k <= n /\ n <= j) =>
                        ~ CseBoundary(items[n])}

OutsideReadsNone(k) == {}      \* a mutant
OutsideReads(k) == ReadBy(DOMAIN items \ Scope(k))

(* Following the aliases from r, as many steps as there are registers.     *)
Resolve(r, map) ==
    LET Follow[n \in 0..Cardinality(Reg)] ==
            IF n = 0 THEN r ELSE map[Follow[n - 1]]
    IN  Follow[Cardinality(Reg)]

Rename(srcs) == [k \in DOMAIN srcs |->
                    IF srcs[k][1] = "reg" THEN R(Resolve(srcs[k][2], aliases))
                                          ELSE srcs[k]]

(* An expression is the opcode and the sources as written, after renaming. *)
Key(i) == <<i.op, i.ty, i.srcs>>
StaleExprsByValue(d) == {k \in DOMAIN exprs : exprs[k] = d}      \* a mutant
StaleExprs(d) == {k \in DOMAIN exprs : exprs[k] = d \/ d \in RegsIn(k[3])}

(* Whether, later in the scope, a is read after t has been defined again.  *)
AliasReadAfterNever(a, t) == FALSE       \* a mutant
AliasReadAfter(a, t) ==
    \E j, k \in Scope(idx) : /\ idx < j /\ j <= k
                             /\ Dest(items[j]) = t
                             /\ a \in ReadRegs(items[k])

CseScopeEnds ==
    /\ Running("cse")
    /\ CseBoundary(item)
    /\ exprs' = NoExprs
    /\ aliases' = NoAliases
    /\ Emit(<<item>>)
    /\ UNCHANGED <<constants, cache>>

CseInstruction ==
    /\ Running("cse")
    /\ ~ CseBoundary(item)
    /\ LET rewritten == [item EXCEPT !.srcs = Rename(item.srcs)]
           d == item.dst
           fresh == Minus(exprs, StaleExprs(d))
           own == [aliases EXCEPT ![d] = d]
           key == Key(rewritten)
           target == Resolve(fresh[key], own)
       IN  \/ /\ d \in OutsideReads(idx)
              /\ exprs' = fresh /\ aliases' = own
              /\ Emit(<<rewritten>>)
           \/ /\ d \notin OutsideReads(idx)
              /\ key \in DOMAIN fresh => AliasReadAfter(d, target)
              /\ exprs' = Plus(fresh, key, d) /\ aliases' = own
              /\ Emit(<<rewritten>>)
           \/ /\ d \notin OutsideReads(idx)
              /\ key \in DOMAIN fresh
              /\ ~ AliasReadAfter(d, target)
              /\ exprs' = fresh
              /\ aliases' = [own EXCEPT ![d] = target]
              /\ Emit(<<>>)
    /\ UNCHANGED <<constants, cache>>

-----------------------------------------------------------------------------
(* Constants.                                                              *)

(* mul.lo.u32 has one part too many and ends the block for this pass, as   *)
(* the logical operations do.                                              *)
FoldBoundary(i) == \/ i.guard
                   \/ i.op \notin PureOp \ {"and"}
                   \/ i.op = "mul" /\ i.ty # "f32"

Evaluate(i, v) ==
    CASE i.op = "mov" -> v[1]
      [] i.op = "add" /\ i.ty = "f32" -> FloatAdd(v[1], v[2])
      [] i.op = "mul" -> FloatMul(v[1], v[2])
      [] OTHER -> (v[1] + v[2]) % W

(* What an instruction is known to compute.  s32 arithmetic is not folded, *)
(* nor an f32 result that is not finite.                                   *)
Folded(i) ==
    {v \in {Evaluate(i, vs) :
              vs \in {f \in [DOMAIN i.srcs -> Word] :
                        \A k \in DOMAIN i.srcs : f[k] \in Known(i.srcs[k], i.ty, constants)}} :
        \/ i.op = "mov"
        \/ i.ty = "u32"
        \/ i.ty = "f32" /\ v \notin NonFinite}

FoldBoundaryKeeps ==           \* a mutant: constants survive a label
    /\ Running("fold")
    /\ FoldBoundary(item)
    /\ Emit(<<item>>)
    /\ UNCHANGED <<exprs, aliases, constants, cache>>
FoldBlockEnds ==
    /\ Running("fold")
    /\ FoldBoundary(item)
    /\ constants' = NoConstants
    /\ Emit(<<item>>)
    /\ UNCHANGED <<exprs, aliases, cache>>

FoldInstruction ==
    /\ Running("fold")
    /\ ~ FoldBoundary(item)
    /\ \/ \E v \in Folded(item) :
             /\ constants' = [constants EXCEPT ![item.dst] = <<item.ty, v>>]
             /\ Emit(<<[item EXCEPT !.op = "mov",
                                    !.srcs = <<Immediate(v, item.ty)>>]>>)
       \/ /\ Folded(item) = {}
          /\ constants' = [constants EXCEPT ![item.dst] = <<>>]
          /\ Emit(<<item>>)
    /\ UNCHANGED <<exprs, aliases, cache>>

-----------------------------------------------------------------------------
(* Loads.                                                                  *)

ReuseBarrierNoStore(i) == i.op \in {"label", "bra", "ret"} \/ i.guard   \* a mutant
ReuseBarrier(i) == i.op \in {"label", "st", "bra", "ret"} \/ i.guard

ReuseForgets ==
    /\ Running("reuse")
    /\ ReuseBarrier(item)
    /\ cache' = NoExprs
    /\ Emit(<<item>>)
    /\ UNCHANGED <<exprs, aliases, constants>>

(* A load neither forgets what was loaded through the register it writes   *)
(* nor what that register held for the cache; only other instructions do   *)
(* the first, and none the second.                                         *)
ReuseLoad ==
    /\ Running("reuse")
    /\ ~ ReuseBarrier(item)
    /\ item.op = "ld"
    /\ LET key == <<item.srcs[1], item.ty>>
       IN  \/ /\ key \in DOMAIN cache
              /\ Emit(<<[item EXCEPT !.op = "mov", !.srcs = <<R(cache[key])>>]>>)
              /\ UNCHANGED cache
           \/ /\ key \notin DOMAIN cache
              /\ cache' = Plus(cache, key, item.dst)
              /\ Emit(<<item>>)
    /\ UNCHANGED <<exprs, aliases, constants>>

ReuseOther ==
    /\ Running("reuse")
    /\ ~ ReuseBarrier(item)
    /\ item.op # "ld"
    /\ cache' = Minus(cache, {k \in DOMAIN cache : k[1] = R(Dest(item))})
    /\ Emit(<<item>>)
    /\ UNCHANGED <<exprs, aliases, constants>>

Next == \/ DeadResult
        \/ CseScopeEnds \/ CseInstruction
        \/ FoldBlockEnds \/ FoldInstruction
        \/ ReuseForgets \/ ReuseLoad \/ ReuseOther

Spec == Init /\ [][Next]_vars

-----------------------------------------------------------------------------
(* What the passes are right about.                                        *)

(* Common subexpressions: no instruction reads the register it defines, as *)
(* then its expression is listed when it is stale, and what a scope reads  *)
(* from before it, to define it later, is read in another scope too.       *)
SameScope(j, k, its) == \A n \in j..k : ~ CseBoundary(its[n])
ReadInOtherScope(r, k, its) ==
    \E n \in DOMAIN its : /\ r \in ReadRegs(its[n])
                          /\ \E m \in DOMAIN its : /\ CseBoundary(its[m])
                                                   /\ \/ n <= m /\ m <= k
                                                      \/ k <= m /\ m <= n
AdmissibleCse(its) ==
    \A k \in {n \in DOMAIN its : ~ CseBoundary(its[n])} :
        /\ its[k].dst \notin ReadRegs(its[k])
        /\ \A j \in 1..(k - 1) :
              (/\ its[k].dst \in ReadRegs(its[j])
               /\ SameScope(j, k, its)
               /\ \A n \in 1..(j - 1) :
                     its[n].dst = its[k].dst => ~ SameScope(n, k, its))
              => ReadInOtherScope(its[k].dst, k, its)

(* Loads: until the next barrier nothing writes a register that a load     *)
(* wrote, and neither a load nor fma the register that it, or a load       *)
(* before it, loads from.                                                  *)
AdmissibleReuse(its) ==
    \A j, k \in DOMAIN its :
        (/\ its[j].op = "ld" /\ j <= k
         /\ \A n \in j..k : ~ ReuseBarrier(its[n]))
        => /\ j < k => its[k].dst # its[j].dst
           /\ its[k].op \in {"ld", "fma"} => R(its[k].dst) # its[j].srcs[1]

Admissible(p, its) ==
    CASE p = "cse" -> AdmissibleCse(its)
      [] p = "reuse" -> AdmissibleReuse(its)
      [] OTHER -> TRUE

-----------------------------------------------------------------------------
(* Properties.                                                             *)

(* Every instruction that is still to come reads, under the name the pass  *)
(* will give its operands, the values it reads in the original program     *)
(* (local_scalar.py 227-260, experimental.py 48-98): the next one here.    *)
ReadsSameValues ==
    idx <= Len(items) =>
        \A r \in RegsIn(item.srcs) :
            out.reg[IF CseBoundary(item) THEN r ELSE Resolve(r, aliases)]
              = src.reg[r]

(* Where control can go elsewhere, or come from elsewhere, the registers   *)
(* that any block reads before it defines them agree: what a pass removed  *)
(* is not missed there (local_scalar.py 89-97, 190-194).                   *)
ReadFirst == {r \in Reg : \E k \in DOMAIN items :
    /\ r \in ReadRegs(items[k])
    /\ \A j \in 1..(k - 1) :
          (\A n \in j..k : items[n].op \notin {"label", "bra", "ret"}) =>
              ~ (items[j].dst = r /\ ~ items[j].guard)}
AgreeWhereControlMeets ==
    idx <= Len(items) /\ item.op \in {"label", "bra"} =>
        \A r \in ReadFirst : out.reg[r] = src.reg[r]

(* What a pass has written down is true of the program it is producing: a  *)
(* constant is the value of its register, an expression that of the        *)
(* register listed for it, a cached load that of memory at its address     *)
(* (local_scalar.py 149-153, 240-257, experimental.py 79-96).              *)
FactsHold ==
    /\ \A r \in Reg : constants[r] # <<>> => out.reg[r] = constants[r][2]
    /\ \A k \in DOMAIN exprs :
          out.reg[exprs[k]] = Result(k[1], k[2], Vals(k[3], out))
    /\ \A k \in DOMAIN cache : out.reg[cache[k]] = out.mem[Val(k[1], out)]

(* Stores and compares see the same values in the same order, and memory   *)
(* is the same (local_scalar.py 33-172, experimental.py 25-112).           *)
SameEffects == out.mem = src.mem /\ out.seen = src.seen

=============================================================================
