-------------------------- MODULE RegisterAllocation --------------------------
(***************************************************************************)
(* How a virtual register gets its place: dead code is removed (GlobalDce),*)
(* intervals are computed (Liveness) and scanned (LinearScan), and         *)
(* lowering finds a place for whatever is left without one.  Without       *)
(* optimisation, lowering finds a place for every register.  Phase "run"   *)
(* then executes the kernel, on virtual registers as it came in, and on    *)
(* physical ones as it comes out, and keeps of a value only the item that  *)
(* made it.                                                                *)
(***************************************************************************)
EXTENDS LinearScan, GlobalDce, Liveness

CONSTANT Kernels        \* sequences of items

(* Whatever writes a register names it; a label reads nothing.             *)
ASSUME KernelsAssumption ==
    \A its \in Kernels :
        /\ its \in Seq(Item)
        /\ \A k \in DOMAIN its :
              /\ its[k].op \in PureOp \cup {"ld", "fma"} => its[k].dst \in Reg
              /\ its[k].op = "label" => its[k].srcs = <<>>

VARIABLES
    order,       \* the virtual registers that the intervals belong to
    place,       \* _mapping of the RegisterAllocator of lowering
    reserved,    \* _reserved
    next,        \* _next
    pc,          \* the item to execute next
    madeBy,      \* the item that last wrote each virtual register, 0 at first
    holds        \* the item whose value each physical register holds

lowering == <<place, reserved, next>>
run == <<pc, madeBy, holds>>
raVars == <<vars, items, phase, dce, order, lowering, run>>

RaInit ==
    /\ items \in Kernels
    /\ phase \in {"seed", "lower"}              \* O2, O0
    /\ live = IF phase = "seed" THEN {} ELSE Instructions(items)
    /\ worklist = {}
    /\ order = <<>> /\ intervals = <<>> /\ mapping = <<>>
    /\ v = 1
    /\ free = [k \in 1..MaxGpr |-> MaxGpr + 1 - k]
    /\ active = <<>> /\ still = <<>>
    /\ fellBack = FALSE
    /\ place = [r \in Reg |-> None]
    /\ reserved = {}
    /\ next = 1
    /\ pc = 1
    /\ madeBy = [r \in Reg |-> 0]
    /\ holds = [p \in 0..MaxGpr |-> 0]

Dce ==
    /\ Seed \/ \E k \in worklist : Mark(k)
    /\ UNCHANGED <<vars, order, lowering, run>>

StartScan ==
    /\ phase = "mark" /\ worklist = {}
    /\ phase' = "scan"
    /\ order' = Order(Kept)
    /\ intervals' = Intervals(Kept)
    /\ mapping' = [u \in DOMAIN intervals' |-> None]
    /\ UNCHANGED <<items, dce, v, free, active, still, fellBack, lowering, run>>

Scan == /\ phase = "scan"
        /\ Next
        /\ UNCHANGED <<items, phase, dce, order, lowering, run>>

-----------------------------------------------------------------------------
(* Lowering (legacy_lowering.py).                                          *)

Width(r) == IF r \in Pairs THEN 2 ELSE 1
From(p, r) == p..(p + Width(r) - 1)
Placed(r) == IF place[r] = None THEN {} ELSE From(place[r], r)

StartLowering ==
    /\ phase = "scan" /\ v = Len(intervals) + 1
    /\ phase' = "lower"
    /\ place' = [r \in Reg |->
                    IF \E u \in DOMAIN order : order[u] = r
                    THEN mapping[CHOOSE u \in DOMAIN order : order[u] = r] ELSE None]
    /\ reserved' = UNION {From(place'[r], r) : r \in {q \in Reg : place'[q] # None}}
    /\ UNCHANGED <<vars, items, dce, order, next, run>>

(* The registers without a place that the first item to mention any does.  *)
MissingIn(i) == {r \in {i.dst} \cup RegsIn(i.srcs) : r # NoReg /\ place[r] = None}
Missing ==
    LET lacking == {k \in DOMAIN Kept : MissingIn(Kept[k]) # {}}
    IN  IF lacking = {} THEN {} ELSE MissingIn(Kept[Least(lacking)])

(* The next place of the width, even for a pair, that is not reserved.     *)
Fits(p, r) == /\ r \in Pairs => p % 2 = 0
              /\ From(p, r) \cap reserved = {}
              /\ From(p, r) \subseteq 0..MaxGpr

(* Those of one item in any order.                                         *)
Allocate(r) ==
    /\ phase = "lower" /\ r \in Missing
    /\ \E p \in next..MaxGpr :
          /\ Fits(p, r)
          /\ \A q \in next..(p - 1) : ~ Fits(q, r)
          /\ place' = [place EXCEPT ![r] = p]
          /\ reserved' = reserved \cup From(p, r)
          /\ next' = p + Width(r)
    /\ UNCHANGED <<vars, items, phase, dce, order, run>>

RunsOut(r) ==                      \* CompileError
    /\ phase = "lower" /\ r \in Missing
    /\ \A p \in next..MaxGpr : ~ Fits(p, r)
    /\ phase' = "error"
    /\ UNCHANGED <<vars, items, dce, order, lowering, run>>

Lowered ==
    /\ phase = "lower" /\ Missing = {}
    /\ phase' = "run"
    /\ UNCHANGED <<vars, items, dce, order, lowering, run>>

-----------------------------------------------------------------------------
(* Execution.  A guarded item happens or not, a guarded branch goes either *)
(* way.  What was removed still happens in the kernel that came in.        *)

Execute ==
    /\ phase = "run" /\ pc \in DOMAIN items
    /\ pc' \in Follows(pc, items)
    /\ LET r == LiveDest(items[pc])
       IN  \/ /\ r # NoReg
              /\ madeBy' = [madeBy EXCEPT ![r] = pc]
              /\ holds' = [p \in DOMAIN holds |->
                              IF Stays(pc) /\ p \in Placed(r) THEN pc ELSE holds[p]]
           \/ /\ r = NoReg \/ items[pc].guard
              /\ UNCHANGED <<madeBy, holds>>
    /\ UNCHANGED <<vars, items, phase, dce, order, lowering>>

RaNext == \/ Dce \/ StartScan \/ Scan \/ StartLowering
          \/ (\E r \in Reg : Allocate(r)) \/ (\E r \in Reg : RunsOut(r)) \/ Lowered
          \/ Execute

RaSpec == RaInit /\ [][RaNext]_raVars

-----------------------------------------------------------------------------
(* Properties.                                                             *)

(* An interval covers what it stands for: when an item writes one register *)
(* while the value of another may still be read, their intervals overlap,  *)
(* so that the scan keeps them apart (liveness.py 82-117,                  *)
(* register_allocation.py 59-92, 193-242).                                 *)
IntervalOf(r) == intervals[CHOOSE u \in DOMAIN order : order[u] = r]
RangesCover ==
    phase = "run" /\ pc \in DOMAIN items /\ order # <<>> /\ Stays(pc) =>
        \A q \in {LiveDest(items[pc])} \ {NoReg}, r \in Reg :
            r # q /\ madeBy[r] # 0 /\ LiveAfter(NewPos(pc), r, Kept) =>
                Overlap(IntervalOf(q), IntervalOf(r))

(* What an instruction reads from the places of a register is the value    *)
(* that the kernel would have it read, whichever of the two allocators     *)
(* placed it, as long as the scan did not fall back (register_allocation.py*)
(* 47-172, legacy_lowering.py 98-139, global_dce.py 35-97).                *)
ReadsReach ==
    phase = "run" /\ pc \in DOMAIN items /\ Stays(pc) /\ ~ fellBack =>
        \A r \in RegsIn(items[pc].srcs) : \A p \in Placed(r) : holds[p] = madeBy[r]

=============================================================================
