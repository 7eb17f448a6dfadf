------------------------------- MODULE LanesMC --------------------------------
(***************************************************************************)
(* Small instances of Lanes.  Register 1 is the number of the lane in the  *)
(* grid, 2 the parameter n, 3, 4 and 7 hold data, 5 and 6 are predicates,  *)
(* 8 is the wide base address, a parameter, 9 the lane's own, and 10 is the*)
(* number of the lane in its block.                                        *)
(***************************************************************************)
EXTENDS Lanes
LOCAL INSTANCE SequencesExt

CONSTANTS RegionLength, Strict

Plus(a, b) == (a + b + 1) % W
Times(a, b) == (a * b + 2) % W
Or(a, b) == IF a < b THEN b ELSE a

It(op, d, s) == [op |-> op, ty |-> "u32", dst |-> d, srcs |-> s, guard |-> FALSE,
                 lbl |-> NoLabel, pred |-> NoReg, neg |-> FALSE, cmp |-> "eq"]
Wide64(i) == [i EXCEPT !.ty = "u64"]
F32(i) == [i EXCEPT !.ty = "f32"]
Setp(cmp, p, a, b) == [It("setp", p, <<a, b>>) EXCEPT !.cmp = cmp]
Mark(l) == [It("label", NoReg, <<>>) EXCEPT !.lbl = l]
Bra(l) == [It("bra", NoReg, <<>>) EXCEPT !.lbl = l]
When(p, neg, i) == [i EXCEPT !.guard = TRUE, !.pred = p, !.neg = neg]
Ret == It("ret", NoReg, <<>>)
Store == It("st", NoReg, <<R(9), R(3)>>)
Inc(r) == It("add", r, <<R(r), I(1)>>)
UpTo(l, bound) == <<It("mov", 4, <<I(0)>>), Mark(l), Inc(3), Inc(4),
                    Setp("lt", 6, R(4), bound), When(6, FALSE, Bra(l))>>

Prologue == <<It("mov", 10, <<Tid>>), It("mov", 4, <<Ctaid>>),
              It("mul", 4, <<R(4), I(Threads)>>), It("add", 1, <<R(10), R(4)>>),
              It("ld", 8, <<Param(2)>>), It("ld", 2, <<Param(1)>>),
              It("mul", 9, <<R(1), I(1)>>), Wide64(It("add", 9, <<R(8), R(9)>>)),
              It("mov", 3, <<I(1)>>)>>

(* What decides: the number of the lane, a parameter, memory, the block, a *)
(* register that nothing is known of.                                      *)
If(p) == When(p, FALSE, Bra(1))
IfNot(p) == When(p, TRUE, Bra(1))
Tests == { <<Setp("ge", 5, R(1), R(2)), If(5)>>, <<Setp("eq", 5, R(2), I(4)), IfNot(5)>>,
           <<It("ld", 7, <<R(9)>>), Setp("lt", 5, R(7), I(3)), IfNot(5)>>,
           <<It("mov", 7, <<Ctaid>>), Setp("eq", 5, R(7), I(0)), If(5)>>,
           <<Setp("eq", 5, R(7), R(4)), If(5)>> }

(* What is jumped over: a store, arithmetic, a load, loops of uniform and  *)
(* of varying length, a nested exit, a return, what has a guard of its own *)
(* or gives the region's guard another value; moves and loads of two words. *)
Pieces == { <<Store>>, <<Inc(3)>>, <<F32(It("fma", 3, <<R(1), R(1), R(3)>>))>>,
            <<It("ld", 7, <<R(9)>>), It("add", 3, <<R(3), R(7)>>)>>,
            UpTo(2, R(2)), UpTo(2, R(1)),
            <<Setp("ne", 6, R(1), I(1)), When(6, FALSE, Bra(3)), Store, Mark(3)>>,
            <<Ret>>, <<When(5, FALSE, Inc(3))>>, <<Setp("eq", 5, R(1), R(1))>>,
            <<Wide64(It("mov", 8, <<R(9)>>)), It("st", NoReg, <<R(8), R(2)>>),
              Wide64(It("ld", 8, <<R(9)>>)), It("st", NoReg, <<R(9), R(8)>>),
              Wide64(It("mov", 8, <<I(0)>>))>> }
Regions == UNION {[1..n -> Pieces] : n \in 1..RegionLength}

Epilogues == { <<Store>>, <<It("mov", 3, <<R(4)>>), Store>>,
               <<Setp("eq", 6, R(3), I(1)), When(6, FALSE, Bra(4)), Store, Mark(4)>>,
               UpTo(4, I(2)) \o <<Bra(3), Store, Mark(3), Store>> }

KernelOf(test, region, epilogue) ==
    Prologue \o test \o FlattenSeq(region) \o <<Mark(1)>> \o epilogue \o <<Ret>>

-----------------------------------------------------------------------------
(* The kernels that lowering is right about; the README says what it does  *)
(* to the others.                                                          *)
PlanOf(items) ==
    LET start == StartPlan(items)
        After[n \in 0..Len(items)] ==
            IF n = 0 THEN start
            ELSE IF n \in ConditionalBranches(items) \ start.uniform THEN LegaliseBranch(n, items, After[n - 1])
            ELSE After[n - 1]
    IN  After[Len(items)]

(* In a region nothing returns, has a guard of its own, or writes the      *)
(* region's guard, and what its loops count is not read outside of it.     *)
RegionWorks(b, items, p) ==
    LET region == RegionOf(b, items)
        control == UniformControl(region, items, p)
    IN  \A k \in region :
            /\ items[k].op # "ret" /\ items[k].dst # items[b].pred
            /\ k \notin control => ~ items[k].guard
            /\ k \in control /\ Computes(items[k]) =>
                  \A j \in DOMAIN items \ region :
                      items[k].dst \in RegsIn(items[j].srcs) =>
                          \E m \in (LabelAt(items[b].lbl, items))..j :
                              items[m].dst = items[k].dst

(* What a branch that stays depends on is computed by all lanes, and is of *)
(* the same class wherever it is computed.                                 *)
BranchWorks(b, items, p) ==
    LET after == ClassesAfter(items)
        slice == Slice({b}, DOMAIN items, items) \ {b}
    IN  /\ \A k \in slice : k \notin DOMAIN p.guards /\ ~ items[k].guard
        /\ \A j, k \in slice :
              items[j].dst = items[k].dst => after[j][items[j].dst] = after[k][items[k].dst]

Works(items) ==
    LET p == PlanOf(items)
    IN  /\ ~ Malformed(items)
        /\ p.legacy = {}
        /\ \A b \in p.skipped : RegionWorks(b, items, p)
        /\ \A b \in p.uniform : BranchWorks(b, items, p)

MCKernels ==
    {[items |-> its0, types |-> <<"u32", "u64">>, params |-> <<4, 0>>] : its0 \in
        {k \in {KernelOf(t, r, e) : t \in Tests, r \in Regions, e \in Epilogues} :
            ~ Malformed(k) /\ (Strict => Works(k))}}

MCMemory == [a \in 0..(GmemSize - 1) |-> (a + 1) % W]

=============================================================================
