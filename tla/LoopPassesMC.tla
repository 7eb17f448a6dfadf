----------------------------- MODULE LoopPassesMC -----------------------------
(***************************************************************************)
(* Small instances of LoopPasses.  Register 1 counts, 2 to 4 hold data, 5  *)
(* is a predicate; unrolling may name registers up to Top.                 *)
(***************************************************************************)
EXTENDS LoopPasses
LOCAL INSTANCE SequencesExt

CONSTANTS BodyLength, Strict, Passes,
          Fma          \* whether a body may accumulate with fma

Zero(a, b) == 0
Plus(a, b) == (a + b + 1) % W

It(op, d, s) == [op |-> op, ty |-> "u32", dst |-> d, srcs |-> s, guard |-> FALSE,
                 lbl |-> NoLabel, pred |-> NoReg, neg |-> FALSE, cmp |-> "eq"]
Setp(cmp, a, b) == [It("setp", 5, <<a, b>>) EXCEPT !.cmp = cmp]
Mark(l) == [It("label", NoReg, <<>>) EXCEPT !.lbl = l]
Bra(l) == [It("bra", NoReg, <<>>) EXCEPT !.lbl = l]
When(i, neg) == [i EXCEPT !.guard = TRUE, !.pred = 5, !.neg = neg]
Ret == It("ret", NoReg, <<>>)
Store(a, d) == It("st", NoReg, <<R(a), R(d)>>)
Count == It("add", 1, <<R(1), I(1)>>)

(* Loops: tested at the end or at the start, entered by a jump, by falling *)
(* in, or past a branch that may skip them, with one item that may not be  *)
(* executed in any iteration; tested at the start also with labels, 4 and  *)
(* 5, that are greater than the names of blocks without one.               *)
Bodies == {
    It("mov", 2, <<I(3)>>), It("add", 3, <<R(4), I(1)>>), It("add", 3, <<R(3), R(2)>>),
    It("mov", 4, <<R(2)>>), It("ld", 2, <<R(4)>>), It("ld", 3, <<R(2)>>),
    It("add", 4, <<R(1), I(1)>>), Store(4, 3) }
    \cup IF Fma THEN {[It("fma", 3, <<R(4), R(4), R(3)>>) EXCEPT !.ty = "f32"]} ELSE {}
Enter == {<<>>, <<Bra(1)>>, <<Setp("eq", R(4), I(0)), When(Bra(3), FALSE)>>}
AtEnd(enter, body, bound) ==
    <<It("mov", 1, <<I(0)>>), It("mov", 3, <<I(1)>>)>> \o enter \o <<Mark(1)>> \o body
      \o <<Count, Setp("lt", R(1), I(bound)), When(Bra(1), FALSE), Mark(3)>>
AtStart(label, enter, body, bound) ==
    <<It("mov", 1, <<I(0)>>), It("mov", 3, <<I(1)>>)>> \o enter
      \o <<Mark(label), Setp("ge", R(1), I(bound)), When(Bra(3), FALSE)>> \o body
      \o <<Count, Bra(label), Mark(3)>>
InSome(body) ==
    <<Setp("eq", R(4), I(1)), When(Bra(2), FALSE), body[1], Mark(2)>> \o Tail(body)
Kernels(bodies) ==
    {loop \o <<Store(2, 3), Ret>> :
        loop \in {AtEnd(e, b, n) : e \in Enter, b \in bodies, n \in {2, 3}}
            \cup {AtStart(1, e, b, n) : e \in Enter, b \in bodies, n \in {0, 2}}
            \cup {AtStart(4, <<>>, b, 2) : b \in bodies \cup {<<Mark(5)>> \o b : b \in bodies}}}
LoopKernels == LET bodies == [1..BodyLength -> Bodies]
               IN  Kernels(bodies \cup {InSome(b) : b \in bodies})

(* Blocks that lead on: three with labels after the entry, each empty or   *)
(* storing and counting, and ending in any way.                            *)
Work == <<Store(1, 1), Count, Setp("lt", R(1), I(2))>>
Ends == {<<>>, <<Ret>>} \cup {<<Bra(l)>> : l \in 1..3}
                       \cup {<<When(Bra(l), FALSE)>> : l \in 1..3}
BlockKernels ==
    {first \o <<Mark(1)>> \o b[1] \o <<Mark(2)>> \o b[2] \o <<Mark(3)>> \o b[3] :
        first \in {Work \o e : e \in {<<>>, <<Bra(3)>>, <<When(Bra(2), TRUE)>>}},
        b \in [1..3 -> {w \o e : w \in {<<>>, Work}, e \in Ends}]}

-----------------------------------------------------------------------------
(* The kernels the passes are right about; the README says what they do to *)
(* the others.                                                             *)
Reads(i) == RegsIn(i.srcs) \cup (IF i.guard THEN {i.pred} ELSE {})
AlwaysBefore(j, k, its) ==
    IF BlockOf(j, its) = BlockOf(k, its) THEN j < k
    ELSE BlockOf(j, its) \in DominatorsOf(BlockOf(k, its), Graph(its))
DefinedBefore(k, its) ==
    \A j \in DOMAIN its : its[k].dst \in Reads(its[j]) => AlwaysBefore(k, j, its)

(* Moving: what could move is executed before everything that reads its    *)
(* result, and reads registers with at most one definition in the loop, one*)
(* the pass sees, and none after it.  What it moves past, if it is not a   *)
(* branch, has nothing to do with it.                                      *)
PlainOperand(r, loop, its) ==
    /\ \A k \in LoopItems(loop, its) : its[k].dst = r => DestOf(its[k]) = r
    /\ Cardinality(DefsInLoop(r, loop, its)) <= 1
    /\ DefsInLoop(r, loop, its) # {} => LastDef(r, its) \in DefsInLoop(r, loop, its)
Independent(i, j) == \/ i.op = "bra"
                     \/ /\ i.op # "st" \/ j.op # "ld"
                        /\ i.dst \notin {j.dst} \cup Reads(j)
MovesWell(k, loop, its, graph) ==
    \/ its[k].dst \in Reads(its[k]) \/ 1 \in Reads(its[k]) \/ its[k].guard
    \/ Cardinality(DefsInLoop(its[k].dst, loop, its)) > 1
    \/ /\ DefinedBefore(k, its)
       /\ \A r \in Reads(its[k]) : PlainOperand(r, loop, its)
       /\ \A j \in InsertBefore(loop, its, graph) : Independent(its[j], its[k])
InvariantsWork(its) ==
    LET graph == Graph(its)
        loops == Loops(graph)
    IN  \A n \in DOMAIN loops : \A k \in LoopItems(loops[n], its) :
            its[k].op \in PureOp => MovesWell(k, loops[n], its, graph)

(* Loads: besides, whoever enters the loop executes those that could move. *)
LoadsWork(its) ==
    LET graph == Graph(its)
        loops == Loops(graph)
    IN  \A n \in DOMAIN loops : \A k \in LoopItems(loops[n], its) :
            its[k].op = "ld" /\ BlockOf(k, its) \in DominatorsOf(loops[n].tail, graph) =>
                /\ MovesWell(k, loops[n], its, graph)
                /\ BlockOf(k, its) = loops[n].header
                /\ \A b \in Preheaders(loops[n], graph) : graph.succ[b] = {loops[n].header}

(* Unrolling: the names of the blocks of a loop come in the order of the  *)
(* text, every iteration executes every item, none of them reads the       *)
(* counter but its own increment and the test, and what does not carry a   *)
(* value from one iteration to the next is not read before it is defined,  *)
(* nor after the loop.                                                     *)
NamedInOrder(loop, its) ==
    \A b, c \in loop.blocks : b < c => NameBefore(b, c, its)
UnrollingWorks(its) ==
    LET graph == Graph(its)
        loops == Loops(graph)
    IN  \A n \in DOMAIN loops : \A k \in LoopItems(loops[n], its) :
            /\ NamedInOrder(loops[n], its)
            /\ BlockOf(k, its) \in DominatorsOf(loops[n].tail, graph)
            /\ its[k].op \in PureOp \cup {"ld"} /\ its[k].dst # 1 =>
                  /\ 1 \notin Reads(its[k])
                  /\ DefsInLoop(its[k].dst, loops[n], its) = {k}
                  /\ its[k].dst \notin Reads(its[k]) =>
                        /\ DefinedBefore(k, its)
                        /\ \A j \in DOMAIN its \ LoopItems(loops[n], its) :
                              its[k].dst \notin Reads(its[j])

(* Merging: nothing falls into a block that only jumps, and no block that  *)
(* is never reached leads to another.                                      *)
MergingWorks(its) ==
    LET graph == Graph(its)
    IN  \A b \in DOMAIN graph.succ \ {1} :
            /\ IsJump(b, its, graph) => ~ FallsThrough(its[b - 1])
            /\ b \in Unreachable(graph) => graph.succ[b] \cap Unreachable(graph) = {}

Works(p, its) ==
    CASE p = "loop-invariant-code-motion" -> InvariantsWork(its)
      [] p = "load-hoisting" -> LoadsWork(its)
      [] p = "loop-unrolling" -> UnrollingWorks(its)
      [] p = "block-simplification" -> MergingWorks(its)

MCInputs ==
    {in \in UNION {{p} \X (IF p = "block-simplification" THEN BlockKernels ELSE LoopKernels) :
                      p \in Passes} :
        Strict => Works(in[1], in[2])}

MCStarts == <<Lane(0, 0, [r \in Reg |-> (r + 1) % W], [a \in Word |-> (a + 2) % W]),
             Lane(0, 0, [r \in Reg |-> 0], [a \in Word |-> 3 - a])>>

=============================================================================
