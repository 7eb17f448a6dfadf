------------------------------ MODULE LoopMotion ------------------------------
(***************************************************************************)
(* LoopInvariantCodeMotionPass (passes/licm.py) and LoadHoistingPass       *)
(* (passes/memory.py): both move items of a loop before the last           *)
(* instruction of the only block that enters the loop from outside.        *)
(***************************************************************************)
EXTENDS Kernel
LOCAL INSTANCE SequencesExt

(* A loop is its header, its tail, what dominates the header, and its      *)
(* blocks.  The loops come in the order of their back edges; two from one  *)
(* block are taken by the position of the header, where the code takes them*)
(* in the order of a set.                                                  *)
Earlier(e, f) == e[1] < f[1] \/ (e[1] = f[1] /\ e[2] < f[2])
Loops(graph) ==
    LET edges == SetToSortSeq(BackEdges(graph), Earlier)
    IN  [n \in DOMAIN edges |-> [header |-> edges[n][2], tail |-> edges[n][1],
                                 dominators |-> DominatorsOf(edges[n][2], graph),
                                 blocks |-> NaturalLoop(edges[n], graph)]]
LoopItems(loop, its) == UNION {Instructions(b, its) : b \in loop.blocks}
DefsInLoop(r, loop, its) == {k \in LoopItems(loop, its) : DestOf(its[k]) = r}

Preheaders(loop, graph) == graph.pred[loop.header] \ loop.blocks

(* Where a loop's items would go, if it has one preheader with something   *)
(* in it: a set of one position, or none.                                  *)
InsertBefore(loop, its, graph) ==
    {k \in DOMAIN its :
        /\ Cardinality(Preheaders(loop, graph)) = 1
        /\ \E b \in Preheaders(loop, graph) :
              k \in Instructions(b, its) /\ \A j \in Instructions(b, its) : j <= k}

-----------------------------------------------------------------------------
(* An operand is invariant if its register has no definition, if the last  *)
(* of them dominates the header from outside, or is invariant itself.      *)
InvariantOperand(r, inv, loop, its) ==
    LET d == LastDef(r, its)
    IN  \/ d = 0
        \/ d \in inv
        \/ BlockOf(d, its) \in loop.dominators \ loop.blocks

Hoistable(k, inv, loop, its) ==
    /\ its[k].op \in PureOp /\ ~ its[k].guard
    /\ \A r \in RegsIn(its[k].srcs) : InvariantOperand(r, inv, loop, its)

(* The least set that contains what is invariant given itself.             *)
InvariantItems(loop, its) ==
    LET items == LoopItems(loop, its)
        Round[n \in 0..Cardinality(items)] ==
            IF n = 0 THEN {}
            ELSE LET inv == Round[n - 1]
                 IN  inv \cup {k \in items : Hoistable(k, inv, loop, its)}
    IN  Round[Cardinality(items)]

SingleDefNever(k, loop, its) == TRUE                      \* a mutant
SingleDef(k, loop, its) == Cardinality(DefsInLoop(DestOf(its[k]), loop, its)) = 1

MovedInvariants(loop, its) ==
    {k \in InvariantItems(loop, its) : SingleDef(k, loop, its)}

-----------------------------------------------------------------------------
NoStores(loop, its) == \A k \in LoopItems(loop, its) : its[k].op # "st"

(* The tail of the first back edge to the header.                          *)
Latch(loop, loops) ==
    loops[CHOOSE n \in DOMAIN loops : /\ loops[n].header = loop.header
                                      /\ \A m \in DOMAIN loops :
                                            loops[m].header = loop.header => n <= m].tail

OnEveryIterationOrNot(b, latch, graph) == TRUE            \* a mutant
OnEveryIteration(b, latch, graph) == b \in DominatorsOf(latch, graph)

MovedLoads(loop, loops, its, graph) ==
    IF ~ NoStores(loop, its) THEN {}
    ELSE {k \in LoopItems(loop, its) :
            /\ its[k].op = "ld" /\ its[k].srcs[1][1] = "reg" /\ ~ its[k].guard
            /\ OnEveryIteration(BlockOf(k, its), Latch(loop, loops), graph)
            /\ SingleDef(k, loop, its)
            /\ LET d == LastDef(its[k].srcs[1][2], its)
               IN  d = 0 \/ BlockOf(d, its) \notin loop.blocks}

-----------------------------------------------------------------------------
(* The items without the moved ones, which stand where their loops say, in *)
(* the order of the loops and, within a loop, of the text.  (Loads come in *)
(* the order of a set of blocks, which matters only where one of them      *)
(* loads the address of another.)                                          *)
Moves(its, loops, graph, Moved(_)) ==
    LET places == [n \in DOMAIN loops |-> InsertBefore(loops[n], its, graph)]
        moved == [n \in DOMAIN loops |->
                     IF places[n] = {} THEN {} ELSE Moved(loops[n])]
        gone == UNION {moved[n] : n \in DOMAIN loops}
        Arriving(k) == FlattenSeq([n \in DOMAIN loops |->
                           IF k \in places[n] THEN InOrder(moved[n], its) ELSE <<>>])
        order == FlattenSeq([k \in DOMAIN its |->
                     Arriving(k) \o (IF k \in gone THEN <<>> ELSE <<k>>)])
    IN  [n \in DOMAIN order |-> its[order[n]]]

HoistInvariants(its) ==
    LET graph == Graph(its)
        loops == Loops(graph)
    IN  Moves(its, loops, graph, LAMBDA loop : MovedInvariants(loop, its))

HoistLoads(its) ==
    LET graph == Graph(its)
        loops == Loops(graph)
    IN  Moves(its, loops, graph, LAMBDA loop : MovedLoads(loop, loops, its, graph))

=============================================================================
