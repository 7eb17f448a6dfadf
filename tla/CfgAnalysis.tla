----------------------------- MODULE CfgAnalysis -----------------------------
(***************************************************************************)
(* What analysis/cfg.py makes of the graph: dominators by iteration to a   *)
(* fixpoint, the edges back to a dominator, and the natural loop of each   *)
(* by a walk along predecessors.  The code visits blocks in an order that  *)
(* depends on their names, and sets in any order; here any order will do.  *)
(***************************************************************************)
EXTENDS Cfg

CONSTANT Inputs         \* sequences of items

(* An empty kernel, to the code one block without edges, is left out.      *)
ASSUME InputsAssumption == \A its \in Inputs : its \in Seq(Item) /\ its # <<>>

VARIABLES
    items,
    phase,       \* "build", "dominators", "loops", "done" or "error"
    graph,       \* the CFG
    doms,        \* doms, for the reachable blocks
    todo,        \* the blocks this round has still to visit
    changed,
    edges,       \* the edges whose loop is still to be found
    edge,        \* the one whose loop is being found, or <<>>
    body,        \* loop_blocks
    worklist,
    loops        \* loops: triples <<tail, header, blocks>>

vars == <<items, phase, graph, doms, todo, changed, edges, edge, body, worklist, loops>>

NoGraph == [succ |-> <<>>, pred |-> <<>>]
Entry == 1
Reachable == ReachableFrom(Entry, graph.succ, {})

Init == /\ items \in Inputs
        /\ phase = "build"
        /\ graph = NoGraph
        /\ doms = <<>>
        /\ todo = {}
        /\ changed = TRUE
        /\ edges = {} /\ edge = <<>>
        /\ body = {} /\ worklist = {}
        /\ loops = {}

BuildFails == /\ phase = "build"
              /\ Malformed(items)
              /\ phase' = "error"
              /\ UNCHANGED <<items, graph, doms, todo, changed, edges, edge, body,
                             worklist, loops>>

Build ==
    /\ phase = "build"
    /\ ~ Malformed(items)
    /\ graph' = Graph(items)
    /\ LET reachable == ReachableFrom(Entry, graph'.succ, {})
       IN  doms' = [b \in reachable |-> IF b = Entry THEN {Entry} ELSE reachable]
    /\ phase' = "dominators"
    /\ UNCHANGED <<items, todo, changed, edges, edge, body, worklist, loops>>

RoundForgetsChange ==          \* a mutant: changed is never reset
    /\ phase = "dominators"
    /\ todo = {} /\ changed
    /\ todo' = Reachable \ {Entry}
    /\ UNCHANGED <<items, phase, graph, doms, changed, edges, edge, body, worklist, loops>>
Round ==
    /\ phase = "dominators"
    /\ todo = {} /\ changed
    /\ todo' = Reachable \ {Entry}
    /\ changed' = FALSE
    /\ UNCHANGED <<items, phase, graph, doms, edges, edge, body, worklist, loops>>

(* Predecessors that cannot be reached do not count.                       *)
NewDomAllPreds(b) ==           \* a mutant: one predecessor stands for all
    {b} \cup doms[CHOOSE p \in graph.pred[b] \cap DOMAIN doms : TRUE]
NewDom(b) ==
    {b} \cup {d \in DOMAIN doms :
                 \A p \in graph.pred[b] \cap DOMAIN doms : d \in doms[p]}

Visit(b) ==
    /\ phase = "dominators"
    /\ b \in todo
    /\ doms' = [doms EXCEPT ![b] = NewDom(b)]
    /\ changed' = (changed \/ NewDom(b) # doms[b])
    /\ todo' = todo \ {b}
    /\ UNCHANGED <<items, phase, graph, edges, edge, body, worklist, loops>>

FindBackEdges ==
    /\ phase = "dominators"
    /\ todo = {} /\ ~ changed
    /\ edges' = {e \in (DOMAIN doms) \X (DOMAIN doms) :
                    e[2] \in graph.succ[e[1]] /\ e[2] \in doms[e[1]]}
    /\ phase' = "loops"
    /\ UNCHANGED <<items, graph, doms, todo, changed, edge, body, worklist, loops>>

StartLoopSelf(e) ==            \* a mutant: an edge to itself is no exception
    /\ phase = "loops" /\ edge = <<>>
    /\ e \in edges
    /\ edges' = edges \ {e}
    /\ edge' = e
    /\ body' = {e[1], e[2]}
    /\ worklist' = {e[1]}
    /\ UNCHANGED <<items, phase, graph, doms, todo, changed, loops>>
StartLoop(e) ==
    /\ phase = "loops" /\ edge = <<>>
    /\ e \in edges
    /\ edges' = edges \ {e}
    /\ edge' = e
    /\ body' = {e[1], e[2]}
    /\ worklist' = IF e[1] = e[2] THEN {} ELSE {e[1]}
    /\ UNCHANGED <<items, phase, graph, doms, todo, changed, loops>>

(* The predecessors of b that b brings into the loop.                      *)
NewInLoop(b) == graph.pred[b] \ (body \cup {edge[2]})
WalkBack(b) ==
    /\ b \in worklist
    /\ body' = body \cup NewInLoop(b)
    /\ worklist' = (worklist \ {b}) \cup NewInLoop(b)
    /\ UNCHANGED <<items, phase, graph, doms, todo, changed, edges, edge, loops>>

EndLoop ==
    /\ edge # <<>> /\ worklist = {}
    /\ loops' = loops \cup {<<edge[1], edge[2], body>>}
    /\ edge' = <<>>
    /\ body' = {}
    /\ UNCHANGED <<items, phase, graph, doms, todo, changed, edges, worklist>>

Finish ==
    /\ phase = "loops" /\ edge = <<>> /\ edges = {}
    /\ phase' = "done"
    /\ UNCHANGED <<items, graph, doms, todo, changed, edges, edge, body, worklist, loops>>

Next == \/ BuildFails \/ Build
        \/ Round \/ (\E b \in todo : Visit(b)) \/ FindBackEdges
        \/ (\E e \in edges : StartLoop(e)) \/ (\E b \in worklist : WalkBack(b))
        \/ EndLoop \/ Finish

Spec == Init /\ [][Next]_vars
FairSpec == Spec /\ WF_vars(Next)

-----------------------------------------------------------------------------
(* Properties.                                                             *)

Built == phase \notin {"build", "error"}

(* The blocks tell of execution neither less nor more than there is: an    *)
(* item is followed by what comes after it in its block, or it is the last *)
(* of its block and followed by the first items of the successors; the     *)
(* blocks cover the items (cfg.py 117-162, 193-242).                       *)
EdgesMatchExecution ==
    Built =>
      /\ \A k \in DOMAIN items : \E b \in DOMAIN graph.succ : k \in b..EndOf(b, items)
      /\ \A b \in DOMAIN graph.succ :
            \A k \in b..EndOf(b, items) :
                Follows(k, items) \ {Len(items) + 1} =
                    IF k = EndOf(b, items) THEN graph.succ[b] ELSE {k + 1}

(* While the iteration runs no dominator is ever lost, and when it ends a  *)
(* block is listed exactly if no path from the entry avoids it (cfg.py     *)
(* 66-84).                                                                 *)
Dominates(d, b) == b \notin ReachableFrom(Entry, graph.succ, {d})
DominatorsCorrect ==
    Built =>
      \A b, d \in Reachable :
          /\ Dominates(d, b) => d \in doms[b]
          /\ phase # "dominators" /\ d \in doms[b] => Dominates(d, b)

(* Every edge back to a block that dominates its start has its loop, and   *)
(* nothing else has: the header, and the blocks from which the start is    *)
(* reached past the header; of what can be reached, only the header is     *)
(* entered from outside (cfg.py 86-114).                                   *)
LoopsCorrect ==
    phase = "done" =>
      /\ loops = {<<e[1], e[2], NaturalLoop(e, graph)>> : e \in BackEdges(graph)}
      /\ \A l \in loops, b \in Reachable :
            b \notin l[3] => graph.succ[b] \cap l[3] \subseteq {l[2]}

(* The iteration reaches its fixpoint and the walks end.                   *)
Terminates == <>(phase \in {"done", "error"})

=============================================================================
