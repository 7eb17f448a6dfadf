-------------------------- MODULE CfgAnalysisProofs --------------------------
(***************************************************************************)
(* Proofs about CfgAnalysis, for every kernel and whatever the order in    *)
(* which blocks are visited.                                               *)
(*                                                                         *)
(* The argument.  A dominator is never dropped, because a path to a        *)
(* predecessor that avoids it goes on to the block (Kept).  What stays     *)
(* listed dominates: once a round has changed nothing all visited blocks   *)
(* satisfy the equation (Settled), so the blocks that do not list d are    *)
(* closed under the edges that avoid d.  The walk of a loop keeps to the   *)
(* blocks that reach the tail past the header, and what it has looked at   *)
(* has all its predecessors in the body (Walking); when nothing is left    *)
(* to look at, the blocks outside the body cannot reach the tail.          *)
(***************************************************************************)
EXTENDS CfgAnalysis, CfgProofs

Proper(g) ==
    /\ IsFiniteSet(DOMAIN g.succ)
    /\ Entry \in DOMAIN g.succ
    /\ g.succ \in [DOMAIN g.succ -> SUBSET DOMAIN g.succ]
    /\ g.pred \in [DOMAIN g.succ -> SUBSET DOMAIN g.succ]
    /\ \A b, p \in DOMAIN g.succ : p \in g.pred[b] <=> b \in g.succ[p]

LoopOf(e) == <<e[1], e[2], NaturalLoop(e, graph)>>
Current == IF edge = <<>> THEN {} ELSE {edge}

-----------------------------------------------------------------------------
(* The inductive invariant.                                                *)

GraphInv == ~ Malformed(items) /\ graph = Graph(items)

Kept == \A b, d \in Reachable : Dominates(d, b) => d \in doms[b]

Settled == ~ changed =>
    \A b \in Reachable \ ({Entry} \cup todo) : doms[b] = NewDom(b)

DomsInv ==
    /\ doms \in [Reachable -> SUBSET Reachable]
    /\ doms[Entry] = {Entry}
    /\ Kept
    /\ Settled
    /\ todo \subseteq Reachable \ {Entry}
    /\ phase # "dominators" => todo = {} /\ ~ changed

LoopsInv ==
    /\ edges \subseteq BackEdges(graph)
    /\ Current \subseteq BackEdges(graph)
    /\ loops \cup {LoopOf(e) : e \in edges \cup Current}
         = {LoopOf(e) : e \in BackEdges(graph)}
    /\ phase = "done" => edges = {} /\ edge = <<>>
    /\ edge = <<>> => worklist = {}

Walking ==
    edge # <<>> =>
      /\ {edge[1], edge[2]} \subseteq body
      /\ body \subseteq NaturalLoop(edge, graph)
      /\ worklist \subseteq body \ {edge[2]}
      /\ \A b \in body \ (worklist \cup {edge[2]}) : graph.pred[b] \subseteq body

IInv ==
    /\ items \in Inputs
    /\ phase \in {"build", "dominators", "loops", "done", "error"}
    /\ phase = "build" => todo = {} /\ changed
    /\ phase \in {"build", "dominators", "error"} =>
          edges = {} /\ edge = <<>> /\ loops = {} /\ worklist = {}
    /\ Built => GraphInv /\ DomsInv
    /\ phase \in {"loops", "done"} => LoopsInv /\ Walking

-----------------------------------------------------------------------------
(* Facts about graphs.                                                     *)

(* What build_cfg makes is a graph with its edges both ways.               *)
LEMMA ProperGraph ==
  ASSUME NEW its \in Inputs, ~ Malformed(its)
  PROVE  Proper(Graph(its))
<1>1. its \in Seq(Item) /\ its # <<>>
  BY InputsAssumption
<1>2. 1 \in Leaders(its) /\ IsFiniteSet(Leaders(its))
  BY <1>1, LeaderFacts
<1>3. /\ Graph(its).succ \in [Leaders(its) -> SUBSET Leaders(its)]
      /\ Graph(its).pred \in [Leaders(its) -> SUBSET Leaders(its)]
      /\ \A b, p \in Leaders(its) :
            p \in Graph(its).pred[b] <=> b \in Graph(its).succ[p]
  BY <1>1, GraphFacts
<1>4. DOMAIN Graph(its).succ = Leaders(its)
  BY <1>3
<1> QED BY <1>2, <1>3, <1>4 DEF Proper, Entry

(* Reachability, block by block.                                           *)
LEMMA ReachFacts ==
  ASSUME NEW g, Proper(g), NEW b \in DOMAIN g.succ, NEW avoided
  PROVE  LET S == ReachableFrom(b, g.succ, avoided)
         IN  /\ S \subseteq DOMAIN g.succ
             /\ \A c \in S : c \notin avoided
             /\ b \notin avoided => b \in S
             /\ \A c \in S : \A s \in g.succ[c] : s \notin avoided => s \in S
<1> DEFINE S == ReachableFrom(b, g.succ, avoided)
<1>1. /\ IsFiniteSet(DOMAIN g.succ)
      /\ g.succ \in [DOMAIN g.succ -> SUBSET DOMAIN g.succ]
  BY DEF Proper
<1>2. /\ S \subseteq DOMAIN g.succ \ avoided
      /\ b \notin avoided => b \in S
      /\ ClosedUnder(S, g.succ, avoided)
  BY <1>1, ReachableIsClosed
<1>3. \A c \in S : \A s \in g.succ[c] : s \notin avoided => s \in S
  BY <1>2 DEF ClosedUnder, Next1
<1> QED BY <1>2, <1>3

(* What holds of where one starts, and along every edge, holds of all that *)
(* is reached.                                                             *)
LEMMA ReachLeast ==
  ASSUME NEW g, Proper(g), NEW b \in DOMAIN g.succ, NEW avoided, NEW C,
         b \notin avoided => b \in C,
         \A c \in C : \A s \in g.succ[c] : s \notin avoided => s \in C
  PROVE  ReachableFrom(b, g.succ, avoided) \subseteq C
<1>1. IsFiniteSet(DOMAIN g.succ)
  BY DEF Proper
<1>2. ClosedUnder(C, g.succ, avoided)
  BY DEF ClosedUnder, Next1
<1> QED BY <1>1, <1>2, ReachableIsLeast

(* What avoids a block is reachable in any case.                           *)
LEMMA AvoidingIsReachable ==
  ASSUME NEW g, Proper(g), NEW avoided
  PROVE  ReachableFrom(Entry, g.succ, avoided) \subseteq ReachableFrom(Entry, g.succ, {})
<1> DEFINE Reached == ReachableFrom(Entry, g.succ, {})
<1>1. Entry \in DOMAIN g.succ
  BY DEF Proper
<1>2. Entry \in Reached /\ \A c \in Reached : \A s \in g.succ[c] : s \in Reached
  BY <1>1, ReachFacts
<1> HIDE DEF Reached
<1>3. ReachableFrom(Entry, g.succ, avoided) \subseteq Reached
  BY <1>1, <1>2, ReachLeast
<1> QED BY <1>3 DEF Reached

(* The graph of a state in which it is built.                              *)
LEMMA StateGraph ==
  ASSUME items \in Inputs, GraphInv
  PROVE  /\ Proper(graph)
         /\ Entry \in Reachable
         /\ Reachable \subseteq DOMAIN graph.succ
         /\ \A c \in Reachable : graph.succ[c] \subseteq Reachable
<1>1. Proper(graph)
  BY ProperGraph DEF GraphInv
<1>2. Entry \in DOMAIN graph.succ
  BY <1>1 DEF Proper
<1> QED BY <1>1, <1>2, ReachFacts DEF Reachable

-----------------------------------------------------------------------------
(* Dominators.                                                             *)

(* A block that dominates b is in what the equation makes of b.            *)
LEMMA NewDomKeeps ==
  ASSUME items \in Inputs, GraphInv, DOMAIN doms = Reachable, Kept,
         NEW b \in Reachable, NEW d \in Reachable, Dominates(d, b)
  PROVE  d \in NewDom(b)
<1> SUFFICES ASSUME d # b, NEW p \in graph.pred[b] \cap DOMAIN doms
             PROVE  d \in doms[p]
  BY DEF NewDom
<1>1. /\ Proper(graph) /\ Reachable \subseteq DOMAIN graph.succ
      /\ Entry \in DOMAIN graph.succ
  BY StateGraph
<1>2. p \in Reachable /\ b \in graph.succ[p]
  BY <1>1 DEF Proper
<1>3. Dominates(d, p)
  <2> SUFFICES ASSUME ~ Dominates(d, p) PROVE FALSE
    OBVIOUS
  <2>1. p \in ReachableFrom(Entry, graph.succ, {d})
    BY DEF Dominates
  <2>2. b \in ReachableFrom(Entry, graph.succ, {d})
    BY <2>1, <1>1, <1>2, ReachFacts
  <2> QED BY <2>2 DEF Dominates
<1> QED BY <1>2, <1>3 DEF Kept

(* The sets a round starts from keep every dominator.                      *)
LEMMA EntryDominatedByItself ==
  ASSUME NEW g, Proper(g), NEW d, Entry \notin ReachableFrom(Entry, g.succ, {d})
  PROVE  d = Entry
<1>1. Entry \in DOMAIN g.succ
  BY DEF Proper
<1> QED BY <1>1, ReachFacts

(* When all blocks satisfy the equation, what is listed dominates.         *)
LEMMA SettledDominates ==
  ASSUME items \in Inputs, GraphInv,
         doms \in [Reachable -> SUBSET Reachable], doms[Entry] = {Entry},
         \A b \in Reachable \ {Entry} : doms[b] = NewDom(b),
         NEW b \in Reachable, NEW d \in doms[b]
  PROVE  Dominates(d, b)
<1> DEFINE C == {c \in Reachable : d \notin doms[c]}
<1>1. /\ Proper(graph) /\ Entry \in Reachable
      /\ Reachable \subseteq DOMAIN graph.succ
      /\ \A c \in Reachable : graph.succ[c] \subseteq Reachable
  BY StateGraph
<1>2. Entry \notin {d} => Entry \in C
  BY <1>1
<1>3. ASSUME NEW c \in C, NEW s \in graph.succ[c], s \notin {d}
      PROVE  s \in C
  <2>1. s \in Reachable /\ c \in Reachable
    BY <1>1
  <2>2. CASE s = Entry
    BY <1>3, <2>1, <2>2
  <2>3. CASE s # Entry
    <3>1. doms[s] = NewDom(s)
      BY <2>1, <2>3
    <3>2. c \in graph.pred[s] \cap DOMAIN doms
      BY <1>1, <2>1 DEF Proper
    <3>3. d \notin NewDom(s)
      BY <1>3, <3>2 DEF NewDom
    <3> QED BY <2>1, <3>1, <3>3
  <2> QED BY <2>2, <2>3
<1>4. ReachableFrom(Entry, graph.succ, {d}) \subseteq C
  <2> HIDE DEF C
  <2> QED BY SMTT(60), <1>1, <1>2, <1>3, ReachLeast
<1> QED BY <1>4 DEF Dominates

(* Then the edges back to a listed dominator are the edges back to one.    *)
LEMMA ListedBackEdges ==
  ASSUME items \in Inputs, GraphInv, DomsInv, todo = {}, ~ changed
  PROVE  {e \in (DOMAIN doms) \X (DOMAIN doms) :
             e[2] \in graph.succ[e[1]] /\ e[2] \in doms[e[1]]} = BackEdges(graph)
<1>1. DOMAIN doms = Reachable
  BY DEF DomsInv
<1>2. \A b \in Reachable \ {Entry} : doms[b] = NewDom(b)
  BY DEF DomsInv, Settled
<1>3. \A b, d \in Reachable : d \in doms[b] <=> Dominates(d, b)
  BY <1>2, SettledDominates DEF DomsInv, Kept
<1>4. BackEdges(graph) = {e \in Reachable \X Reachable :
          e[2] \in graph.succ[e[1]] /\ Dominates(e[2], e[1])}
  BY DEF BackEdges, Reachable, Dominates, Entry
<1>5. \A e \in Reachable \X Reachable :
          e[2] \in doms[e[1]] <=> Dominates(e[2], e[1])
  BY <1>3
<1> QED BY <1>1, <1>4, <1>5

-----------------------------------------------------------------------------
(* Loops.                                                                  *)

(* A back edge and its loop.                                               *)
LEMMA BackEdgeFacts ==
  ASSUME items \in Inputs, GraphInv, NEW e \in BackEdges(graph)
  PROVE  /\ e # <<>> /\ e = <<e[1], e[2]>>
         /\ e[1] \in Reachable /\ e[2] \in Reachable
         /\ {e[1], e[2]} \subseteq NaturalLoop(e, graph)
<1>1. /\ e \in Reachable \X Reachable
  BY DEF BackEdges, Reachable, Entry
<1>2. e # <<>> /\ e = <<e[1], e[2]>> /\ e[1] \in Reachable /\ e[2] \in Reachable
  BY <1>1
<1>3. Proper(graph) /\ e[1] \in DOMAIN graph.succ
  BY <1>2, StateGraph
<1>4. \A h : e[1] # h => e[1] \in ReachableFrom(e[1], graph.succ, {h})
  BY <1>3, ReachFacts
<1> QED BY <1>2, <1>3, <1>4 DEF NaturalLoop

(* What has an edge to a block of the loop that is not its header belongs  *)
(* to the loop.                                                            *)
LEMMA PredecessorsInLoop ==
  ASSUME NEW g, Proper(g), NEW e, NEW b \in NaturalLoop(e, g), b # e[2],
         NEW p \in DOMAIN g.succ, b \in g.succ[p]
  PROVE  p \in NaturalLoop(e, g)
<1> SUFFICES ASSUME p # e[2]
             PROVE  e[1] \in ReachableFrom(p, g.succ, {e[2]})
  BY DEF NaturalLoop
<1>1. b \in DOMAIN g.succ /\ e[1] \in ReachableFrom(b, g.succ, {e[2]})
  BY DEF NaturalLoop
<1> DEFINE h == e[2]
           P == ReachableFrom(p, g.succ, {h})
<1>2. b # h /\ p # h /\ e[1] \in ReachableFrom(b, g.succ, {h})
  BY <1>1
<1> HIDE DEF h
<1>3. p \in P /\ \A c \in P : \A s \in g.succ[c] : s \notin {h} => s \in P
  BY <1>2, ReachFacts
<1>4. b \in P
  BY <1>2, <1>3
<1>5. ReachableFrom(b, g.succ, {h}) \subseteq P
  <2> HIDE DEF P
  <2> QED BY <1>1, <1>3, <1>4, ReachLeast
<1> QED BY <1>2, <1>5 DEF h

(* A body that has all predecessors of its blocks but the header's is all  *)
(* of the loop.                                                            *)
LEMMA ClosedBodyIsLoop ==
  ASSUME NEW g, Proper(g), NEW e, NEW B, {e[1], e[2]} \subseteq B,
         B \subseteq NaturalLoop(e, g),
         \A b \in B \ {e[2]} : g.pred[b] \subseteq B,
         NaturalLoop(e, g) \subseteq DOMAIN g.succ
  PROVE  B = NaturalLoop(e, g)
<1> SUFFICES ASSUME NEW b \in NaturalLoop(e, g), b \notin B PROVE FALSE
  OBVIOUS
<1> DEFINE C == DOMAIN g.succ \ B
           h == e[2]
<1>1. b \in DOMAIN g.succ /\ e[1] \in ReachableFrom(b, g.succ, {h})
  BY DEF NaturalLoop
<1>2. ASSUME NEW c \in C, NEW s \in g.succ[c], s \notin {h}
      PROVE  s \in C
  <2>1. s \in DOMAIN g.succ
    BY DEF Proper
  <2>2. c \in g.pred[s]
    BY <2>1 DEF Proper
  <2> QED BY <2>1, <2>2, <1>2
<1>3. ReachableFrom(b, g.succ, {h}) \subseteq C
  <2>1. b \in C
    BY <1>1
  <2> HIDE DEF C, h
  <2> QED BY <1>1, <1>2, <2>1, ReachLeast
<1> QED BY <1>1, <1>3

-----------------------------------------------------------------------------
(* Steps.                                                                  *)

(* A step that leaves the kernel alone leaves its graph alone.             *)
LEMMA SameGraph ==
  ASSUME UNCHANGED <<items, graph>>
  PROVE  /\ GraphInv' <=> GraphInv
         /\ Reachable' = Reachable
         /\ \A d, b : Dominates(d, b)' <=> Dominates(d, b)
         /\ \A e : LoopOf(e)' = LoopOf(e)
BY DEF GraphInv, Reachable, Dominates, LoopOf

(* And with the listed dominators it leaves the edges back alone.          *)
LEMMA SameDoms ==
  ASSUME DomsInv, UNCHANGED <<items, graph, doms, todo, changed>>,
         phase' # "dominators" => todo = {} /\ ~ changed
  PROVE  DomsInv'
<1>1. Reachable' = Reachable /\ \A d, b : Dominates(d, b)' <=> Dominates(d, b)
  BY SameGraph
<1>2. Kept'
  BY <1>1 DEF DomsInv, Kept
<1>3. Settled'
  BY <1>1 DEF DomsInv, Settled, NewDom
<1> QED BY <1>1, <1>2, <1>3 DEF DomsInv

(* Before anything is built the invariant holds.                           *)
LEMMA InitIInv == Init => IInv
BY DEF Init, IInv, Built

(* A kernel that is refused is not analysed.                               *)
LEMMA BuildFailsStep == IInv /\ BuildFails => IInv'
BY DEF IInv, BuildFails, Built

(* Building the graph.                                                     *)
LEMMA BuildStep == IInv /\ Build => IInv'
<1> SUFFICES ASSUME IInv, Build PROVE IInv'
  OBVIOUS
<1>1. /\ items' = items /\ items' \in Inputs /\ phase' = "dominators"
      /\ todo' = {} /\ changed' /\ edges' = {} /\ edge' = <<>> /\ loops' = {}
      /\ worklist' = {}
  BY DEF IInv, Build
<1>2. GraphInv'
  BY DEF Build, GraphInv
<1>3. /\ Proper(graph') /\ Entry \in Reachable'
  BY <1>1, <1>2, ProperGraph, ReachFacts DEF GraphInv, Reachable, Proper
<1>4. doms' = [b \in Reachable' |-> IF b = Entry THEN {Entry} ELSE Reachable']
  BY DEF Build, Reachable, Entry
<1>5. Kept'
  <2> SUFFICES ASSUME NEW b \in Reachable', NEW d \in Reachable', Dominates(d, b)'
               PROVE  d \in doms'[b]
    BY DEF Kept
  <2>1. CASE b = Entry
    <3>1. Entry \notin ReachableFrom(Entry, graph'.succ, {d})
      BY <2>1 DEF Dominates
    <3>2. d = Entry
      BY <3>1, <1>3, EntryDominatedByItself
    <3> QED BY <3>2, <2>1, <1>4
  <2>2. CASE b # Entry
    BY <2>2, <1>4
  <2> QED BY <2>1, <2>2
<1>6. DomsInv'
  <2>1. doms' \in [Reachable' -> SUBSET Reachable'] /\ doms'[Entry] = {Entry}
    BY <1>3, <1>4
  <2> QED BY <2>1, <1>1, <1>5 DEF DomsInv, Settled
<1> QED BY <1>1, <1>2, <1>6 DEF IInv

(* Beginning a round over the blocks.                                      *)
LEMMA RoundStep == IInv /\ Round => IInv'
<1> SUFFICES ASSUME IInv, Round PROVE IInv'
  OBVIOUS
<1>1. GraphInv /\ DomsInv /\ phase = "dominators"
  BY DEF IInv, Round, Built
<1>2. /\ UNCHANGED <<items, graph, doms, phase, edges, edge, worklist, loops>>
      /\ todo' = Reachable \ {Entry}
  BY DEF Round
<1>3. GraphInv' /\ Reachable' = Reachable /\ \A d, b : Dominates(d, b)' <=> Dominates(d, b)
  BY <1>1, <1>2, SameGraph
<1>4. Kept' /\ Settled'
  BY <1>1, <1>2, <1>3 DEF DomsInv, Kept, Settled
<1>5. DomsInv'
  BY <1>1, <1>2, <1>3, <1>4 DEF DomsInv
<1> QED BY <1>1, <1>2, <1>3, <1>5 DEF IInv

(* Recomputing the dominators of one block.                                *)
LEMMA VisitStep == ASSUME IInv, NEW b \in todo, Visit(b) PROVE IInv'
<1>1. GraphInv /\ DomsInv /\ phase = "dominators" /\ items \in Inputs
  BY DEF IInv, Visit, Built
<1>2. /\ UNCHANGED <<items, graph, phase, edges, edge, worklist, loops>>
      /\ todo' = todo \ {b}
      /\ doms' = [doms EXCEPT ![b] = NewDom(b)]
      /\ changed' = (changed \/ NewDom(b) # doms[b])
  BY DEF Visit
<1>3. GraphInv' /\ Reachable' = Reachable /\ \A d, c : Dominates(d, c)' <=> Dominates(d, c)
  BY <1>1, <1>2, SameGraph
<1>4. /\ doms \in [Reachable -> SUBSET Reachable] /\ b \in Reachable \ {Entry}
      /\ doms[Entry] = {Entry} /\ Kept /\ Settled
      /\ todo \subseteq Reachable \ {Entry}
  BY <1>1 DEF DomsInv
<1>5. doms' \in [Reachable -> SUBSET Reachable] /\ doms'[Entry] = {Entry}
  <2>1. NewDom(b) \subseteq Reachable
    BY <1>4 DEF NewDom
  <2> QED BY <2>1, <1>2, <1>4
<1>6. Kept'
  <2> SUFFICES ASSUME NEW c \in Reachable, NEW d \in Reachable, Dominates(d, c)
               PROVE  d \in doms'[c]
    BY <1>3 DEF Kept
  <2>1. CASE c = b
    <3>1. d \in NewDom(b)
      BY <2>1, <1>1, <1>4, NewDomKeeps
    <3> QED BY <3>1, <2>1, <1>2, <1>4
  <2>2. CASE c # b
    <3>1. d \in doms[c]
      BY <1>4 DEF Kept
    <3> QED BY <3>1, <2>2, <1>2, <1>4
  <2> QED BY <2>1, <2>2
<1>7. Settled'
  <2> SUFFICES ASSUME ~ changed', NEW c \in Reachable \ ({Entry} \cup todo')
               PROVE  doms'[c] = NewDom(c)'
    BY <1>3 DEF Settled
  <2>1. ~ changed /\ NewDom(b) = doms[b]
    BY <1>2
  <2>2. doms' = doms
    BY <2>1, <1>2, <1>4
  <2>3. NewDom(c)' = NewDom(c)
    BY <2>2, <1>2 DEF NewDom
  <2>4. doms[c] = NewDom(c)
    <3>1. CASE c = b
      BY <3>1, <2>1
    <3>2. CASE c # b
      BY <3>2, <2>1, <1>2, <1>4 DEF Settled
    <3> QED BY <3>1, <3>2
  <2> QED BY <2>2, <2>3, <2>4
<1>8. DomsInv'
  BY <1>1, <1>2, <1>3, <1>4, <1>5, <1>6, <1>7 DEF DomsInv
<1> QED BY <1>1, <1>2, <1>3, <1>8 DEF IInv

(* The round that changed nothing has found the dominators: now the edges  *)
(* back.                                                                   *)
LEMMA FindBackEdgesStep == IInv /\ FindBackEdges => IInv'
<1> SUFFICES ASSUME IInv, FindBackEdges PROVE IInv'
  OBVIOUS
<1>1. /\ GraphInv /\ DomsInv /\ items \in Inputs /\ todo = {} /\ ~ changed
      /\ edge = <<>> /\ loops = {} /\ worklist = {}
  BY DEF IInv, FindBackEdges, Built
<1>2. /\ UNCHANGED <<items, graph, doms, todo, changed, edge, worklist, loops>>
      /\ phase' = "loops"
  BY DEF FindBackEdges
<1>3. edges' = BackEdges(graph)
  BY <1>1, ListedBackEdges DEF FindBackEdges
<1>4. GraphInv' /\ DomsInv'
  BY <1>1, <1>2, SameGraph, SameDoms
<1>5. LoopsInv'
  <2>1. \A e : LoopOf(e)' = LoopOf(e)
    BY <1>2, SameGraph
  <2>2. Current' = {}
    BY <1>1, <1>2 DEF Current
  <2>3. loops' = {} /\ edges' = BackEdges(graph') /\ worklist' = {}
    BY <1>1, <1>2, <1>3
  <2> QED BY <2>1, <2>2, <2>3, <1>2 DEF LoopsInv
<1>6. Walking'
  BY <1>1, <1>2 DEF Walking
<1> QED BY <1>1, <1>2, <1>4, <1>5, <1>6 DEF IInv

(* Taking up an edge back.                                                 *)
LEMMA StartLoopStep == ASSUME IInv, NEW e \in edges, StartLoop(e) PROVE IInv'
<1>1. /\ GraphInv /\ DomsInv /\ LoopsInv /\ items \in Inputs
      /\ phase = "loops" /\ edge = <<>>
  BY DEF IInv, StartLoop, Built
<1>2. /\ UNCHANGED <<items, phase, graph, doms, todo, changed, loops>>
      /\ edges' = edges \ {e} /\ edge' = e /\ body' = {e[1], e[2]}
      /\ worklist' = IF e[1] = e[2] THEN {} ELSE {e[1]}
  BY DEF StartLoop
<1>3. GraphInv' /\ DomsInv' /\ \A x : LoopOf(x)' = LoopOf(x)
  BY <1>1, <1>2, SameGraph, SameDoms DEF DomsInv
<1>4. /\ e \in BackEdges(graph) /\ e # <<>>
      /\ {e[1], e[2]} \subseteq NaturalLoop(e, graph)
  BY <1>1, BackEdgeFacts DEF LoopsInv
<1>5. LoopsInv'
  <2>1. Current' = {e} /\ Current = {}
    BY <1>1, <1>2, <1>4 DEF Current
  <2>2. edges' \cup Current' = edges \cup Current
    BY <1>2, <2>1
  <2> QED BY <2>1, <2>2, <1>1, <1>2, <1>3, <1>4 DEF LoopsInv
<1>6. Walking'
  <2>1. worklist' \subseteq body' \ {e[2]}
    BY <1>2
  <2>2. body' \ (worklist' \cup {e[2]}) = {}
    BY <1>2
  <2> QED BY <2>1, <2>2, <1>2, <1>4 DEF Walking
<1> QED BY <1>1, <1>2, <1>3, <1>5, <1>6 DEF IInv

(* Taking one block from the worklist: its predecessors join the loop.     *)
LEMMA WalkBackStep == ASSUME IInv, NEW b \in worklist, WalkBack(b) PROVE IInv'
<1>1. /\ GraphInv /\ DomsInv /\ LoopsInv /\ Walking /\ items \in Inputs
      /\ phase \in {"loops", "done"}
  BY DEF IInv, Built
<1>2. edge # <<>> /\ edge \in BackEdges(graph) /\ phase = "loops"
  BY <1>1 DEF LoopsInv, Current
<1>3. /\ UNCHANGED <<items, phase, graph, doms, todo, changed, edges, edge, loops>>
      /\ body' = body \cup NewInLoop(b)
      /\ worklist' = (worklist \ {b}) \cup NewInLoop(b)
  BY DEF WalkBack
<1>4. GraphInv' /\ DomsInv' /\ \A x : LoopOf(x)' = LoopOf(x)
  BY <1>1, <1>2, <1>3, SameGraph, SameDoms DEF DomsInv
<1>5. LoopsInv'
  <2>1. Current' = Current
    BY <1>3 DEF Current
  <2> QED BY <2>1, <1>1, <1>2, <1>3, <1>4 DEF LoopsInv
<1>6. Walking'
  <2>1. /\ {edge[1], edge[2]} \subseteq body
        /\ body \subseteq NaturalLoop(edge, graph)
        /\ worklist \subseteq body \ {edge[2]}
        /\ \A c \in body \ (worklist \cup {edge[2]}) : graph.pred[c] \subseteq body
    BY <1>1, <1>2 DEF Walking
  <2>2. Proper(graph)
    BY <1>1, StateGraph
  <2>3. NaturalLoop(edge, graph) \subseteq DOMAIN graph.succ
    BY <1>1, <1>2, BackEdgeFacts, StateGraph DEF NaturalLoop
  <2>4. NewInLoop(b) \subseteq NaturalLoop(edge, graph)
    <3> SUFFICES ASSUME NEW p \in graph.pred[b]
                 PROVE  p \in NaturalLoop(edge, graph)
      BY DEF NewInLoop
    <3>1. b \in NaturalLoop(edge, graph) /\ b # edge[2] /\ b \in DOMAIN graph.succ
      BY <2>1, <2>3
    <3>2. p \in DOMAIN graph.succ /\ b \in graph.succ[p]
      BY <3>1, <2>2 DEF Proper
    <3> QED BY <3>1, <3>2, <2>2, PredecessorsInLoop
  <2>5. body' \subseteq NaturalLoop(edge, graph)
    BY <2>1, <2>4, <1>3
  <2>6. worklist' \subseteq body' \ {edge[2]}
    BY <2>1, <1>3 DEF NewInLoop
  <2>7. ASSUME NEW c \in body' \ (worklist' \cup {edge[2]})
        PROVE  graph.pred[c] \subseteq body'
    <3>1. c \in body /\ c \notin worklist \ {b}
      BY <2>7, <1>3
    <3>2. CASE c = b
      BY <3>2, <2>1, <1>3 DEF NewInLoop
    <3>3. CASE c # b
      BY <3>1, <3>3, <2>1, <2>7, <1>3
    <3> QED BY <3>2, <3>3
  <2>8. {edge[1], edge[2]} \subseteq body'
    BY <2>1, <1>3
  <2> QED BY <2>5, <2>6, <2>7, <2>8, <1>3 DEF Walking
<1> QED BY <1>1, <1>2, <1>3, <1>4, <1>5, <1>6 DEF IInv

(* The worklist is empty: the loop is complete.                            *)
LEMMA EndLoopStep == IInv /\ EndLoop => IInv'
<1> SUFFICES ASSUME IInv, EndLoop PROVE IInv'
  OBVIOUS
<1>1. /\ edge # <<>> /\ worklist = {}
      /\ UNCHANGED <<items, phase, graph, doms, todo, changed, edges, worklist>>
      /\ loops' = loops \cup {<<edge[1], edge[2], body>>}
      /\ edge' = <<>>
  BY DEF EndLoop
<1>2. phase \in {"loops", "done"}
  BY <1>1 DEF IInv
<1>3. /\ GraphInv /\ DomsInv /\ LoopsInv /\ Walking /\ items \in Inputs
      /\ phase = "loops"
  BY <1>1, <1>2 DEF IInv, Built, LoopsInv
<1>4. GraphInv' /\ DomsInv' /\ \A x : LoopOf(x)' = LoopOf(x)
  BY <1>1, <1>3, SameGraph, SameDoms DEF DomsInv
<1>5. body = NaturalLoop(edge, graph)
  <2>1. /\ {edge[1], edge[2]} \subseteq body
        /\ body \subseteq NaturalLoop(edge, graph)
        /\ \A b \in body \ {edge[2]} : graph.pred[b] \subseteq body
    BY <1>1, <1>3 DEF Walking
  <2>2. edge \in BackEdges(graph)
    BY <1>1, <1>3 DEF LoopsInv, Current
  <2>3. Proper(graph)
    BY <1>3, StateGraph
  <2>4. NaturalLoop(edge, graph) \subseteq DOMAIN graph.succ
    BY <2>2, <1>3, BackEdgeFacts, StateGraph DEF NaturalLoop
  <2> QED BY <2>1, <2>3, <2>4, ClosedBodyIsLoop
<1>6. LoopsInv'
  <2>1. Current = {edge} /\ Current' = {}
    BY <1>1 DEF Current
  <2>2. loops' = loops \cup {LoopOf(edge)}
    BY <1>1, <1>5 DEF LoopOf
  <2>3. loops' \cup {LoopOf(e) : e \in edges} = loops \cup {LoopOf(e) : e \in edges \cup {edge}}
    BY <2>2
  <2> QED BY <2>1, <2>3, <1>1, <1>3, <1>4 DEF LoopsInv
<1>7. Walking'
  BY <1>1 DEF Walking
<1> QED BY <1>1, <1>3, <1>4, <1>6, <1>7 DEF IInv

(* All edges back are done.                                                *)
LEMMA FinishStep == IInv /\ Finish => IInv'
<1> SUFFICES ASSUME IInv, Finish PROVE IInv'
  OBVIOUS
<1>1. /\ phase = "loops" /\ edge = <<>> /\ edges = {} /\ phase' = "done"
      /\ UNCHANGED <<items, graph, doms, todo, changed, edges, edge, body, worklist, loops>>
  BY DEF Finish
<1>2. GraphInv /\ DomsInv /\ LoopsInv /\ Walking /\ items \in Inputs
  BY <1>1 DEF IInv, Built
<1>3. GraphInv' /\ DomsInv' /\ \A x : LoopOf(x)' = LoopOf(x)
  BY <1>1, <1>2, SameGraph, SameDoms DEF DomsInv
<1>4. LoopsInv' /\ Walking'
  BY <1>1, <1>2, <1>3 DEF LoopsInv, Walking, Current
<1> QED BY <1>1, <1>2, <1>3, <1>4 DEF IInv

(* No step breaks the invariant.                                           *)
LEMMA NextKeepsIInv == IInv /\ [Next]_vars => IInv'
<1> SUFFICES ASSUME IInv, [Next]_vars PROVE IInv'
  OBVIOUS
<1>1. CASE UNCHANGED vars
  <2>1. UNCHANGED <<items, phase, graph, doms, todo, changed, edges, edge, body,
                    worklist, loops>>
    BY <1>1 DEF vars
  <2>2. /\ GraphInv' <=> GraphInv
        /\ \A x : LoopOf(x)' = LoopOf(x)
    BY <2>1, SameGraph
  <2>3. DomsInv => DomsInv'
    BY <2>1, SameDoms DEF DomsInv
  <2>4. /\ LoopsInv => LoopsInv'
        /\ Walking => Walking'
    BY <2>1, <2>2 DEF LoopsInv, Walking, Current
  <2> QED BY <2>1, <2>2, <2>3, <2>4 DEF IInv, Built
<1>2. CASE Next
  BY <1>2, BuildFailsStep, BuildStep, RoundStep, VisitStep, FindBackEdgesStep,
     StartLoopStep, WalkBackStep, EndLoopStep, FinishStep DEF Next
<1> QED BY <1>1, <1>2

-----------------------------------------------------------------------------
(* The theorems.                                                           *)

(* The inductive invariant holds throughout: dominators are kept while the *)
(* iteration runs, the loops found and those still to be found are those   *)
(* of the back edges, and the walk stays within the loop it looks for      *)
(* (cfg.py 66-114).                                                        *)
THEOREM Invariant == Spec => []IInv
BY InitIInv, NextKeepsIInv, PTL DEF Spec

(* Blocks and edges tell exactly what can follow what when the kernel      *)
(* runs, for every kernel (build_cfg, cfg.py 117-162 and 193-242).         *)
THEOREM EdgesMatchExecutionHolds == Spec => []EdgesMatchExecution
<1>1. IInv => EdgesMatchExecution
  <2> SUFFICES ASSUME IInv, Built PROVE EdgesMatchExecution
    BY DEF EdgesMatchExecution
  <2>1. GraphInv /\ items \in Seq(Item) /\ items # <<>>
    BY InputsAssumption DEF IInv
  <2>2. /\ ~ Malformed(items)
        /\ graph.succ = [b \in Leaders(items) |-> Successors(b, items)]
        /\ DOMAIN graph.succ = Leaders(items)
    BY <2>1, GraphFacts DEF GraphInv
  <2>3. \A k \in DOMAIN items : \E b \in DOMAIN graph.succ : k \in b..EndOf(b, items)
    BY <2>1, <2>2, BlocksCover
  <2>4. \A b \in DOMAIN graph.succ : \A k \in b..EndOf(b, items) :
            Follows(k, items) \ {Len(items) + 1} =
                IF k = EndOf(b, items) THEN graph.succ[b] ELSE {k + 1}
    BY <2>1, <2>2, FollowsFacts
  <2> QED BY <2>3, <2>4 DEF EdgesMatchExecution
<1> QED BY <1>1, Invariant, PTL

(* No dominator is lost while the iteration runs, in whatever order it     *)
(* visits the blocks, and at its fixpoint the listed blocks are exactly    *)
(* those no path from the entry avoids (cfg.py 66-84).                     *)
THEOREM DominatorsCorrectHolds == Spec => []DominatorsCorrect
<1>1. IInv => DominatorsCorrect
  <2> SUFFICES ASSUME IInv, Built, NEW b \in Reachable, NEW d \in Reachable
               PROVE  /\ Dominates(d, b) => d \in doms[b]
                      /\ phase # "dominators" /\ d \in doms[b] => Dominates(d, b)
    BY DEF DominatorsCorrect
  <2>1. items \in Inputs /\ GraphInv /\ DomsInv
    BY DEF IInv
  <2>2. Dominates(d, b) => d \in doms[b]
    BY <2>1 DEF DomsInv, Kept
  <2>3. ASSUME phase # "dominators", d \in doms[b] PROVE Dominates(d, b)
    <3>1. \A c \in Reachable \ {Entry} : doms[c] = NewDom(c)
      BY <2>1, <2>3 DEF DomsInv, Settled
    <3> QED BY <3>1, <2>1, <2>3, SettledDominates DEF DomsInv
  <2> QED BY <2>2, <2>3
<1> QED BY <1>1, Invariant, PTL

(* When it is done, the loops are the natural loops of the edges back to a *)
(* dominator, no more and no fewer, and only their headers are entered     *)
(* from outside (cfg.py 86-114).                                           *)
THEOREM LoopsCorrectHolds == Spec => []LoopsCorrect
<1>1. IInv => LoopsCorrect
  <2> SUFFICES ASSUME IInv, phase = "done" PROVE LoopsCorrect
    BY DEF LoopsCorrect
  <2>1. items \in Inputs /\ GraphInv /\ LoopsInv
    BY DEF IInv, Built
  <2>2. loops = {LoopOf(e) : e \in BackEdges(graph)}
    BY <2>1 DEF LoopsInv, Current
  <2>3. ASSUME NEW l \in loops, NEW b \in Reachable, b \notin l[3],
               NEW s \in graph.succ[b], s \in l[3]
        PROVE  s = l[2]
    <3>1. PICK e \in BackEdges(graph) : l = <<e[1], e[2], NaturalLoop(e, graph)>>
      BY <2>2 DEF LoopOf
    <3>2. l[2] = e[2] /\ l[3] = NaturalLoop(e, graph)
      BY <3>1
    <3>3. Proper(graph) /\ b \in DOMAIN graph.succ
      BY <2>1, StateGraph
    <3> QED BY <3>2, <3>3, <2>3, PredecessorsInLoop
  <2> QED BY <2>2, <2>3 DEF LoopsCorrect, LoopOf
<1> QED BY <1>1, Invariant, PTL

=============================================================================
