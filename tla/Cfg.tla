--------------------------------- MODULE Cfg ---------------------------------
(***************************************************************************)
(* build_cfg of analysis/cfg.py: the basic blocks of a kernel's items and  *)
(* the edges between them.  A block is known by its leader, the position   *)
(* of its first item; the code names it after a label, "entry" or          *)
(* "block_<n>", and a label is taken not to be such a name.                *)
(***************************************************************************)
EXTENDS Ptx, FiniteSets

Positions(its, ops) == {k \in DOMAIN its : its[k].op \in ops}

(* What makes build_cfg raise CFGError.                                    *)
DuplicateLabel(its) ==
    \E j, k \in Positions(its, {"label"}) : j # k /\ its[j].lbl = its[k].lbl
UndefinedTarget(its) ==
    \E j \in Positions(its, {"bra"}) :
        \A k \in Positions(its, {"label"}) : its[j].lbl # its[k].lbl
Malformed(its) == DuplicateLabel(its) \/ UndefinedTarget(its)

LabelAt(l, its) == CHOOSE k \in Positions(its, {"label"}) : its[k].lbl = l

LeadersNoFollows(its) == {1} \cup Positions(its, {"label"})      \* a mutant
Leaders(its) ==
    {1} \cup Positions(its, {"label"})
        \cup {k \in 2..Len(its) : its[k - 1].op \in {"bra", "ret"}}

(* The last position of the block that starts at b.                        *)
EndOf(b, its) ==
    LET leaders == Leaders(its)
    IN  CHOOSE e \in b..Len(its) :
            /\ \A k \in (b + 1)..e : k \notin leaders
            /\ e = Len(its) \/ e + 1 \in leaders
BlockOf(k, its) ==
    LET leaders == Leaders(its)
    IN  CHOOSE b \in leaders : b <= k /\ \A c \in leaders : c <= k => c <= b

(* A conditional branch goes on to the next block as well, if there is one;*)
(* a return goes nowhere.                                                  *)
FallsThroughAlways(i) == i.op # "ret"    \* a mutant: a jump falls through
FallsThrough(i) == i.op # "ret" /\ (i.op = "bra" => i.guard)
Successors(b, its) ==
    LET e == EndOf(b, its)
    IN  (IF its[e].op = "bra" THEN {LabelAt(its[e].lbl, its)} ELSE {})
          \cup (IF e < Len(its) /\ FallsThrough(its[e]) THEN {e + 1} ELSE {})

(* Where control can go from an item when the kernel runs; the position    *)
(* after the last item is the end.                                         *)
Follows(k, its) ==
    LET i == its[k]
    IN  {n \in DOMAIN its : i.op = "bra" /\ its[n].op = "label" /\ its[n].lbl = i.lbl}
          \cup (IF i.op = "ret" THEN {Len(its) + 1}
                ELSE IF i.op = "bra" /\ ~ i.guard THEN {} ELSE {k + 1})

(* The graph as a whole.                                                   *)
Graph(its) ==
    LET succ == [b \in Leaders(its) |-> Successors(b, its)]
    IN  [succ |-> succ,
         pred |-> [b \in Leaders(its) |-> {p \in Leaders(its) : b \in succ[p]}]]

(* What can be reached from a block without going through any of avoided.  *)
ReachableFrom(b, succ, avoided) ==
    LET Within[n \in 0..Cardinality(DOMAIN succ)] ==
            IF n = 0 THEN {b} \ avoided
            ELSE LET nearer == Within[n - 1]
                 IN  nearer \cup ((UNION {succ[c] : c \in nearer}) \ avoided)
    IN  Within[Cardinality(DOMAIN succ)]

(* The edges to a block that every path from the entry goes through, and   *)
(* the blocks of such an edge's loop.                                      *)
BackEdges(graph) ==
    LET reachable == ReachableFrom(1, graph.succ, {})
    IN  {e \in reachable \X reachable :
            e[2] \in graph.succ[e[1]] /\ e[1] \notin ReachableFrom(1, graph.succ, {e[2]})}
NaturalLoop(e, graph) ==
    {e[2]} \cup {b \in DOMAIN graph.succ : e[1] \in ReachableFrom(b, graph.succ, {e[2]})}

=============================================================================
