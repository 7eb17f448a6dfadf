---------------------------- MODULE BlockSimplify ----------------------------
(***************************************************************************)
(* BlockSimplificationPass (passes/block_simplify.py): blocks that only    *)
(* lead elsewhere and blocks that are never reached lose their label and   *)
(* what follows it, and branches to them go where they led.                *)
(***************************************************************************)
EXTENDS Kernel

Unreachable(graph) == DOMAIN graph.succ \ ReachableFrom(1, graph.succ, {})

(* No block but the entry is kept only for its label: without instructions *)
(* it leads to the next one, with a mere jump to the target, itself apart. *)
IsEmpty(b, its, graph) ==
    b # 1 /\ Instructions(b, its) = {} /\ Cardinality(graph.succ[b]) = 1
IsJump(b, its, graph) ==
    /\ b # 1
    /\ \E k \in DOMAIN its : /\ Instructions(b, its) = {k}
                             /\ its[k].op = "bra" /\ ~ its[k].guard
    /\ graph.succ[b] # {b}
LeadsOn(its, graph) ==
    {b \in DOMAIN graph.succ : IsEmpty(b, its, graph) \/ IsJump(b, its, graph)}
Onward(b, graph) == CHOOSE c \in graph.succ[b] : TRUE

(* resolve_chain: where a block leads in the end, unless its chain meets   *)
(* one that is resolved already, or itself.  All it went through lead there*)
(* too.                                                                    *)
Chain(b, resolved, leadsOn, graph) ==
    LET Path[n \in 0..Cardinality(leadsOn)] ==
            IF n = 0 THEN <<b>>
            ELSE LET path == Path[n - 1]
                     last == path[Len(path)]
                     seen == {path[j] : j \in 1..(Len(path) - 1)}
                 IN  IF last \in leadsOn \ (seen \cup DOMAIN resolved)
                     THEN Append(path, Onward(last, graph)) ELSE path
    IN  Path[Cardinality(leadsOn)]
ResolveChain(b, resolved, leadsOn, graph) ==
    LET path == Chain(b, resolved, leadsOn, graph)
        last == path[Len(path)]
        through == {path[j] : j \in 1..(Len(path) - 1)}
        end == IF last \in DOMAIN resolved \ through THEN resolved[last] ELSE last
    IN  [c \in through \cup DOMAIN resolved |->
            IF c \in through THEN end ELSE resolved[c]]

(* In the order of the text; what leads back to itself stays.              *)
Redirect(its, graph) ==
    LET leadsOn == LeadsOn(its, graph)
        order == InOrder(Leaders(its), its)
        After[n \in 0..Len(order)] ==
            IF n = 0 THEN <<>> ELSE ResolveChain(order[n], After[n - 1], leadsOn, graph)
        all == After[Len(order)]
    IN  [b \in {c \in DOMAIN all : all[c] # c} |-> all[b]]

(* An unreachable block stays if it does anything but compute.             *)
Harmless(b, its) == \A k \in Instructions(b, its) : its[k].op \in PureOp /\ ~ its[k].guard
RemovedBlocks(redirect, its, graph) ==
    ({b \in Unreachable(graph) : Harmless(b, its)} \cup DOMAIN redirect) \ {1}

(* A label goes with its block, and with it all up to the next label.      *)
Skipped(k, removed, its) ==
    \E j \in removed : /\ j <= k /\ its[j].op = "label"
                       /\ \A n \in (j + 1)..k : its[n].op # "label"

RetargetedNot(i, redirect, its) == i                       \* a mutant
Retargeted(i, redirect, its) ==
    IF i.op = "bra" /\ LabelAt(i.lbl, its) \in DOMAIN redirect
    THEN [i EXCEPT !.lbl = its[redirect[LabelAt(i.lbl, its)]].lbl] ELSE i

Simplify(its) ==
    LET graph == Graph(its)
        redirect == Redirect(its, graph)
        removed == RemovedBlocks(redirect, its, graph)
        kept == InOrder({k \in DOMAIN its : ~ Skipped(k, removed, its)}, its)
    IN  [n \in DOMAIN kept |-> Retargeted(its[kept[n]], redirect, its)]

=============================================================================
