----------------------------- MODULE ControlPlan ------------------------------
(***************************************************************************)
(* _build_control_plan (legacy_lowering.py): which conditional branches    *)
(* become BRX, and which are dropped in favour of guards on the items they *)
(* jump over.                                                              *)
(***************************************************************************)
EXTENDS Uniformity

(* _loop_backedge_branch_items.                                            *)
BackEdgeBranches(its) ==
    {EndOf(e[1], its) : e \in
        {f \in BackEdges(Graph(its)) :
            LET i == its[EndOf(f[1], its)]
            IN  i.op = "bra" /\ LabelAt(i.lbl, its) = f[2]}}

(* _collect_uniform_slice: items, and all in region that their operands    *)
(* are computed from.                                                      *)
Slice(ks, region, its) ==
    LET Round[n \in 0..Cardinality(region)] ==
            IF n = 0 THEN ks
            ELSE LET found == Round[n - 1]
                 IN  found \cup (region \cap DefinitionsOf(UNION {Uses(its[k]) : k \in found}, its))
    IN  Round[Cardinality(region)]

(* Guards are given as <<predicate, negated>>.                             *)
StartPlan(its) ==
    LET class == BranchClasses(its)
    IN  [skipped |-> {}, guards |-> <<>>, legacy |-> {},
         uniform |-> {k \in DOMAIN class : class[k] = "uniform"},
         backEdges |-> BackEdgeBranches(its)]

RegionOf(b, its) ==
    {k \in (b + 1)..(LabelAt(its[b].lbl, its) - 1) : its[k].op # "label"}
GuardOfTaken(b, its) == <<its[b].pred, its[b].neg>>        \* a mutant
GuardOf(b, its) == <<its[b].pred, ~ its[b].neg>>
UniformControl(region, its, plan) == Slice(region \cap plan.backEdges, region, its)

(* _try_legalize_forward_exit: no branch stays in the region but those of  *)
(* its loops, and no item in it has another guard.                         *)
Legalisable(b, its, plan) ==
    LET region == RegionOf(b, its)
        guarded == region \ UniformControl(region, its, plan)
    IN  /\ region # {}
        /\ \A k \in guarded : /\ its[k].op # "bra"
                              /\ k \in DOMAIN plan.guards => plan.guards[k] = GuardOf(b, its)

LegaliseBranch(b, its, plan) ==
    LET region == RegionOf(b, its)
        guarded == region \ UniformControl(region, its, plan)
    IN  IF Legalisable(b, its, plan)
        THEN [plan EXCEPT
                 !.skipped = @ \cup {b},
                 !.guards = [k \in guarded \cup DOMAIN plan.guards |->
                                IF k \in guarded THEN GuardOf(b, its) ELSE plan.guards[k]]]
        ELSE IF BranchClasses(its)[b] = "varying"
        THEN [plan EXCEPT !.legacy = @ \cup {b}]
        ELSE plan

=============================================================================
