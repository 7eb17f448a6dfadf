-------------------------------- MODULE CfgMC --------------------------------
(***************************************************************************)
(* Every kernel of Length items with a branch backwards, in which A stands *)
(* before B and both at most once; and every short one, with labels        *)
(* missing, doubled and out of order.  No return is guarded: the graph has *)
(* no edge past it, nor has the code that lowering makes of it.            *)
(***************************************************************************)
EXTENDS CfgAnalysis

CONSTANTS Length, Short

Zero(a, b) == 0

It(op, l, g) == [op |-> op, ty |-> "u32", dst |-> NoReg, srcs |-> <<>>,
                 guard |-> g, lbl |-> l]
Other == It("st", NoLabel, FALSE)
Return == It("ret", NoLabel, FALSE)
Mark(l) == It("label", l, FALSE)
Branches == {It("bra", l, g) : l \in Label, g \in BOOLEAN}
AnyItem == {Other, Return} \cup {Mark(l) : l \in Label} \cup Branches

Tidy(its) == /\ \A l \in Label : Cardinality({k \in DOMAIN its : its[k] = Mark(l)}) <= 1
             /\ \A j, k \in DOMAIN its :
                   its[j] = Mark("B") /\ its[k] = Mark("A") => k < j
             /\ \A k \in 2..Len(its) : its[k] = Other => its[k - 1] # Other

Loops(its) == \E j, k \in DOMAIN its :
                 j < k /\ its[j].op = "label" /\ its[k].op = "bra" /\ its[k].lbl = its[j].lbl

MCInputs == {its \in [1..Length -> AnyItem] :
                Tidy(its) /\ Loops(its) /\ ~ Malformed(its)}
              \cup [1..Short -> AnyItem]
=============================================================================
