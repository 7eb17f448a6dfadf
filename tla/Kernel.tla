-------------------------------- MODULE Kernel --------------------------------
(***************************************************************************)
(* Kernels with predicates.  To the fields of an item of Ptx come the      *)
(* predicate that guards it, whether it is negated, and the comparison of  *)
(* a setp.  Predicates are registers that hold 0 or 1.  One lane executes  *)
(* a kernel item by item: the meaning of the source that every pass and    *)
(* lowering have to keep.                                                  *)
(***************************************************************************)
EXTENDS Cfg

Tid == <<"tid", 0>>                  \* %tid.x
Ctaid == <<"ctaid", 0>>              \* %ctaid.x
Param(k) == <<"param", k>>           \* the k-th parameter, as read by ld.param

(* _destination_register: every result but that of fma, which is not in    *)
(* _DESTINATION_BASES.                                                     *)
DestOf(i) == IF i.op \in PureOp \cup {"ld", "setp"} THEN i.dst ELSE NoReg

(* The instructions of a block: its items without the label.               *)
Instructions(b, its) == {k \in b..EndOf(b, its) : its[k].op # "label"}

(* Positions in the order of the text.                                     *)
InOrder(ks, its) == SelectSeq([k \in DOMAIN its |-> k], LAMBDA k : k \in ks)

(* def_map keeps the last definition of a register; 0 if it has none.      *)
LastDef(r, its) ==
    LET defs == {k \in DOMAIN its : DestOf(its[k]) = r}
    IN  IF defs = {} THEN 0 ELSE CHOOSE k \in defs : \A j \in defs : j <= k

(* The blocks every path from the entry to b goes through, b included.     *)
DominatorsOf(b, graph) ==
    {b} \cup {d \in DOMAIN graph.succ : b \notin ReachableFrom(1, graph.succ, {d})}

-----------------------------------------------------------------------------
(* One lane: its block, its number in it, where it is, its registers and   *)
(* the memory it sees.                                                     *)
Lane(block, thread, reg, mem) ==
    [block |-> block, thread |-> thread, pc |-> 1, reg |-> reg, mem |-> mem]
Ended(its, l) == l.pc > Len(its)

Value(o, l) == CASE o[1] = "reg" -> l.reg[o[2]]
                 [] o[1] = "tid" -> l.thread
                 [] o[1] = "ctaid" -> l.block
                 [] OTHER -> o[2]

GuardHolds(i, l) == i.guard => (l.reg[i.pred] = 0) = i.neg

Compare(cmp, a, b) == CASE cmp = "eq" -> a = b
                        [] cmp = "ne" -> a # b
                        [] cmp = "lt" -> a < b
                        [] cmp = "le" -> a <= b
                        [] cmp = "ge" -> a >= b

(* What an item that is not a branch does to the lane, params being the    *)
(* words of the parameters.                                                *)
Act(i, l, params) ==
    LET v == [k \in DOMAIN i.srcs |-> Value(i.srcs[k], l)]
    IN  CASE i.op \in {"label", "bra", "ret"} -> l
          [] i.op = "setp" ->
                [l EXCEPT !.reg[i.dst] = IF Compare(i.cmp, v[1], v[2]) THEN 1 ELSE 0]
          [] i.op = "st" -> [l EXCEPT !.mem[v[1]] = v[2]]
          [] i.op = "ld" ->
                [l EXCEPT !.reg[i.dst] =
                    IF i.srcs[1][1] = "param" THEN params[v[1]] ELSE l.mem[v[1]]]
          [] OTHER -> [l EXCEPT !.reg[i.dst] = Result(i.op, i.ty, v)]

StepOf(its, l, params) ==
    LET i == its[l.pc]
    IN  IF ~ GuardHolds(i, l) THEN [l EXCEPT !.pc = @ + 1]
        ELSE [Act(i, l, params) EXCEPT
                 !.pc = CASE i.op = "bra" -> LabelAt(i.lbl, its)
                          [] i.op = "ret" -> Len(its) + 1
                          [] OTHER -> @ + 1]

(* The store and the load the lane is about to execute, if it is.          *)
StoreDue(its, l) ==
    LET i == its[l.pc]
    IN  IF i.op = "st" /\ GuardHolds(i, l)
        THEN <<<<Value(i.srcs[1], l), Value(i.srcs[2], l)>>>> ELSE <<>>
LoadDue(its, l) ==
    LET i == its[l.pc]
    IN  IF i.op = "ld" /\ GuardHolds(i, l) /\ i.srcs[1][1] # "param"
        THEN {Value(i.srcs[1], l)} ELSE {}

=============================================================================
