------------------------------ MODULE Uniformity ------------------------------
(***************************************************************************)
(* analyze_uniformity (analysis/uniformity.py): one pass over the text     *)
(* that says of every register whether all lanes of a warp hold the same   *)
(* value in it, and of every conditional branch whether they all go the    *)
(* same way.                                                               *)
(***************************************************************************)
EXTENDS Kernel

Class == {"unknown", "uniform", "varying"}

Computes(i) == i.op \in PureOp \cup {"ld", "fma", "setp"}

MergeOneUniform(states) ==                                 \* a mutant
    IF "uniform" \in states THEN "uniform"
    ELSE IF "varying" \in states THEN "varying" ELSE "unknown"
Merge(states) == IF "varying" \in states THEN "varying"
                 ELSE IF states = {"uniform"} THEN "uniform" ELSE "unknown"

OperandClass(o, values) == CASE o[1] = "reg" -> values[o[2]]
                             [] o[1] = "tid" -> "varying"
                             [] OTHER -> "uniform"

ResultClass(i, values) ==
    IF i.op = "ld" THEN (IF i.srcs[1][1] = "param" THEN "uniform" ELSE "varying")
    ELSE Merge({OperandClass(i.srcs[k], values) : k \in DOMAIN i.srcs})

(* What is known of the registers after each item.  A guard, and where     *)
(* control comes from, make no difference.                                 *)
ClassesAfter(its) ==
    LET After[k \in 0..Len(its)] ==
            IF k = 0 THEN [r \in Reg |-> "unknown"]
            ELSE LET values == After[k - 1]
                 IN  IF Computes(its[k])
                     THEN [values EXCEPT ![its[k].dst] = ResultClass(its[k], values)]
                     ELSE values
    IN  After

ConditionalBranches(its) == {k \in DOMAIN its : its[k].op = "bra" /\ its[k].guard}
BranchClasses(its) ==
    LET after == ClassesAfter(its)
    IN  [k \in ConditionalBranches(its) |-> after[k][its[k].pred]]

(* uses and definitions: of the guards, only that of a branch is a use.    *)
Uses(i) == RegsIn(i.srcs) \cup (IF i.op = "bra" /\ i.guard THEN {i.pred} ELSE {})
DefinitionsOf(rs, its) == {k \in DOMAIN its : Computes(its[k]) /\ its[k].dst \in rs}

=============================================================================
