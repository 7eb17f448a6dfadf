------------------------------- MODULE Liveness -------------------------------
(***************************************************************************)
(* From items to the intervals of the linear scan: analyze_liveness of     *)
(* analysis/liveness.py, one range per definition, in textual order and    *)
(* without looking at control flow; then the first part of                 *)
(* LinearScanRegisterAllocationPass.run, which merges the ranges of one    *)
(* register and extends those used in a loop to the end of the last loop.  *)
(***************************************************************************)
EXTENDS Cfg

CONSTANT Pairs          \* the registers named %rd or %bd

(* _dest_register and _source_registers: here fma has a destination.       *)
LiveDest(i) == IF i.op \in PureOp \cup {"ld", "fma"} THEN i.dst ELSE NoReg
LiveSources(i) == RegsIn(i.srcs)

Defs(r, its) == {k \in DOMAIN its : LiveDest(its[k]) = r}
Uses(r, its) == {k \in DOMAIN its : r \in LiveSources(its[k])}
Defined(its) == {LiveDest(its[k]) : k \in DOMAIN its} \ {NoReg}

Least(S) == CHOOSE k \in S : \A n \in S : k <= n
Greatest(S) == CHOOSE k \in S : \A n \in S : n <= k

(* The uses that belong to the definition at d: up to the next definition, *)
(* which may read the register itself if d is the first.                   *)
UsesOf(d, r, its) ==
    LET defs == Defs(r, its)
        next == Least({k \in defs : k > d} \cup {Len(its) + 1})
    IN  {u \in Uses(r, its) : IF d = Least(defs) THEN d <= u /\ u <= next
                                                 ELSE d < u /\ u < next}
LastUse(d, r, its) == Greatest(UsesOf(d, r, its) \cup {d})

(* The aggregate range of a register, from its first definition on.        *)
Merged(r, its) ==
    [first |-> Least(Defs(r, its)),
     last |-> Greatest({LastUse(d, r, its) : d \in Defs(r, its)})]

(* The instructions from the first to the last of any loop, or none.       *)
LoopBody(its) ==
    LET graph == Graph(its)
        blocks == UNION {NaturalLoop(e, graph) : e \in BackEdges(graph)}
        body == (UNION {b..EndOf(b, its) : b \in blocks}) \ Positions(its, {"label"})
    IN  IF body = {} THEN {} ELSE Least(body)..Greatest(body)

ExtendedNot(r, its) == Merged(r, its)       \* a mutant: loops do not matter
Extended(r, its) ==
    LET merged == Merged(r, its)
        body == LoopBody(its)
        inLoop == (UNION {UsesOf(d, r, its) : d \in Defs(r, its)}) \cap body
    IN  IF inLoop # {} /\ merged.last < Greatest(body)
        THEN [merged EXCEPT !.last = Greatest(body)] ELSE merged

(* sorted_regs: the registers by their first definition, their intervals.  *)
Order(its) ==
    [n \in 1..Cardinality(Defined(its)) |->
        CHOOSE r \in Defined(its) :
            n = Cardinality({q \in Defined(its) :
                                Least(Defs(q, its)) <= Least(Defs(r, its))})]
Intervals(its) ==
    LET order == Order(its)
    IN  [n \in DOMAIN order |->
            LET range == Extended(order[n], its)
            IN  [pair |-> order[n] \in Pairs, first |-> range.first, last |-> range.last]]

-----------------------------------------------------------------------------
(* The definition of liveness: the value of r before item n, or after item *)
(* k, may still be read, on some path with no definition of r in between   *)
(* that is certain to happen.                                              *)
Steps(its) ==
    [n \in 1..(Len(its) + 1) |-> IF n \in DOMAIN its THEN Follows(n, its) ELSE {}]
Certain(r, its) == {n \in Defs(r, its) : ~ its[n].guard}
LiveBefore(n, r, its) ==
    LET succ == Steps(its)
        passed == ReachableFrom(n, succ, Certain(r, its))
    IN  ({n} \cup UNION {succ[x] : x \in passed}) \cap Uses(r, its) # {}
LiveAfter(k, r, its) == \E n \in Steps(its)[k] : LiveBefore(n, r, its)

(* The kernels whose values the intervals cover.  No path reads a register *)
(* it has not written; a branch backwards closes a loop; and a register    *)
(* that a loop reads has a use of some definition in the loops or later.   *)
(* (A third or later definition of a register that reads the register      *)
(* itself is a use of none.)                                               *)
WrittenFirst(its) == \A r \in Reg : ~ LiveBefore(1, r, its)
LoopsOnly(its) ==
    LET back == BackEdges(Graph(its))
    IN  \A k \in Positions(its, {"bra"}) :
            LabelAt(its[k].lbl, its) < k =>
                <<BlockOf(k, its), LabelAt(its[k].lbl, its)>> \in back
Counted(its) ==
    LET body == LoopBody(its)
    IN  \A r \in Defined(its) :
            Uses(r, its) \cap body # {} =>
                \E d \in Defs(r, its) : \E u \in UsesOf(d, r, its) : u >= Least(body)
InView(its) ==
    its # <<>> /\ ~ Malformed(its) /\ WrittenFirst(its) /\ LoopsOnly(its) /\ Counted(its)

=============================================================================
