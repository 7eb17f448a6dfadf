------------------------------ MODULE GlobalDce ------------------------------
(***************************************************************************)
(* GlobalDeadCodeEliminationPass (passes/global_dce.py): what has an       *)
(* effect is live, and so is every definition of a register that a live    *)
(* instruction reads, wherever it stands.  The rest is removed.            *)
(***************************************************************************)
EXTENDS Cfg

VARIABLES
    items,
    phase,       \* "seed", "mark", and from "scan" on what comes after the pass
    live,        \* positions
    worklist     \* popped from its end in the code; here in any order

dce == <<live, worklist>>

Instructions(its) == DOMAIN its \ Positions(its, {"label"})

(* A memory access, control, a predicate, whatever is guarded, and every   *)
(* operation the passes do not know (fma, or with a carry).                *)
SideEffecting(i) == i.guard \/ i.op \notin PureOp

DefMapLast(r) ==           \* a mutant: a later definition hides an earlier one
    {k \in Instructions(items) :
        /\ Dest(items[k]) = r
        /\ \A n \in Instructions(items) : n > k => Dest(items[n]) # r}
DefMap(r) == {k \in Instructions(items) : Dest(items[k]) = r}

Seed ==
    /\ phase = "seed"
    /\ live' = {k \in Instructions(items) : SideEffecting(items[k])}
    /\ worklist' = live'
    /\ phase' = "mark"
    /\ UNCHANGED items

(* Mutant of Mark: a live definition also keeps what it overwrites.        *)
MarkOverwritten(k) ==
    LET sources == UNION {DefMap(r) : r \in ReadRegs(items[k]) \cup {Dest(items[k])}}
    IN  /\ phase = "mark" /\ k \in worklist
        /\ live' = live \cup sources
        /\ worklist' = (worklist \ {k}) \cup (sources \ live)
        /\ UNCHANGED <<items, phase>>
Mark(k) ==
    LET sources == UNION {DefMap(r) : r \in ReadRegs(items[k])}
    IN  /\ phase = "mark" /\ k \in worklist
        /\ live' = live \cup sources
        /\ worklist' = (worklist \ {k}) \cup (sources \ live)
        /\ UNCHANGED <<items, phase>>

(* The items that are left when the worklist is empty.                     *)
Stays(k) == items[k].op = "label" \/ k \in live
NewPos(k) == Cardinality({n \in 1..k : Stays(n)})
Kept == [n \in 1..NewPos(Len(items)) |->
            items[CHOOSE k \in DOMAIN items : Stays(k) /\ NewPos(k) = n]]

-----------------------------------------------------------------------------
(* What is removed is exactly what no chain of definitions and reads       *)
(* connects to an effect (global_dce.py 53-97).                            *)
NeededBy(its) ==
    LET Feeds(k, n) == Dest(its[k]) # NoReg /\ Dest(its[k]) \in ReadRegs(its[n])
        succ == [k \in DOMAIN its |-> {n \in DOMAIN its : Feeds(k, n)}]
    IN  {k \in DOMAIN its : \E n \in ReachableFrom(k, succ, {}) :
                               its[n].op # "label" /\ SideEffecting(its[n])}
OnlyDeadRemoved ==
    phase = "scan" => live = NeededBy(items)

=============================================================================
