------------------------------ MODULE GlobalCp ------------------------------
(***************************************************************************)
(* GlobalConstantPropagationPass (passes/global_cp.py): a forward dataflow *)
(* iteration computes the constants at the end of every block, then the    *)
(* items are rewritten one after the other.  What follows the pass here,   *)
(* phase "run", executes the items as they were and as they are now in     *)
(* lockstep, along any path: rewriting changes no position and no branch.  *)
(***************************************************************************)
EXTENDS Cfg

CONSTANTS Inputs,       \* sequences of items
          Starts,       \* states a lane may start in
          MaxRounds     \* max_iterations, 20

(* Kernels that build_cfg accepts; whatever writes a register names it.    *)
ASSUME InputsAssumption ==
    \A its \in Inputs :
        /\ its \in Seq(Item) /\ its # <<>> /\ ~ Malformed(its)
        /\ \A k \in DOMAIN its :
              its[k].op \in PureOp \cup {"ld", "fma"} => its[k].dst \in Reg
ASSUME StartsAssumption == Starts \subseteq State
ASSUME RoundsAssumption == MaxRounds \in Nat \ {0}

VARIABLES
    items,
    phase,       \* "flow", "apply", "run" or "halted"
    round,       \* iteration
    at,          \* the block to visit next in this round
    changed,
    constsOut,   \* constants_out
    idx,         \* the item to rewrite next
    local,       \* local_constants
    kept,        \* kept_items
    pc,          \* the item to execute next
    src, out     \* the lane that executes items, and the one that executes kept

vars == <<items, phase, round, at, changed, constsOut, idx, local, kept, pc, src, out>>
flow == <<round, at, changed, constsOut>>
apply == <<idx, local, kept>>
run == <<pc, src, out>>

Blocks == Leaders(items)
Past == Len(items) + 1

Init == /\ items \in Inputs
        /\ phase = "flow"
        /\ round = 1 /\ at = 1 /\ changed = FALSE
        /\ constsOut = [b \in Leaders(items) |-> NoConstants]
        /\ idx = 1 /\ local = NoConstants /\ kept = <<>>
        /\ pc = 1
        /\ src \in Starts
        /\ out = src

-----------------------------------------------------------------------------
(* Folding one instruction.                                                *)

(* What is known of its result: <<>> or a constant.  u32 arithmetic and    *)
(* logical operations are evaluated, f32 arithmetic is not.                *)
FoldedResult(i, constants) ==
    LET known == [k \in DOMAIN i.srcs |-> Known(i.srcs[k], i.ty, constants)]
    IN  IF /\ \A k \in DOMAIN i.srcs : known[k] # {}
           /\ \/ i.op \in {"mov", "and"}
              \/ i.op \in {"add", "mul"} /\ i.ty = "u32"
        THEN LET v == [k \in DOMAIN i.srcs |-> CHOOSE w \in known[k] : TRUE]
             IN  <<i.ty, CASE i.op = "mov" -> v[1]
                           [] i.op = "add" -> (v[1] + v[2]) % W
                           [] i.op = "mul" -> (v[1] * v[2]) % W
                           [] i.op = "and" -> And(v[1], v[2])>>
        ELSE <<>>

(* Every source that is known becomes an immediate; a logical operation    *)
(* whose result is known becomes a move, an arithmetic one does not.       *)
Rewritten(i, constants) ==
    LET known(o) == Known(o, i.ty, constants)
        sources == [k \in DOMAIN i.srcs |->
                       IF known(i.srcs[k]) = {} THEN i.srcs[k]
                       ELSE Immediate(CHOOSE w \in known(i.srcs[k]) : TRUE, i.ty)]
        result == FoldedResult(i, constants)
    IN  IF i.op = "and" /\ result # <<>>
        THEN [i EXCEPT !.op = "mov", !.srcs = <<Immediate(result[2], i.ty)>>]
        ELSE [i EXCEPT !.srcs = sources]

Foldable(i) == ~ i.guard /\ i.op \in PureOp

-----------------------------------------------------------------------------
(* Dataflow.                                                               *)

(* A guarded instruction is passed over, so that a constant survives it.   *)
TransferKeepsLoads(constants, i) ==    \* a mutant: a load kills nothing
    IF Foldable(i) THEN [constants EXCEPT ![Dest(i)] = FoldedResult(i, constants)]
    ELSE constants
Transfer(constants, i) ==
    IF i.guard \/ Dest(i) = NoReg THEN constants
    ELSE [constants EXCEPT
             ![Dest(i)] = IF Foldable(i) THEN FoldedResult(i, constants) ELSE <<>>]

(* The constants that the ends of all predecessors agree on.               *)
EntryAnyPred(b) ==             \* a mutant: a constant of one of them is enough
    [r \in Reg |->
        LET ends == {constsOut[p][r] : p \in Graph(items).pred[b]} \ {<<>>}
        IN  IF ends = {} THEN <<>> ELSE CHOOSE c \in ends : TRUE]
EntryConstants(b) ==
    [r \in Reg |->
        LET ends == {constsOut[p][r] : p \in Graph(items).pred[b]}
        IN  IF Cardinality(ends) = 1 THEN CHOOSE c \in ends : TRUE ELSE <<>>]

ExitConstants(b) ==
    LET After[k \in (b - 1)..EndOf(b, items)] ==
            IF k = b - 1 THEN EntryConstants(b) ELSE Transfer(After[k - 1], items[k])
    IN  After[EndOf(b, items)]

VisitForgetsChange ==          \* a mutant: changed tells of the last block only
    /\ phase = "flow" /\ at # Past
    /\ constsOut' = [constsOut EXCEPT ![at] = ExitConstants(at)]
    /\ changed' = (constsOut'[at] # constsOut[at])
    /\ at' = EndOf(at, items) + 1
    /\ UNCHANGED <<items, phase, round, apply, run>>
Visit ==
    /\ phase = "flow" /\ at # Past
    /\ constsOut' = [constsOut EXCEPT ![at] = ExitConstants(at)]
    /\ changed' = (changed \/ constsOut'[at] # constsOut[at])
    /\ at' = EndOf(at, items) + 1
    /\ UNCHANGED <<items, phase, round, apply, run>>

NextRound ==
    /\ phase = "flow" /\ at = Past
    /\ changed /\ round < MaxRounds
    /\ round' = round + 1
    /\ at' = 1 /\ changed' = FALSE
    /\ UNCHANGED <<items, phase, constsOut, apply, run>>

FlowEnds ==
    /\ phase = "flow" /\ at = Past
    /\ ~ changed \/ round = MaxRounds
    /\ phase' = "apply"
    /\ UNCHANGED <<items, flow, apply, run>>

-----------------------------------------------------------------------------
(* Rewriting.  Here a guarded instruction does kill what it defines.       *)

Rewrite ==
    /\ phase = "apply" /\ idx # Past
    /\ LET i == items[idx]
           constants == IF idx \in Blocks THEN EntryConstants(idx) ELSE local
       IN  /\ kept' = Append(kept, IF Foldable(i) THEN Rewritten(i, constants) ELSE i)
           /\ local' = IF Dest(i) = NoReg THEN constants
                       ELSE [constants EXCEPT
                                ![Dest(i)] = IF Foldable(i)
                                             THEN FoldedResult(i, constants) ELSE <<>>]
    /\ idx' = idx + 1
    /\ UNCHANGED <<items, phase, flow, run>>

Rewrote ==
    /\ phase = "apply" /\ idx = Past
    /\ phase' = "run"
    /\ UNCHANGED <<items, flow, apply, run>>

-----------------------------------------------------------------------------
(* Execution.  A branch that is guarded goes either way, an instruction    *)
(* that is guarded happens or not, in both lanes alike.                    *)

Forgetful(s) == [s EXCEPT !.seen = <<>>]

Execute ==
    /\ phase = "run" /\ pc # Past
    /\ pc' \in Follows(pc, items)
    /\ \/ /\ src' = Forgetful(Exec(items[pc], src))
          /\ out' = Forgetful(Exec(kept[pc], out))
       \/ /\ items[pc].guard /\ items[pc].op # "bra"
          /\ UNCHANGED <<src, out>>
    /\ UNCHANGED <<items, phase, flow, apply>>

Halt ==
    /\ phase = "run" /\ pc = Past
    /\ phase' = "halted"
    /\ UNCHANGED <<items, flow, apply, run>>

Next == \/ Visit \/ NextRound \/ FlowEnds
        \/ Rewrite \/ Rewrote
        \/ Execute \/ Halt

Spec == Init /\ [][Next]_vars

-----------------------------------------------------------------------------
(* Properties.                                                             *)

(* Wherever control arrives at a block, on whatever path, the constants    *)
(* that the pass takes for granted there are in their registers            *)
(* (global_cp.py 71-104, 147-170).                                         *)
EntryConstantsHold ==
    phase = "run" /\ pc \in Blocks =>
        \A r \in Reg : EntryConstants(pc)[r] # <<>> =>
            src.reg[r] = EntryConstants(pc)[r][2]

(* No rewriting is ever noticed: both lanes are in the same state          *)
(* (global_cp.py 106-137, 173-246).                                        *)
SameState == out = src

(* The rounds that are allowed are enough: when the iteration is given up  *)
(* another round would change nothing (global_cp.py 66-104).               *)
Converged ==
    phase # "flow" => \A b \in Blocks : constsOut[b] = ExitConstants(b)

=============================================================================
