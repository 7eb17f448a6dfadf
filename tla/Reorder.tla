------------------------------- MODULE Reorder -------------------------------
(***************************************************************************)
(* What a scheduler of one basic block promises: it emits every            *)
(* instruction of the block once, and never one before an earlier          *)
(* instruction it conflicts with.  In which order it emits the rest is its *)
(* own business.                                                           *)
(***************************************************************************)
EXTENDS AecInstruction, Sequences

CONSTANT Blocks        \* the blocks it is given

VARIABLES block, scheduled   \* the block, and the positions emitted so far

vars == <<block, scheduled>>

Emitted == {scheduled[k] : k \in DOMAIN scheduled}

(* The promise is not for every register conflict: it has nothing to say   *)
(* when one instruction names a register that the other reaches as the     *)
(* second of a pair.  Nor is it for predicates.                            *)
Conflict(a, b) == \/ AlignedConflict(a, b)
                  \/ MemoryConflict(a, b)
                  \/ ControlConflict(a, b)

(* A block may also be handed back as it stands.                           *)
Init == /\ block \in Blocks
        /\ scheduled \in {<<>>, [i \in DOMAIN block |-> i]}

Emit(i) == /\ i \notin Emitted
           /\ \A j \in 1..(i - 1) : Conflict(block[j], block[i]) => j \in Emitted
           /\ scheduled' = Append(scheduled, i)
           /\ UNCHANGED block

Next == \E i \in DOMAIN block : Emit(i)

Spec == Init /\ [][Next]_vars

=============================================================================
