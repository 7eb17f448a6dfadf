------------------------------ MODULE LoopPasses ------------------------------
(***************************************************************************)
(* A kernel, one of the passes that move or copy code across blocks, and   *)
(* what the pass makes of it: loop-invariant code motion, load hoisting,   *)
(* block simplification or loop unrolling.  One lane runs the kernel as it *)
(* was written to its end, then the pass runs, then the same lane runs the *)
(* result.                                                                 *)
(***************************************************************************)
EXTENDS BlockSimplify, Unroll

CONSTANTS Inputs,      \* pairs of a pass and the items of a kernel
          Starts,      \* a sequence of lanes before the first item
          MaxStores    \* the stores of a kernel are followed up to this many

VARIABLES pass,        \* the pass under test
          items,       \* the items of the kernel, as written or as rewritten
          start,       \* which of Starts the lane begins in
          lane,        \* the lane that runs
          stage,       \* what it runs
          touched,     \* the addresses the kernel as written loads from
          loading,     \* the address the result of the pass loads from, if any
          promised, sealed, issued        \* see StoreTrace

vars == <<pass, items, start, lane, stage, touched, loading, promised, sealed, issued>>

Init == /\ \E in \in Inputs : pass = in[1] /\ items = in[2]
        /\ start \in DOMAIN Starts /\ lane = Starts[start]
        /\ stage = "source"
        /\ touched = {} /\ loading = {}
        /\ promised = <<>> /\ sealed = FALSE /\ issued = <<>>

StepSource ==
    /\ stage = "source" /\ ~ Ended(items, lane)
    /\ Len(promised) < MaxStores
    /\ lane' = StepOf(items, lane, <<>>)
    /\ promised' = promised \o StoreDue(items, lane)
    /\ touched' = touched \cup LoadDue(items, lane)
    /\ UNCHANGED <<pass, items, start, stage, loading, sealed, issued>>

SourceEnds ==
    /\ stage = "source" /\ Ended(items, lane)
    /\ stage' = "pass"
    /\ UNCHANGED <<pass, items, start, lane, touched, loading, promised, sealed, issued>>

(* module.function.program := _rebuild_program(program, ...).              *)
RunPass(p, New(_)) ==
    /\ stage = "pass" /\ pass = p
    /\ items' = New(items)
    /\ stage' = "rewritten" /\ lane' = Starts[start] /\ sealed' = TRUE
    /\ UNCHANGED <<pass, start, touched, loading, promised, issued>>

StepRewritten ==
    /\ stage = "rewritten" /\ ~ Ended(items, lane)
    /\ lane' = StepOf(items, lane, <<>>)
    /\ issued' = issued \o StoreDue(items, lane)
    /\ loading' = LoadDue(items, lane)
    /\ UNCHANGED <<pass, items, start, stage, touched, promised, sealed>>

RewrittenEnds ==
    /\ stage = "rewritten" /\ Ended(items, lane)
    /\ stage' = "end"
    /\ UNCHANGED <<pass, items, start, lane, touched, loading, promised, sealed, issued>>

Next == \/ StepSource \/ SourceEnds \/ StepRewritten \/ RewrittenEnds
        \/ RunPass("loop-invariant-code-motion", HoistInvariants)
        \/ RunPass("load-hoisting", HoistLoads)
        \/ RunPass("block-simplification", Simplify)
        \/ RunPass("loop-unrolling", UnrollLoops)

(* A lane never stops of its own accord: the simulator runs it until there *)
(* is no next instruction.                                                 *)
Spec == Init /\ [][Next]_vars /\ WF_vars(StepRewritten)

-----------------------------------------------------------------------------
(* Hoisting, merging blocks and unrolling are not noticed: the result makes*)
(* the stores of the kernel in their order, all of them, and none besides  *)
(* (licm.py:22, memory.py:22, block_simplify.py:23 and gemm.py:23 claim to *)
(* be proven safe).                                                        *)
Promised == INSTANCE StoreTrace WITH Who <- {1}, promised <- <<promised>>, sealed <- sealed,
                                     issued <- <<issued>>
KeepsItsStores == Promised!Spec

(* A load that is moved out of a loop reads an address the kernel reads as *)
(* well: an access that fails, fails in the source too (memory.py:29-33).  *)
NoNewLoads == loading \subseteq touched

(* Labels are only dropped when no branch that stays leads to them: the    *)
(* next build of the graph finds every target (block_simplify.py:140-176). *)
TargetsDefined == stage = "rewritten" => ~ Malformed(items)

=============================================================================
