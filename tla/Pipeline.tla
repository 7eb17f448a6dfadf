------------------------------ MODULE Pipeline ------------------------------
(***************************************************************************)
(* One compilation (compiler.py): the passes of the pipeline that the      *)
(* optimization level selects run in order over one program and one        *)
(* analysis cache, then the program is lowered and scheduled.              *)
(*   passes/pipelines.py   build_pipeline                                  *)
(*   passes/manager.py     PassManager                                     *)
(*   analysis/manager.py   AnalysisManager                                 *)
(*   passes/foundation.py  the passes that record facts in the module      *)
(* Of a program only its version counts: a pass that transforms may find   *)
(* something to do, and then the program is a new one.                     *)
(***************************************************************************)
EXTENDS Integers, Sequences, FiniteSets

CONSTANT Levels          \* the optimization levels to compile at

Analysis == {"cfg", "liveness", "uniformity"}     \* the registered ones

O0 == <<"validate", "materialize_cfg">>
Refresh == <<"materialize_cfg", "record_uniformity">>

O2StaleUnroll ==               \* a mutant: nothing is refreshed after unrolling
    <<"validate", "dre", "cse", "fold", "global_cp", "reuse">> \o Refresh
      \o <<"global_dce", "record_loops", "licm">> \o Refresh
      \o <<"simplify">> \o Refresh \o <<"load_hoisting">> \o Refresh
      \o <<"register_allocation">> \o Refresh \o <<"unroll">>
O2 ==
    <<"validate", "dre", "cse", "fold", "global_cp", "reuse">> \o Refresh
      \o <<"global_dce", "record_loops", "licm">> \o Refresh
      \o <<"simplify">> \o Refresh \o <<"load_hoisting">> \o Refresh
      \o <<"unroll">> \o Refresh \o <<"register_allocation">> \o Refresh

(* Registers are allocated before loops are unrolled.                      *)
O3 == <<"validate", "dre", "cse", "fold", "reuse">> \o Refresh
        \o <<"global_cp", "global_dce">> \o Refresh
        \o <<"record_loops", "simplify", "licm", "load_hoisting",
             "register_allocation", "unroll">> \o Refresh

Pipe(level) == CASE level = "0" -> O0 [] level = "2" -> O2 [] level = "3" -> O3

Transforms == {"dre", "cse", "fold", "global_cp", "reuse", "global_dce", "licm",
               "simplify", "load_hoisting", "unroll"}

(* The analyses a pass asks the manager for.                               *)
Reads(p) ==
    CASE p \in {"global_cp", "licm", "simplify", "load_hoisting", "unroll",
                "materialize_cfg", "record_loops"} -> {"cfg"}
      [] p = "record_uniformity" -> {"uniformity"}
      [] p = "register_allocation" -> {"liveness", "cfg"}
      [] OTHER -> {}

(* What a pass says it has invalidated when it changed the program; some   *)
(* name "loops" too, which is not the name of an analysis.                 *)
InvalidatesDceNothing(p) ==    \* a mutant: removing instructions keeps the graph
    IF p \in Transforms \ {"global_dce"} THEN {"cfg", "uniformity"} ELSE {}
Invalidates(p) ==
    IF p \in Transforms THEN {"cfg", "uniformity"} ELSE {}

-----------------------------------------------------------------------------
None == 0                      \* programs are numbered from 1

VARIABLES
    level, stage,        \* "passes", "lowering", "scheduling", "done" or "failed"
    next,                \* the position of the next pass
    prog,                \* the version of function.program
    cache,               \* for each analysis the version it was made from, or None
    consulted,           \* the versions that the last pass's facts were made from
    blocks,              \* the versions behind function.blocks,
    metadata,            \*   behind what is recorded as uniformity and loops,
    mapping,             \*   and behind register_mapping
    lowered              \* the versions of the program and mapping in the output

vars == <<level, stage, next, prog, cache, consulted, blocks, metadata, mapping, lowered>>

Init == /\ level \in Levels
        /\ stage = "passes"
        /\ next = 1
        /\ prog = 1
        /\ cache = [a \in Analysis |-> None]
        /\ consulted = {}
        /\ blocks = None
        /\ metadata = [uniformity |-> None, loops |-> None]
        /\ mapping = None
        /\ lowered = <<>>

(* The cache after a pass has asked for what it reads.                     *)
Get(wanted) ==
    [a \in Analysis |-> IF a \in wanted /\ cache[a] = None THEN prog ELSE cache[a]]

(* A kernel without items, or whose branches have no target, is refused.   *)
Refuse ==
    /\ stage = "passes"
    /\ \/ Pipe(level)[next] = "validate"
       \/ "cfg" \in Reads(Pipe(level)[next]) /\ cache["cfg"] = None /\ blocks = None
    /\ stage' = "failed"
    /\ UNCHANGED <<level, next, prog, cache, consulted, blocks, metadata, mapping, lowered>>

RunPass ==
    /\ stage = "passes"
    /\ LET p == Pipe(level)[next]
           facts == Get(Reads(p))
       IN  /\ consulted' = {<<a, facts[a], prog>> : a \in Reads(p)}
           /\ \/ /\ prog' = prog
                 /\ cache' = facts
              \/ /\ p \in Transforms
                 /\ prog' = prog + 1
                 /\ cache' = [a \in Analysis |->
                                 IF a \in Invalidates(p) THEN None ELSE facts[a]]
           /\ blocks' = IF p = "materialize_cfg" THEN facts["cfg"] ELSE blocks
           /\ metadata' = CASE p = "record_uniformity" ->
                                   [metadata EXCEPT !.uniformity = facts["uniformity"]]
                            [] p = "record_loops" ->
                                   [metadata EXCEPT !.loops = facts["cfg"]]
                            [] OTHER -> metadata
           /\ \/ /\ p = "register_allocation"
                 /\ mapping' = facts["liveness"]
              \/ mapping' = mapping        \* also when nothing is to be allocated
    /\ next' = next + 1
    /\ stage' = IF next = Len(Pipe(level)) THEN "lowering" ELSE "passes"
    /\ UNCHANGED <<level, lowered>>

(* The lowerer makes a graph and uniformity facts of its own.              *)
Lower ==
    /\ stage = "lowering"
    /\ \/ /\ lowered' = <<prog, mapping>>
          /\ stage' = IF level \in {"2", "3"} THEN "scheduling" ELSE "done"
       \/ /\ stage' = "failed"
          /\ UNCHANGED lowered
    /\ UNCHANGED <<level, next, prog, cache, consulted, blocks, metadata, mapping>>

Schedule ==
    /\ stage = "scheduling"
    /\ stage' = "done"
    /\ UNCHANGED <<level, next, prog, cache, consulted, blocks, metadata, mapping, lowered>>

Next == Refuse \/ RunPass \/ Lower \/ Schedule

Spec == Init /\ [][Next]_vars
FairSpec == Spec /\ WF_vars(Next)

-----------------------------------------------------------------------------
(* Properties.                                                             *)

(* No pass ever works from facts about a program that is no more           *)
(* (analysis/manager.py 33-45, passes/manager.py 38-51): whoever changes   *)
(* the program invalidates what it has made wrong, and nobody after the    *)
(* first change needs liveness before registers are allocated.             *)
NeverReadsStale == \A c \in consulted : c[2] = c[3]

(* What the report says of the kernel is about the program that was        *)
(* lowered: every pipeline ends by recording it again (pipelines.py 34-37, *)
(* 49-78, 100-121; reports/compilation.py 180).                            *)
FinalFacts ==
    stage = "done" =>
        /\ blocks = lowered[1]
        /\ level # "0" => metadata.uniformity = lowered[1]

(* Except at O3 the registers of the output were allocated for the program *)
(* that was lowered, not for one that was rewritten since (pipelines.py    *)
(* 71-74, 115-117; compiler.py 46-48).                                     *)
MappingMatches ==
    stage = "done" /\ level # "3" /\ lowered[2] # None => lowered[2] = lowered[1]

=============================================================================
