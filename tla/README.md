# A model of the AEC compiler

`aec_compiler` translates a restricted PTX to the 128-bit instructions of the AEC target. It is a sequential program: what is hard in it is not concurrency between processes but the freedom of its inputs (any control flow, any reuse of registers), passes that keep facts about a program which later passes change, and worklists that must end at the right fixpoint. The one truly parallel object is the warp the code runs on. This directory holds TLA+ modules for its core algorithms, TLC configurations that check them on small inputs, and TLAPS proofs about the scheduler, the register allocator, the control-flow analyses, dead-code elimination, the local scalar passes and constant propagation for inputs of any size. Two compositions run a kernel as it was written and then what the compiler made of it, and show that the second implements the first.

## The system

| Part (under `src/src/aec_compiler`) | State | Operations | What makes it correct |
|---|---|---|---|
| `ptx.py`, `ir/model.py` | the list of items, labels and instructions | parse | pure text conversion |
| `analysis/cfg.py` | blocks and edges | build, dominators, back edges, natural loops | edges are those of execution; the fixpoints are the definitions |
| `analysis/liveness.py` | one range per definition | one pass over the text | ranges cover what may still be read |
| `analysis/uniformity.py` | uniform / varying per register | one pass over the text | a "uniform" branch never diverges |
| `analysis/manager.py`, `passes/manager.py`, `pipelines.py`, `foundation.py` | cached facts, the program, metadata | get, run a pass, invalidate | no pass reads facts of another program |
| `passes/local_scalar.py`, `experimental.py` | expression, alias, constant and load tables | scan items, forget at boundaries | what is rewritten computes the same |
| `passes/global_cp.py`, `global_dce.py` | constants per block end; live set and worklist | iterate, rewrite | facts hold on all paths; only the dead goes |
| `passes/licm.py`, `memory.py`, `gemm.py`, `block_simplify.py` | loops, items moved, removed or doubled | one pass each | same effects on every path |
| `passes/register_allocation.py` | free list, active entries, mapping | expire, assign, fall back | values that are live together are kept apart |
| `legacy_lowering.py` | code so far, register map, control plan | one method per opcode | same effects; `BRX` only where lanes agree |
| `passes/scheduler.py` | dependence graph, ready list | build, issue, splice | no dependence is turned round |
| `isa.py`, `sim.py` | words; lanes of a warp | encode, decode, step | round trip; the meaning of an instruction |
| `compiler.py`, `reports/`, `objdump.py` | the result | call the others in order | glue and text |

The driver parses, builds the pipeline of the optimisation level, lets the pass manager run it over one `IRModule`, hands program and `register_mapping` to the `Lowerer`, and at O2 and O3 the lowered code to the scheduler. Components share the module (program and metadata) and the analysis cache; everything else is passed by call. Nothing is persisted and nothing is retried, so there is no crash, loss or timeout to model.

## Modules

| Module | Models | State and actions against the code |
|---|---|---|
| `AecInstruction` | instruction record, what it reads and writes, the second registers of pairs included (`isa.py`, `sim.py`), how the scheduler sees it | pure |
| `Reorder` | abstract promise: a block is issued in some order that respects its dependences, or left as it is | `Emit` |
| `Scheduler` | `_schedule_block` | `Build` is one turn of the loop that adds edges, `Issue` one turn of the loop that takes from the ready list |
| `ScheduleProgram` | `schedule_lowered`, extends `Scheduler` | leaders, `SkipBlock`, `StartBlock`, the scheduler's steps, `WriteBack` |
| `LinearScan` | lines 91-148 of the allocator | `Expire` and `Keep` look at one active entry, `AssignScalar`, `AssignPair`, `NoRoomForPair`, `Fallback` are the branches of one turn |
| `Ptx` | items, operands, execution, constants (`_helpers.py`) | pure |
| `LocalScalar` | dead results, local CSE, constant folding, load reuse | the tables of each pass; one action per kind of item; two lanes execute the old and the new items beside it |
| `Cfg` | `build_cfg` | pure; a block is its first position |
| `CfgAnalysis` | dominators, back edges, natural loops | `Round`, `Visit`, `WalkBack`: one turn of each loop |
| `GlobalCp` | `GlobalConstantPropagationPass` | `Visit` is one block of a round, `Rewrite` one item; then both programs execute in lockstep |
| `GlobalDce` | `GlobalDeadCodeEliminationPass` | `Seed`, `Mark` |
| `Liveness` | `analyze_liveness`, merging and loop extension (lines 47-92 of the allocator) | pure, with the definition of liveness over paths as reference |
| `RegisterAllocation` | composes the three before with `LinearScan` and the `RegisterAllocator` of lowering | dead code, intervals, scan, `StartLowering`, `Allocate`, `RunsOut`, then execution on virtual and physical registers together |
| `Pipeline` | analysis cache, pass manager, the pass lists, the driver | `RunPass`, `Get`, `Lower`, `Schedule`; a program is a version number |
| `StoreTrace` | abstract promise of a compiler: the source's stores are promised, lane by lane, and what it was compiled to issues them, in that order, all and no others | `Promise`, `Seal`, `Issue` |
| `Kernel` | items with predicates and comparisons, and the step one lane takes (`sim.py` 162-411 for one lane, `_helpers.py`) | pure; `StepOf`, `StoreDue`, `LoadDue` |
| `LoopMotion` | `licm.py`, `memory.py` | pure; what moves, and where to, is decided for all loops on the program as it was, then everything moves at once |
| `BlockSimplify` | `block_simplify.py` | pure; which blocks lead on, where their chains end, what loses its label |
| `Unroll` | `gemm.py` | pure; names of blocks and their order as strings, which loop is taken, the second copy, renaming, the doubled step |
| `LoopPasses` | one of these four passes between two executions | `StepSource`, `RunPass` for each pass, `StepRewritten` |
| `Uniformity` | `uniformity.py` | pure; classes before and after each item |
| `ControlPlan` | `legacy_lowering.py` 525-686 | pure; the plan is a record, one branch is legalised at a time |
| `AecIsa` | `isa.py`, profile `C1_DEFAULT` | pure; three words are numbers, the control half a set of bits |
| `Lowering` | the rest of `legacy_lowering.py` | pure; the output (code, registers given out, patches, temporaries) is a record, `LowerItem` one turn of the loop over items |
| `Warp` | `sim.py` | pure; `ExecuteLane` per instruction, stores of a warp in lane order |
| `Lanes` | `compile_ptx`, `write_binary` and `run` | `Analyse`, `Legalise`, `Lower`, `Assemble`, then `Execute`, `Branch`, `BranchX`, `Halt` of the simulator |
| `SchedulerProofs`, `LinearScanProofs`, `CfgProofs`, `CfgAnalysisProofs`, `RegisterAllocationProofs`, `LocalScalarProofs`, `GlobalCpProofs`, `LanesProofs` | theorems | see Proofs |

A module `XMC` and its `.cfg` instantiate `X`. Definitions said to be "a mutant" in a comment are plausible errors used to see that a property can fail; no specification uses them.

Operations that a pass treats alike share one name (`add` stands for `sub`, `shl`, ...; `and` for the logical ones; `st` for any effect; `setp` for a read that control depends on; `fma` for an operation that the helpers do not know). A word has 2 bits where values matter; f32 arithmetic is an arbitrary operator. In `Ptx` and what is built on it without `Kernel`, predicates are left out of execution: a guard or guarded branch goes either way, which is more than any predicate does, and identical in the two executions that are compared. In `Kernel` predicates are registers, because code that moves across a branch, or a guard that replaces one, is right only if the branch goes as it does.

## Runs

| Run | Shows | Bounds |
|---|---|---|
| `scheduler` | each instruction is issued once; register, memory and control order hold; stores are barriers; it ends; it implements `Reorder` | blocks of up to 4 of nine instructions and an optional `BR` or `HALT`: any two accesses and one in between; two registers by name and a third as the second of a pair, by a load and a copy of two words |
| `scheduler_data` (violation) | "all data dependencies" (`DataOrder`): a `CMPP` passes a guarded store before it, which then runs under the new predicate | the same instructions, up to 2 and the optional end |
| `schedule_program` | nothing crosses a branch, a `HALT` or a target; branches and the list of stores stay | programs with backward, forward and past-the-end targets, two rewritten blocks |
| `linear_scan` | live ranges are kept apart until the fallback runs, no register is lost, pairs are aligned, 32-bit registers stay unmapped only under full pressure | all overlaps of 5 intervals, scalar or pair, on 5 registers: full, fragmented and released files all occur |
| `local_scalar` | the rewritten items have the effects of the old ones; each table tells the truth | 4 items of a palette, 4-word memory; two uses, a redefinition and a boundary fit |
| `cfg` | edges are those of execution; dominators and loops are those of the definition; it ends; what is refused | 6 items, two labels, a branch backwards: nested, shared-header and two-entry shapes; every kernel of 3 items for refusals |
| `global_cp` | constants at a block hold on every path; rewriting is never noticed; 20 rounds are enough | 4 items between a prologue and an epilogue, two labels |
| `pipeline` | no pass works on stale facts; final facts and mapping belong to the lowered program, the mapping except at O3 | every choice of which passes change something |
| `register_allocation` | dead code is exactly what feeds no effect; intervals cover liveness, loops included; reads find their values in the physical registers | 4 items between a prologue and an epilogue, two labels with at least one branch; 4 virtual registers, one a pair, on 5 |
| `loop_passes` | after invariant code motion, load hoisting, block simplification or unrolling a kernel makes the stores it made before (it implements `StoreTrace`), loads from no other address, and every target exists | loops tested at the end or at the start, entered by falling, a jump or past a branch that skips them, with 2 items of a palette and optionally one that only some iterations execute, 0 to 3 iterations; labels that sort before and after the names of blocks without one; every layout of three labelled blocks after the entry; 8 registers, 2-bit words, up to 6 stores followed |
| `lanes` | a compiled and encoded kernel makes the stores that each lane makes by itself (it implements `StoreTrace`), lanes of a warp agree at every `BRX`, decoding gives back what was lowered | 920 kernels: a test of lane, parameter, memory, block or an unknown register jumps over up to 2 pieces (stores, arithmetic, loads and moves of one and two words, loops of uniform and varying length), then 4 endings; 2 blocks of 3 lanes on warps of 2, so a warp is split, cut short and followed by another; 64-valued words |
| `lanes_varying` (violation) | lanes disagree at a `BRX` the compiler emitted | the same kernels without restriction, 1 piece |

Fairness. Each component is one sequential loop that runs whenever it can, so fairness is that of the whole loop, never of a chosen branch of it: weak fairness of `Next` in `Scheduler`, `ScheduleProgram` and `CfgAnalysis`, where it gives termination and convergence of the fixpoint; of `StepRewritten` in `LoopPasses` and of `Run` in `Lanes`, because the simulator goes on while there is a next instruction. These two are what the weak fairness of `Issue` in `StoreTrace` is derived from: every promised store is made at last. The step limit of the simulator is not modelled, and a source that never ends promises for ever and is not compiled. `LinearScan` is checked for safety only, as are the models that execute beside the compilation (`GlobalCp`, `RegisterAllocation`), since a kernel may loop for ever. `CHECK_DEADLOCK FALSE` is given where the loop ends, or where an access out of range or a refused instruction ends the simulation.

Inputs, or orders, that are left out, each because the code is wrong or silent there:

- `local_scalar`: kernels with an expression over its own destination, a removed definition carried round a loop, or a load reused after its register was written (`AdmissibleCse`, `AdmissibleReuse`); see the findings.
- `scheduler`: `RegisterOrder` and `Reorder` do not ask for an order between an instruction that reaches a register as the second of a pair and one that names it, nor through predicates (`AlignedConflict`); `scheduler_data` asks for both, and is violated.
- `cfg`: guarded returns (finding); labels called `entry` or `block_<n>`, which clash with the names of blocks.
- `global_cp`: guarded definitions (finding), registers that are read before they are written, and branches to the first item.
- `register_allocation`: a branch backwards that closes no loop (finding) and registers read before they are written.
- `linear_scan`: registers are only kept apart until the fallback runs (finding).
- `loop_passes` (`Works`): invariants that are read before they are defined or whose operands have a definition the pass does not see, or move past an item that is not a branch (`InvariantsWork`); loads outside of the header or behind a branch that may skip the loop (`LoadsWork`); unrolled bodies that use the counter, execute an item only in some iterations, or read a result outside, and loops whose blocks have names in another order than that of the text (`UnrollingWorks`); blocks that are fallen into and only jump, and unreachable blocks that lead to each other (`MergingWorks`).
- `lanes` (`Works`): varying branches that cannot be turned into guards, which is the finding of `lanes_varying`; regions with a return, a guard of their own, a write to the region's guard, or a loop counter that is read afterwards (`RegionWorks`); uniform branches that depend on a guarded definition, or on one register defined with two classes (`BranchWorks`).

Dominators and worklists visit in any order in the models: the code's order depends on names and set iteration, and the results do not. Unrolling is the exception: it looks for the back edge in the order of the names, so `Unroll` compares them as the code does. A block has the name of its label, or `block_<n>`; `Late` are the labels that are greater than such a name, as strings (`loop`), the others are less (`LOOP`).

## Findings

Two runs show the code against its documents: `scheduler_data` (there is no edge between a guarded instruction and a `CMPP` that writes its guard) and `lanes_varying` (a varying branch that cannot be legalised becomes `BRX`). The others are in `PROJECT.json` with their lines and quotes. Where the kernels of a run leave a case out, a run with other constants shows it. Those of `loop_passes` were besides reproduced by running the code of O0, O2 and O3 in the simulator of the repository:

| Finding | How to see it |
|---|---|
| the second register of a pair has no edges: a copy of two words that reads it and a write by name, or a load of two words that writes it and a read by name, change places | `SchedulerMC` with `SchedulerData.cfg` and `Guard = NoReg`: `DataOrder`; reproduced with the compiler at O2 |
| the allocator's fallback frees a register that is in use | `LinearScanMC`, `NumIntervals = 6`, `PairsFrom = 4`: `NoOverlap` |
| a loaded value is reused after its register was written; an expression over its own destination is recorded | `LocalScalarMC`, `Strict = FALSE`, `Passes = {"reuse"}` or `{"cse"}`: `FactsHold`, `SameEffects` |
| a constant survives a guarded definition | `GlobalCpMC`, `Unseen <- GuardedDefinitions`: `EntryConstantsHold`, `SameState` |
| unrolling does not copy `fma` | `LoopPassesMC`, `Fma = TRUE`, `FloatAdd <- Plus`, `BodyLength = 1`, `Passes = {"loop-unrolling"}`: `KeepsItsStores` |
| invariant code motion places code before the last item of the preheader, overwrites a register of a loop that is left early or reads it first, and misses definitions by `fma` | `LoopPassesMC`, `Strict = FALSE` (and `Fma = TRUE`), `Passes = {"loop-invariant-code-motion"}`: `KeepsItsStores` |
| load hoisting places a load in the same way, and hoists out of loops that are not entered | `LoopPassesMC`, `Strict = FALSE`, `Passes = {"load-hoisting"}`: `NoNewLoads` |
| unrolling copies what an iteration skips, what reads the counter, and renames what two items carry round | `LoopPassesMC`, `Strict = FALSE`, `Passes = {"loop-unrolling"}`: `KeepsItsStores` |
| unrolling takes the last branch in the order of names for the back edge, and copies the body before the branch that leaves a loop tested at its start | the same; without `NamedInOrder` in `UnrollingWorks` also with `Strict = TRUE` |
| a jump block that is fallen into is removed; an unreachable block stays and its target goes | `LoopPassesMC`, `Strict = FALSE`, `Passes = {"block-simplification"}`: `KeepsItsStores`, `TargetsDefined` |
| a guarded item, a new value of the guard, or a loop counter read afterwards, in a legalised region; a uniform class from the last definition in the text; a return in a region | `LanesMC`, `Strict = FALSE`: `KeepsEachLanesStores` or `BranchesAgree` |
| ranges follow the text: two live registers share one | reproduced with the compiler at O2 |
| a third definition's read of its own register belongs to no range | reproduced with `analyze_liveness` |
| a guarded `ret` and a guarded `ld.param` lose their guards; the simulator compares `s32` as unsigned | reproduced with the compiler and the simulator |

## Proofs

Eight modules hold theorems. Each names its inductive invariant, has one lemma per action, and combines them once. What is proved holds for every value of the constants; the assumptions on them are the named `ASSUME`s of the component's module, which TLC evaluates on every run.

| Module | For | States |
|---|---|---|
| `SchedulerProofs` | blocks of any length over any registers | types, `RegisterOrder`, `MemoryOrder`, `StoreIsBarrier`, `ControlLast`, `Complete`, and that the scheduler implements `Reorder` |
| | programs of any length | `ControlStays`, `NothingCrossesACut`, `StoresUnchanged` |
| `LinearScanProofs` | any register file and sorted intervals | types, `SafeUntilFallback`, `PairsAligned`, `UnmappedOnlyWhenFull`, `Conserved` |
| `CfgProofs` | any kernel, any finite graph | lemmas: what blocks, edges and `Reachable` are; what executing an item of `Ptx` reads and writes |
| `CfgAnalysisProofs` | any kernel but the empty one, any order of visits | `EdgesMatchExecution`, `DominatorsCorrect`, `LoopsCorrect` |
| `RegisterAllocationProofs` | any kernel, any order of the worklist, any register file | `OnlyDeadRemoved`; that every register of a kernel that runs has a place |
| | any kernel in view of liveness | `RangesCover`, `ReadsReach` |
| `LocalScalarProofs` | any kernel in view of the pass, all four passes | `SameEffects`, `ReadsSameValues`, `FactsHold`, `AgreeWhereControlMeets` |
| `GlobalCpProofs` | any kernel in view of the pass, any bound on the rounds | `EntryConstantsHold`, `SameState`, `Converged` |
| `LanesProofs` | any kernel that lowering has methods for | `DecodesToWhatWasMeant`; lemma: the encoding round trip |

**Scheduler.** The assumptions are `RegAssumption` and `BlocksAssumption` (a branch or `HALT` stands only at the end of a block). None of the properties is inductive. The invariant `IInv` has three parts. `TInv` is types. `GraphInv` says what the tables of the first loop name (the last write and last store before `idx`, the reads since) and that the edges built so far make an instruction wait for everything that `MustPrecede` it by a register or by a store before a load (`EdgeInv`). `IssueInv` says that a position waits only for earlier ones that are not issued, that `ready` is what waits for nothing, that nothing is issued twice, and, with `OrderInv`, that what must precede an issued instruction was issued before it. The part of `MustPrecede` that has no edge, a store or control after anything, is where the priorities come in: a store is taken only when nothing else is ready, an earlier one before a later one, and the least unissued position is always ready. `Complete` says that the `ValueError` cannot be raised. `RegisterOrder` is about conflicts between two instructions that name a register or that both reach it as the second of a pair; the second case follows from the first, because a pair is its first register and the next one (`AlignedIsNamed`), and no edge is built for it. It cannot be widened to all conflicts: `scheduler_data` and the finding about pairs refute that.

**Whole programs** (`ProgramsAssumption`: instructions name registers). The list is at any moment the program reordered by some permutation of its positions (`InOrder`) that crosses no cut, moves no branch and no `HALT`, never swaps two stores and leaves everything from the next leader on where it is. While a block is scheduled, the scheduler's own `IInv` holds of it (`BlockInv`), so its theorems apply; `WriteBack` composes the permutation with the order of issue on the positions of the block. `StoresUnchanged` then needs that two lists which a permutation relates that keeps the order of stores have the same list of stores, which is why `StoresOf` is a recursive function that a lemma can unfold.

**Linear scan** (`MaxGprAssumption`, `InputsAssumption`). The invariant is types, `Ahead` (later intervals are unmapped), `PairsAligned`, and until the fallback runs `Pooled`: no register is listed twice (`Apart`) and none is missing (`Whole`); a mapped register of an interval is in an active entry with the interval's end, or the interval has ended (`Covered`); an active entry belongs to a mapped interval (`Owned`), and one that was kept has not ended (`StillLive`); intervals that overlap do not share (`Unshared`); mapped registers are in the file (`Within`); an unmapped scalar met a full file (`Full`). `Conserved` is `Apart` and `Whole`. `Fallback` breaks `Pooled`, which is the finding; `PairsAligned` survives it. That intervals are sorted is all the scan assumes of them, and `IntervalsSorted` proves it of those that `Liveness` computes; so the invariant holds again inside `RegisterAllocation`.

**Graphs.** `CfgProofs` shows that leaders cut the items into blocks (`BlocksCover`, `BlockOfFacts`), that an edge leads from the end of a block exactly to the blocks of what executes next (`FollowsFacts`), and that the rounds of `Reachable` end after as many rounds as there are nodes, in the least set that has the start and is closed (`ReachableIsLeast`, `ReachableIsClosed`: a strictly growing chain of subsets of a finite set cannot be longer). Three other modules rest on it.

**Dominators and loops** (`InputsAssumption`: kernels are sequences of items and not empty). A dominator is never dropped, because a path to a predecessor that avoids it goes on to the block (`Kept`). What stays listed dominates: once a round has changed nothing all blocks satisfy the equation (`Settled`), so the blocks that do not list `d` are closed under the edges that avoid `d`. The walk of a loop stays among the blocks that reach the tail past the header, and what it has looked at has all its predecessors in the body (`Walking`); when nothing is left, the blocks outside cannot reach the tail. An empty kernel has no block; `build_cfg` refuses it before anything else (`CFGError`), and the assumption leaves it out.

**Dead code** (`KernelsAssumption`: sequences of items that name registers). What is marked feeds an effect; what is marked and off the worklist has all its sources marked (`Followed`). When the worklist is empty nothing unmarked feeds what is marked.

**From ranges to registers** (`KernelsAssumption`: besides, a label reads nothing). `RangesCover` and `ReadsReach` are stated under `InView` of what dead-code elimination has left, when intervals were computed from it at all. `InView` says that `build_cfg` accepts the kernel, that no path reads a register it has not written (`WrittenFirst`), that a branch backwards closes a loop (`LoopsOnly`) and that a register which a loop reads has, in the loops or later, a use that liveness counts (`Counted`). The last two are findings about `analysis/liveness.py`, lines 96 and 103: ranges follow the text, and a third definition's read of its own register is counted for no definition. Every kernel of the run is in view once its dead code is gone, which TLC confirmed when it checked the invariant on the run.

None of the code's ranges is computed from paths, so the proof has to connect the two. Whatever is executed can be reached without going back (`OnwardClosed`): the target of a branch backwards is the header of a loop, which dominates the branch, so the path to the branch has passed it. If a register is live at such an item, its first definition stands above: otherwise the way there from the first item, which only goes on, writes it nowhere, and it is live at the first item, against `WrittenFirst`. The item that reads it next stands below, or above. If it is below, the last use is no earlier. If it is above, the path goes back at some branch, and the branch, its target and what is read are in the hull of the loops, to whose end the range was extended (`LoopHull`, `LoopStarts`; the label the branch leads to is no instruction, so the first one after it has to be found in the loop, through any number of labels). So the range holds the item (`RangeHolds`), and two ranges that hold one item overlap.

`AllocationInvariant` then carries through the phases: `DceInv`; the invariant of `LinearScan` (`ScanInv`); that two registers have a place in common only if the scan gave it to both and their intervals are apart, because lowering's own allocator takes nothing that is reserved (`PlaceInv`); and that what may still be read is where its register is, in the terms of the model `holds[p] = madeBy[r]` (`Current`). An item that stays overwrites no place of a register that is still to be read (`WritesApart`, from `RangesCover` and `PlaceInv`), an item that was removed writes nothing that is read (`RemovedFacts`), and positions of the old kernel and of the new one correspond along every step (`KeptSteps`). Without optimisation there are no intervals, no register shares its place, and no hypothesis is needed.

**Local scalar passes** (`InputsAssumption`: kernels are sequences of items, whatever writes a register names it, a load has an address; `RegistersAssumption`: finitely many registers, so that a chain of aliases has a bound; `StartsAssumption`: lanes start in states, and arrive at labels with any register values that are words). The theorems state the properties under `Admissible(pass, items)`, which is `TRUE` for dead results and folding, `AdmissibleCse` and `AdmissibleReuse` for the other two. They leave out the two findings about these passes and the like: an instruction that reads what it defines, a register that a scope reads before it defines it and that no other scope reads; a write to a register that a load wrote or, by a load or `fma`, to the one it loads from, before the next barrier. The run's kernels are chosen by the same definitions, and with `Strict = FALSE` it shows that the properties fail without them. For folding and load reuse both lanes are in one state; what has to be carried along is where a cached load comes from (`Cached`). A dead result makes the lanes differ where nothing reads. For common subexpressions every register agrees in both lanes (`Agrees`), or was removed in a scope that has ended (`Gone`), or was removed in this one (`Aliased`): then the register that stands for it has its value and no alias of its own until it is read for the last time, or it is not read again (`Represented`, `Unread`). That an alias has no alias of its own makes `Resolve` one step (`ResolveFacts`), which the code's loop does not show. `AgreeWhereControlMeets` is where a removed register must not be `Gone` and read first: a read in the same scope before its definition is what `AdmissibleCse` speaks of, any other read keeps the definition from being removed.

**Constant propagation** (`InputsAssumption`, `StartsAssumption`, `RoundsAssumption`). The theorems state the properties under `InView(items)`: no definition is guarded or made by `fma`, and nothing leads back to the first item. The first two are the finding that the pass does not see such writes; the third is that the meet ignores the entry of the kernel. With either, `EntryConstantsHold` is false, and the hypothesis is exactly what the run leaves out. The iteration starts from knowing nothing and a visit only ever adds to what is known (`EntryMonotone`, `ChainMonotone`), so at any moment what is recorded for the end of a block follows from what is recorded for its predecessors (`Founded`). Soundness needs no more than that, whether the 20 rounds were enough or not. In the execution, facts that hold before an item hold after it (`ItemKeepsFacts`, `ArrivalKeepsFacts`), and an item rewritten with facts that hold does what it did (`SameEffect`). `Converged` needs to know what a round has done (`RoundsInv`): a block that was visited without change since the round began still follows from its predecessors, and a round that changes anything learns a fact. So the iteration ends in a fixpoint unless it is cut off, and it is not cut off when more rounds are allowed than there are pairs of a block and a register (`ConvergedHolds`). The code allows 20; a larger kernel may be cut off, and is then rewritten with fewer constants, but soundly.

**Encoding** (`LoweringAssumption`: registers that are handed out, and the temporaries above them, have 16-bit numbers, and predicates are `p0` to `p7`; `KernelsAssumption`: items have the operands that the method for their opcode asks for, and parameters lie within the address space). `RoundTrip` is about the format alone. A field of three or four bits is the sum of its bits (`FieldIsSum`), the fields of the control half have no bit in common (`ControlFields`), and no two names have one encoding, so an instruction that fits (`Fitting`) is decoded as what it means. `Fitting` is what the code never checks: `encode_instruction` masks every field to its width, so a number that is too large would be cut off in silence. The rest of the proof is that lowering stays within it. The numbers of registers and temporaries fit (`PlaceAllFacts`, which unfolds the placing of all operands of an item; `OperandsFit`); every instruction of every method fits (`InstrsFit`); a guard that the control plan adds fits (`GuardedFits`); and patching writes an address of the code into branches only, which use no other immediate (`PatchedFits`). The invariant carries this from stage to stage. `DecodedIsMeant` has the condition `Len(out.code) < W`: an address must fit in a word, which is 2^32 in the code. TLC evaluates the invariant in all states of the `lanes` run when its membership in `Fitting` is written out field by field.

## Only model-checked

- Liveness and convergence: termination of `Scheduler`, `ScheduleProgram` and `CfgAnalysis`, the two refinements of `StoreTrace` with theirs (the prover has no rule for fairness).
- `LoopPasses`, and `BranchesAgree` of `Lanes`: their passes are recursive functions over a whole kernel, and what they compute for every kernel is an induction over its items with an invariant over the output, not over steps. `BranchesAgree` needs besides that lanes which read the same uniform registers have taken the same way to them.
- `Pipeline` needs no proof: its pass lists are constants of the code, and the run goes through all three levels and every choice of what changes.

## Plan

The components are modelled as far as is said below; what is left are proofs, in this order:

1. `TargetsDefined` of `LoopPasses` for the passes that move or copy items.
2. `StoreTrace`: what was issued is always the beginning of what was promised.

## Not modelled

- Text without state: the parser, number formatting, reports, the disassembler's text and the command line.
- The predicate mapping of the allocator, which is computed and read by nothing.
- The profile `TRACK_B_V1` and conversions (`cvt`), which the profile `C1_DEFAULT` has no opcode for.
- The simulator's step limit and the traces it records, and its instructions that lowering never emits.
- 64-bit arithmetic beyond the width of a register pair: addresses are 32 bits, and lowering adds the low halves and clears the high one.
- The composition of all passes of a pipeline in one execution: each pass is checked for kernels of its own, because what one leaves to the next has no bound worth choosing; `Pipeline` checks the facts and mapping they hand over.
- The binary cycle model, which has no source here.
