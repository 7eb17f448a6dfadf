-------------------------------- MODULE Lanes ---------------------------------
(***************************************************************************)
(* From a kernel to what its lanes do.  Every lane runs the kernel as it   *)
(* was written, by itself; then the kernel is analysed, its branches are   *)
(* legalised one by one, its items are lowered one by one and the result   *)
(* is encoded; then the simulator decodes it and runs it, block by block   *)
(* and warp by warp (compile_ptx and write_binary of legacy_lowering.py,   *)
(* and sim.py).                                                            *)
(***************************************************************************)
EXTENDS Lowering, Warp

CONSTANTS Kernels,             \* records: items, types and values of parameters
          Blocks, Threads,     \* the grid: blocks, and threads of each
          WarpSize,
          Memory               \* global memory at the start

ASSUME GridAssumption == Blocks \in Nat /\ {Threads, WarpSize} \subseteq Nat \ {0}

(* What the parser lets through and lowering has a method for: items with  *)
(* the operands the method asks for, and parameters whose offsets are words*)
KernelItem == [op : Op, ty : Type \cup {"u64"}, dst : Reg \cup {NoReg},
               srcs : Seq(Operand \cup {Tid, Ctaid} \cup {"param"} \X Nat),
               guard : BOOLEAN, lbl : Label \cup {NoLabel},
               pred : Reg \cup {NoReg}, neg : BOOLEAN, cmp : DOMAIN Compares]
Registers == {"reg"} \X Reg
Sources(op, types) ==
    CASE op = "mov" -> [1..1 -> Operand \cup {Tid, Ctaid}]
      [] op \in {"add", "mul", "and", "setp"} -> [1..2 -> Operand]
      [] op = "fma" -> [1..3 -> Operand]
      [] op = "ld" -> [1..1 -> Registers \cup {Param(n) : n \in DOMAIN types}]
      [] op = "st" -> [1..2 -> Registers]
      [] OTHER -> {<<>>}
Lowerable(i, types) == /\ i.srcs \in Sources(i.op, types)
                       /\ i.op \in PureOp \cup {"ld", "fma"} => i.dst \in Reg
                       /\ i.op = "setp" => i.dst \in Predicates
                       /\ i.guard => i.pred \in Predicates
ASSUME KernelsAssumption ==
    \A k \in Kernels :
        /\ k.items \in Seq(KernelItem)
        /\ \A n \in DOMAIN k.items : Lowerable(k.items[n], k.types)
        /\ \A n \in DOMAIN k.types : Layout(k.types)[n] \in 0..(W - 5)

LaneIds == (0..(Blocks - 1)) \X (0..(Threads - 1))

VARIABLES kernel,
          stage,       \* "source", "plan", "lower", "run", then "end"; or
                       \* "refused", if the compiler gives up
          lanes,       \* the lanes that run the source
          plan, at, out,        \* the control plan, the next item, the output
          code,        \* what the simulator decoded
          warp, pc, threads, gmem,      \* the warp that runs
          promised, sealed, issued      \* see StoreTrace, for each lane

compiling == <<plan, at, out, code>>
running == <<warp, pc, threads, gmem>>
traces == <<promised, sealed, issued>>
vars == <<kernel, stage, lanes, compiling, running, traces>>

its == kernel.items
Offsets == Layout(kernel.types)
Pmem == [a \in {Offsets[k] : k \in DOMAIN kernel.types}
                 \cup {Offsets[k] + 4 : k \in {j \in DOMAIN kernel.types :
                                                  SizeOf[kernel.types[j]] = 8}} |->
            IF \E k \in DOMAIN kernel.types : Offsets[k] = a
            THEN kernel.params[CHOOSE k \in DOMAIN kernel.types : Offsets[k] = a] ELSE 0]

(* run: the warps of a block are cut from its threads in order.            *)
WarpsPerBlock == (Threads + WarpSize - 1) \div WarpSize
Warps == Blocks * WarpsPerBlock
LanesOf(w) ==                  \* the lanes of warp w, in order
    LET first == ((w - 1) % WarpsPerBlock) * WarpSize
        count == IF Threads - first < WarpSize THEN Threads - first ELSE WarpSize
    IN  [n \in 1..count |-> <<(w - 1) \div WarpsPerBlock, first + n - 1>>]
NewWarp(w) == [n \in DOMAIN LanesOf(w) |-> Thread(LanesOf(w)[n][1], LanesOf(w)[n][2])]

Init == /\ kernel \in Kernels
        /\ stage = "source"
        /\ lanes = [l \in LaneIds |-> Lane(l[1], l[2], [r \in Reg |-> 0], Memory)]
        /\ plan = <<>> /\ at = 0 /\ out = StartOutput /\ code = <<>>
        /\ warp = 0 /\ pc = 0 /\ threads = <<>> /\ gmem = Memory
        /\ promised = [l \in LaneIds |-> <<>>] /\ issued = [l \in LaneIds |-> <<>>]
        /\ sealed = FALSE

-----------------------------------------------------------------------------
(* The source.  Lanes do not read what others store, so their order does   *)
(* not matter; what has an access out of range is no kernel.               *)
Unfinished == {l \in LaneIds : ~ Ended(its, lanes[l])}
FirstLane(ls) ==
    CHOOSE l \in ls : \A m \in ls : l[1] < m[1] \/ (l[1] = m[1] /\ l[2] <= m[2])
InRange(l) ==
    /\ LoadDue(its, l) \subseteq DOMAIN Memory
    /\ \A n \in DOMAIN StoreDue(its, l) : StoreDue(its, l)[n][1] \in DOMAIN Memory
StepSource ==
    /\ stage = "source" /\ Unfinished # {}
    /\ LET l == FirstLane(Unfinished)
       IN  /\ InRange(lanes[l])
           /\ lanes' = [lanes EXCEPT ![l] = StepOf(its, @, kernel.params)]
           /\ promised' = [promised EXCEPT ![l] = @ \o StoreDue(its, lanes[l])]
    /\ UNCHANGED <<kernel, stage, compiling, running, sealed, issued>>

(* Lowerer.__init__: build_cfg, analyze_uniformity, _build_control_plan.   *)
Analyse ==
    /\ stage = "source" /\ Unfinished = {}
    /\ stage' = IF Malformed(its) THEN "refused" ELSE "plan"
    /\ plan' = IF Malformed(its) THEN plan ELSE StartPlan(its)
    /\ UNCHANGED <<kernel, lanes, at, out, code, running, traces>>

ToLegalise == {b \in ConditionalBranches(its) : b > at /\ b \notin plan.uniform}
Legalise ==
    /\ stage = "plan" /\ ToLegalise # {}
    /\ at' = CHOOSE b \in ToLegalise : \A c \in ToLegalise : b <= c
    /\ plan' = LegaliseBranch(at', its, plan)
    /\ UNCHANGED <<kernel, stage, lanes, out, code, running, traces>>

StartLowering ==
    /\ stage = "plan" /\ ToLegalise = {}
    /\ stage' = "lower" /\ at' = 1
    /\ UNCHANGED <<kernel, lanes, plan, out, code, running, traces>>

Lower ==
    /\ stage = "lower" /\ at <= Len(its) /\ ~ out.failed
    /\ out' = LowerItem(at, its, Offsets, plan, out)
    /\ at' = at + 1
    /\ UNCHANGED <<kernel, stage, lanes, plan, code, running, traces>>

CompileError ==
    /\ stage = "lower" /\ out.failed
    /\ stage' = "refused"
    /\ UNCHANGED <<kernel, lanes, compiling, running, traces>>

(* write_binary, and decoding what was written.                            *)
Assemble ==
    /\ stage = "lower" /\ at > Len(its) /\ ~ out.failed
    /\ LET patched == Patched(its, out)
       IN  IF \A n \in DOMAIN patched : Encodable(patched[n]) /\ Decodable(Encode(patched[n]))
           THEN /\ code' = [n \in DOMAIN patched |-> Decode(Encode(patched[n]))]
                /\ stage' = "run" /\ sealed' = TRUE
                /\ warp' = 1 /\ threads' = NewWarp(1)
           ELSE stage' = "refused" /\ UNCHANGED <<code, sealed, warp, threads>>
    /\ UNCHANGED <<kernel, lanes, plan, at, out, pc, gmem, promised, issued>>

-----------------------------------------------------------------------------
(* _run_warp.  SimulationError ends the run where it is raised: past the   *)
(* end of the code, at a guarded BR or HALT, at a BRX that lanes disagree  *)
(* on, at an access out of range, there is no step.                        *)
Running(ops) == stage = "run" /\ pc < Len(code) /\ code[pc + 1].op \in ops
Inst == code[pc + 1]
SimulatedOps == {"LOADI", "LOADI64", "CPY", "LD", "ST", "ADD", "MUL", "FMA", "AND", "CMPP"}
Faulty == \E n \in DOMAIN threads :
             GuardPasses(Inst, threads[n]) /\ Faults(Inst, threads[n], Pmem)

Execute ==
    /\ Running(SimulatedOps) /\ ~ Faulty
    /\ threads' = [n \in DOMAIN threads |-> ExecuteLane(Inst, threads[n], gmem, Pmem)]
    /\ gmem' = AfterStores(Inst, threads, gmem)
    /\ issued' = [l \in LaneIds |->
                     IF \E n \in DOMAIN threads : LanesOf(warp)[n] = l
                     THEN issued[l] \o
                          StoreOf(Inst, threads[CHOOSE n \in DOMAIN threads :
                                                   LanesOf(warp)[n] = l])
                     ELSE issued[l]]
    /\ pc' = pc + 1
    /\ UNCHANGED <<kernel, stage, lanes, compiling, warp, promised, sealed>>

Branch ==
    /\ Running({"BR"}) /\ Inst.pred = NoPredicate
    /\ pc' = Inst.imm
    /\ UNCHANGED <<kernel, stage, lanes, compiling, warp, threads, gmem, traces>>

BranchX ==
    /\ Running({"BRX"}) /\ Uniform(Inst, threads)
    /\ pc' = IF AllTake(Inst, threads) THEN Inst.imm ELSE pc + 1
    /\ UNCHANGED <<kernel, stage, lanes, compiling, warp, threads, gmem, traces>>

Halt ==
    /\ Running({"HALT"}) /\ Inst.pred = NoPredicate
    /\ pc' = 0
    /\ IF warp < Warps
       THEN warp' = warp + 1 /\ threads' = NewWarp(warp + 1) /\ stage' = stage
       ELSE stage' = "end" /\ UNCHANGED <<warp, threads>>
    /\ UNCHANGED <<kernel, lanes, compiling, gmem, traces>>

Run == Execute \/ Branch \/ BranchX \/ Halt
Next == \/ StepSource \/ Analyse \/ Legalise \/ StartLowering \/ Lower
        \/ CompileError \/ Assemble \/ Run

(* The simulator goes on while there is a next instruction.                *)
Spec == Init /\ [][Next]_vars /\ WF_vars(Run)

-----------------------------------------------------------------------------
(* Whatever guards replace its branches, whatever registers and encoding it*)
(* is given, and together with whatever lanes it runs: a compiled kernel   *)
(* makes the stores that each lane makes in the source, in their order,    *)
(* all of them, and none besides.                                          *)
Promised == INSTANCE StoreTrace WITH Who <- LaneIds, promised <- promised,
                                     sealed <- sealed, issued <- issued
KeepsEachLanesStores == Promised!Spec

(* A branch that is left a branch takes all lanes of a warp the same way:  *)
(* "BRX may be emitted only for branches proven uniform"                   *)
(* (docs/ARCHITECTURE_INVARIANTS.md:56), and what is proven is so.         *)
BranchesAgree == Running({"BRX"}) => Uniform(Inst, threads)

(* What is decoded is what was lowered: no field of the control word       *)
(* reaches into another, and guards, spaces and 64-bit immediates survive  *)
(* (isa.py, encode_instruction and decode_words_to_instruction).           *)
DecodesToWhatWasMeant ==
    stage = "run" /\ warp = 1 /\ pc = 0 =>
        LET patched == Patched(its, out)
        IN  code = [n \in DOMAIN patched |-> Meant(patched[n])]

=============================================================================
