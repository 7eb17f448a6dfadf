--------------------------- MODULE ScheduleProgram ---------------------------
(***************************************************************************)
(* The post-lowering entry point schedule_lowered of passes/scheduler.py:  *)
(* it cuts the lowered program into blocks at its leaders, schedules each  *)
(* block of more than two instructions (module Scheduler), and writes the  *)
(* result back in place, so that a branch target, an index of the program, *)
(* needs no patching.                                                      *)
(***************************************************************************)
EXTENDS Scheduler, SequencesExt, TLC

CONSTANT Programs      \* the lowered programs handed to the scheduler

ASSUME ProgramsAssumption ==
    \A p \in Programs : p \in Seq(Instruction) /\ WellTyped(p)

VARIABLES
    program,       \* lowered.instructions as they came in
    instructions,  \* the list that is rewritten block by block
    start          \* the leader whose block comes next

outer == <<program, instructions, start>>
allVars == <<vars, outer>>

(* Mutants of Leaders: a branch target starts no block; the instruction    *)
(* after a HALT does not.                                                  *)
LeadersNoTargets ==
    {1} \cup {i + 1 : i \in {j \in 1..(Len(program) - 1) :
                               program[j].op \in {"BR", "HALT"}}}
LeadersNoFollows ==
    {1} \cup ({program[i].imm + 1 : i \in {j \in DOMAIN program :
                                             program[j].op = "BR"}}
              \cap 1..Len(program))

(* The target of a branch is a 0-based index; one at the end of the        *)
(* program (a label after the last instruction) starts no block.           *)
Leaders ==
    LET n == Len(program)
        At(i) == program[i]
        Targets == {At(i).imm + 1 : i \in {j \in 1..n : At(j).op = "BR"}}
        Follows == {i + 1 : i \in {j \in 1..n : At(j).op \in {"BR", "HALT"}}}
    IN  {1} \cup ((Targets \cup Follows) \cap 1..n)

(* The leaders in order: the block of start ends before the next one.      *)
NextLeader == Min({l \in Leaders : l > start} \cup {Len(program) + 1})
BlockLength == NextLeader - start

ProgramInit ==
    /\ program \in Programs
    /\ instructions = program
    /\ start = 1
    /\ pc = "idle"
    /\ block = <<>> /\ idx = 1 /\ lastStore = 0
    /\ lastWrite = [r \in Reg |-> 0]
    /\ pendingReads = [r \in Reg |-> {}]
    /\ waiting = <<>> /\ ready = {} /\ scheduled = <<>>

MoreBlocks == Len(program) > 2 /\ start <= Len(program)

SkipBlock ==
    /\ pc = "idle"
    /\ MoreBlocks
    /\ BlockLength <= 2
    /\ start' = NextLeader
    /\ UNCHANGED <<vars, program, instructions>>

(* The locals of the call start afresh, whatever the previous block left.  *)
StartBlock ==
    /\ pc = "idle"
    /\ MoreBlocks
    /\ BlockLength > 2
    /\ block' = SubSeq(instructions, start, NextLeader - 1)
    /\ pc' = "build"
    /\ idx' = 1
    /\ lastStore' = 0
    /\ lastWrite' = [r \in Reg |-> 0]
    /\ pendingReads' = [r \in Reg |-> {}]
    /\ waiting' = [i \in DOMAIN block' |-> {}]
    /\ ready' = {}
    /\ scheduled' = <<>>
    /\ UNCHANGED outer

BlockStep ==
    /\ Build \/ BuildDone \/ Finish \/ \E best \in Pos : Issue(best)
    /\ UNCHANGED outer

WriteBackStays ==              \* a mutant: the loop does not move on
    /\ pc = "done"
    /\ instructions' = [p \in DOMAIN program |->
                          IF p \in start..(NextLeader - 1)
                          THEN block[scheduled[p - start + 1]]
                          ELSE instructions[p]]
    /\ pc' = "idle"
    /\ UNCHANGED <<program, start, block, idx, lastStore, lastWrite,
                   pendingReads, waiting, ready, scheduled>>

WriteBack ==
    /\ pc = "done"
    /\ instructions' = [p \in DOMAIN program |->
                          IF p \in start..(NextLeader - 1)
                          THEN block[scheduled[p - start + 1]]
                          ELSE instructions[p]]
    /\ start' = NextLeader
    /\ pc' = "idle"
    /\ UNCHANGED <<program, block, idx, lastStore, lastWrite, pendingReads,
                   waiting, ready, scheduled>>

ProgramNext == SkipBlock \/ StartBlock \/ BlockStep \/ WriteBack

ProgramSpec == ProgramInit /\ [][ProgramNext]_allVars
ProgramFairSpec == ProgramSpec /\ WF_allVars(ProgramNext)

-----------------------------------------------------------------------------
(* Properties.                                                             *)

Finished == pc = "idle" /\ ~MoreBlocks

(* Where control can leave or enter: after a branch or HALT, and before    *)
(* the instruction a branch goes to.                                       *)
Cuts == {i \in DOMAIN program : InstKind(program[i]) = "CONTROL"}
        \cup {program[i].imm : i \in {j \in DOMAIN program :
                                        /\ program[j].op = "BR"
                                        /\ program[j].imm < Len(program)}}

(* No instruction ever crosses a branch, a HALT or a branch target: up to  *)
(* every such point the list holds the same instructions as the program    *)
(* did, whatever block is being rewritten (scheduler.py 158-180).          *)
NothingCrossesACut ==
    \A c \in Cuts : \A x \in {program[i] : i \in DOMAIN program} :
        Cardinality({p \in 1..c : instructions[p] = x})
          = Cardinality({p \in 1..c : program[p] = x})

(* Branches and HALTs do not move, so the targets recorded in them and the *)
(* leaders computed before the first block stay right (scheduler.py        *)
(* 158-180).                                                               *)
ControlStays ==
    \A p \in DOMAIN program :
        \/ InstKind(program[p]) = "CONTROL"
        \/ InstKind(instructions[p]) = "CONTROL"
        => instructions[p] = program[p]

(* Every store of the program is still executed after everything that      *)
(* stands before it in its block, and stores keep their order: the list of *)
(* stores is the same one, at every point of the rewriting.                *)
StoresOf(list) ==
    LET UpTo[n \in 0..Len(list)] ==
            IF n = 0 THEN <<>>
            ELSE IF InstKind(list[n]) = "STORE" THEN Append(UpTo[n - 1], list[n])
            ELSE UpTo[n - 1]
    IN  UpTo[Len(list)]
StoresUnchanged == StoresOf(instructions) = StoresOf(program)

(* Every block is rewritten in the end.                                    *)
ProgramTerminates == <>Finished

=============================================================================
