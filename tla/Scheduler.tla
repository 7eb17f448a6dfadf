------------------------------ MODULE Scheduler ------------------------------
(***************************************************************************)
(* The list scheduler of one basic block: _schedule_block of               *)
(* passes/scheduler.py.  It first walks the block once and collects, for   *)
(* every instruction, the earlier instructions it has to wait for; then it *)
(* repeatedly issues the best instruction that waits for nothing.          *)
(*                                                                         *)
(* Positions are 1..Len(block) here and 0..n-1 in the code.  The code      *)
(* keeps a count of unresolved dependencies per instruction (dep_count)    *)
(* and a list of dependents per instruction, and adds to both together;    *)
(* here waiting[i] is the set of the dependencies still counted for i.     *)
(***************************************************************************)
EXTENDS AecInstruction, Sequences, FiniteSets

CONSTANT Blocks        \* the blocks handed to the scheduler

(* Leaders are taken after every BR, BRX and HALT (schedule_lowered), so a *)
(* control instruction is the last one of its block.                       *)
WellFormed(b) == \A i \in 1..(Len(b) - 1) : InstKind(b[i]) # "CONTROL"

(* Only instructions with a destination have one, and only loads and       *)
(* copies are wide.                                                        *)
WellTyped(b) == \A i \in 1..Len(b) : /\ HasDest(b[i]) => b[i].dest \in Reg
                                     /\ b[i].wide => b[i].op \in {"LD", "ALU"}

ASSUME BlocksAssumption ==
    \A b \in Blocks : b \in Seq(Instruction) /\ WellFormed(b) /\ WellTyped(b)

VARIABLES
    block,         \* insts: the block in program order
    pc,            \* "build", "issue", "done" or "error" (the ValueError)
    idx,           \* the next position to build, while pc is "build"
    lastStore,     \* last_store_idx, 0 for None
    lastWrite,     \* last_write_pos: register -> position, 0 when absent
    pendingReads,  \* pending_reads: register -> reads since its last write
    waiting,       \* dep_count: position -> unresolved dependencies
    ready,         \* ready: positions that wait for nothing
    scheduled      \* scheduled: positions in issue order

vars == <<block, pc, idx, lastStore, lastWrite, pendingReads, waiting, ready,
          scheduled>>

Pos == 1..Len(block)
Issued == {scheduled[k] : k \in DOMAIN scheduled}

(* A dependency is its kind and the position it waits for.                 *)
DepKind == {"RAW", "WAR", "WAW", "MEM"}

Init == /\ block \in Blocks
        /\ pc = IF Len(block) <= 2 THEN "done" ELSE "build"
        /\ idx = 1
        /\ lastStore = 0
        /\ lastWrite = [r \in Reg |-> 0]
        /\ pendingReads = [r \in Reg |-> {}]
        /\ waiting = [i \in Pos |-> {}]
        /\ ready = {}
        /\ scheduled = IF Len(block) <= 2 THEN [i \in Pos |-> i] ELSE <<>>

-----------------------------------------------------------------------------
(* Building the dependences of one instruction.                            *)

(* The closest definition of r before position i, if there is one; the     *)
(* definitions are those of the whole block (all_def_pos).                 *)
DefPos(r) == {d \in Pos : HasDest(block[d]) /\ block[d].dest = r}
ClosestDefAtOrBefore(r, i) ==     \* a mutant: <= for < in line 58
    {d \in DefPos(r) : d <= i /\ \A e \in DefPos(r) : e <= i => e <= d}
ClosestDef(r, i) == {d \in DefPos(r) : /\ d < i
                                       /\ \A e \in DefPos(r) : e < i => e <= d}

(* Mutants of the definitions below, for the configurations to catch.      *)
RawDepsUnchecked(i) ==        \* without the test closest_def >= 0
    {<<"RAW", d>> : d \in UNION {IF ClosestDef(r, i) = {} THEN {0}
                                 ELSE ClosestDef(r, i) :
                                   r \in SourceRegs(block[i])}}
WarDepsMissing(i) == {}       \* without the edges of lines 71-75
WarDepsOwnRead(i) ==          \* reads are recorded before the write
    IF HasDest(block[i])
    THEN {<<"WAR", p>> : p \in pendingReads[block[i].dest]
                               \cup (IF block[i].dest \in SourceRegs(block[i])
                                     THEN {i} ELSE {})}
    ELSE {}
WawDepsMissing(i) == {}
MemDepsMissing(i) == {}

RawDeps(i) == {<<"RAW", d>> : d \in UNION {ClosestDef(r, i) :
                                             r \in SourceRegs(block[i])}}
WarDeps(i) == IF HasDest(block[i])
              THEN {<<"WAR", p>> : p \in pendingReads[block[i].dest]}
              ELSE {}
WawDeps(i) == IF HasDest(block[i]) /\ lastWrite[block[i].dest] # 0
              THEN {<<"WAW", lastWrite[block[i].dest]>>}
              ELSE {}
MemDeps(i) == IF InstKind(block[i]) = "LOAD" /\ lastStore # 0
              THEN {<<"MEM", lastStore>>}
              ELSE {}

Dependences(i) == RawDeps(i) \cup WarDeps(i) \cup WawDeps(i) \cup MemDeps(i)

(* A write settles the reads before it; then the reads of the instruction  *)
(* itself start to count, also those of the register it writes.            *)
ReadsAfter(i) ==
    [r \in Reg |->
        (IF HasDest(block[i]) /\ block[i].dest = r THEN {} ELSE pendingReads[r])
        \cup (IF r \in SourceRegs(block[i]) THEN {i} ELSE {})]

Build ==
    /\ pc = "build"
    /\ idx <= Len(block)
    /\ waiting' = [waiting EXCEPT ![idx] = Dependences(idx)]
    /\ ready' = IF Dependences(idx) = {} THEN ready \cup {idx} ELSE ready
    /\ lastWrite' = IF HasDest(block[idx])
                    THEN [lastWrite EXCEPT ![block[idx].dest] = idx]
                    ELSE lastWrite
    /\ pendingReads' = ReadsAfter(idx)
    /\ lastStore' = IF InstKind(block[idx]) = "STORE" THEN idx ELSE lastStore
    /\ idx' = idx + 1
    /\ UNCHANGED <<block, pc, scheduled>>

BuildDone ==
    /\ pc = "build"
    /\ idx > Len(block)
    /\ pc' = "issue"
    /\ UNCHANGED <<block, idx, lastStore, lastWrite, pendingReads, waiting,
                   ready, scheduled>>

-----------------------------------------------------------------------------
(* Issuing.                                                                *)

(* Mutants of Priority.                                                    *)
PriorityStoreEarly(i) ==      \* all memory accesses first
    CASE InstKind(block[i]) \in {"LOAD", "STORE"} -> 0
      [] InstKind(block[i]) = "COMPUTE" -> 1
      [] InstKind(block[i]) = "CONTROL" -> 1000 + (i - 1)
PriorityNoControl(i) ==       \* BR and HALT compete with computations
    CASE InstKind(block[i]) = "LOAD" -> 0
      [] InstKind(block[i]) \in {"COMPUTE", "CONTROL"} -> 1
      [] InstKind(block[i]) = "STORE" -> 2 + (i - 1)
PriorityStoresBackward(i) ==  \* later stores first
    CASE InstKind(block[i]) = "LOAD" -> 0
      [] InstKind(block[i]) = "COMPUTE" -> 1
      [] InstKind(block[i]) = "STORE" -> 2 + (Len(block) - i)
      [] InstKind(block[i]) = "CONTROL" -> 1000 + (i - 1)

Priority(i) == CASE InstKind(block[i]) = "LOAD" -> 0
                 [] InstKind(block[i]) = "COMPUTE" -> 1
                 [] InstKind(block[i]) = "STORE" -> 2 + (i - 1)
                 [] InstKind(block[i]) = "CONTROL" -> 1000 + (i - 1)

Before(i, j) == \/ Priority(i) < Priority(j)
                \/ Priority(i) = Priority(j) /\ i <= j

(* The dependencies of i that issuing p leaves.                            *)
Without(i, p) == {d \in waiting[i] : d[2] # p}

Issue(best) ==
    /\ pc = "issue"
    /\ best \in ready
    /\ \A i \in ready : Before(best, i)
    /\ scheduled' = Append(scheduled, best)
    /\ waiting' = [i \in Pos |-> Without(i, best)]
    /\ ready' = (ready \ {best})
                \cup {i \in Pos : waiting[i] # {} /\ Without(i, best) = {}}
    /\ UNCHANGED <<block, pc, idx, lastStore, lastWrite, pendingReads>>

Finish ==
    /\ pc = "issue"
    /\ ready = {}
    /\ pc' = IF Len(scheduled) = Len(block) THEN "done" ELSE "error"
    /\ UNCHANGED <<block, idx, lastStore, lastWrite, pendingReads, waiting,
                   ready, scheduled>>

Next == \/ Build
        \/ BuildDone
        \/ \E best \in Pos : Issue(best)
        \/ Finish

Spec == Init /\ [][Next]_vars

(* The scheduler is one sequential loop: nothing makes it stop between two *)
(* iterations.                                                             *)
FairSpec == Spec /\ WF_vars(Next)

-----------------------------------------------------------------------------
(* Properties.                                                             *)

TypeOK ==
    /\ block \in Seq(Instruction)
    /\ pc \in {"build", "issue", "done", "error"}
    /\ idx \in 1..(Len(block) + 1)
    /\ lastStore \in 0..Len(block)
    /\ lastWrite \in [Reg -> 0..Len(block)]
    /\ pendingReads \in [Reg -> SUBSET Pos]
    /\ waiting \in [Pos -> SUBSET (DepKind \X Pos)]
    /\ ready \subseteq Pos
    /\ scheduled \in Seq(Pos)

(* No instruction is issued before an earlier instruction that is in       *)
(* conflict with it in the given sense.                                    *)
KeepsOrder(Conflict(_, _)) ==
    \A k \in DOMAIN scheduled : \A j \in 1..(scheduled[k] - 1) :
        Conflict(block[j], block[scheduled[k]]) =>
            \E m \in 1..(k - 1) : scheduled[m] = j

(* Two accesses to one general register of which one is a write keep their *)
(* program order if both instructions name the register or both reach it   *)
(* as the second of a pair, although only the closest definition, the      *)
(* reads since the last write and the last write get an edge, no second    *)
(* register gets one, and predicate numbers and unused operand fields add  *)
(* edges of their own (scheduler.py 54-84; sim.py 230-239, 284-286).       *)
RegisterOrder == KeepsOrder(AlignedConflict)

(* Two memory accesses of which one is a store keep their program order.   *)
(* The graph has store-to-load edges only: that a load never passes a      *)
(* later store, and that stores stay in order, rests on the priorities     *)
(* (scheduler.py 86-107).                                                  *)
MemoryOrder == KeepsOrder(MemoryConflict)

(* The branch or HALT that ends a block stays its last instruction, so the *)
(* block boundaries and branch targets of schedule_lowered stay right.     *)
ControlLast == KeepsOrder(ControlConflict)

(* The scheduler respects "all data dependencies" (scheduler.py 4-5):      *)
(* those through predicates, of a guarded instruction and the CMPP that    *)
(* sets its guard, and those through both registers of a pair.             *)
DataConflict(a, b) == RegisterConflict(a, b) \/ PredicateConflict(a, b)
DataOrder == KeepsOrder(DataConflict)

(* The graph always resolves: when nothing is ready any more, every        *)
(* instruction has been issued exactly once, so the ValueError of          *)
(* scheduler.py 121-122 is never raised (scheduler.py 109-124).            *)
Complete == pc \in {"done", "error"} => /\ Issued = Pos
                                        /\ Len(scheduled) = Len(block)

(* Issuing a store leaves no earlier instruction behind: a store is a      *)
(* barrier for everything before it, although only loads after it wait for *)
(* it (scheduler.py 86-107).                                               *)
StoreIsBarrier ==
    \A k \in DOMAIN scheduled :
        InstKind(block[scheduled[k]]) = "STORE" =>
            \A j \in 1..(scheduled[k] - 1) :
                \E m \in 1..(k - 1) : scheduled[m] = j

(* Every block is scheduled in the end (scheduler.py 109-124).             *)
Terminates == <>(pc = "done")

(* The scheduler does what module Reorder promises: it emits each          *)
(* instruction once, after all earlier ones it conflicts with through      *)
(* memory, control or a register both name or both have as the second of   *)
(* a pair (scheduler.py 18-125).                                           *)
Promise == INSTANCE Reorder
Implements == Promise!Spec

=============================================================================
