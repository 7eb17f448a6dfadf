--------------------------- MODULE AecInstruction ---------------------------
(***************************************************************************)
(* The part of an AEC instruction (isa.py, AECInstruction) that ordering   *)
(* depends on, the three helpers passes/scheduler.py classifies it with,   *)
(* and what the warp simulator (sim.py) really reads and writes.           *)
(*                                                                         *)
(* A number names a general register when the opcode is not CMPP and a     *)
(* predicate register when it is: AECInstruction has one `dest' field for  *)
(* both, and the scheduler does not tell them apart.                       *)
(***************************************************************************)
EXTENDS Integers

CONSTANTS Reg,      \* the register numbers in use; 0 is always one of them
          NoReg     \* the absence of a destination or of a guard

ASSUME RegAssumption == /\ Reg \subseteq 0..255
                        /\ 0 \in Reg
                        /\ NoReg \notin Reg

(* LD, ST, CMPP and BR/BRX/HALT by name; every three-operand arithmetic    *)
(* opcode is FMA and every other computing opcode ALU.                     *)
Opcode == {"LD", "ST", "CMPP", "ALU", "FMA", "BR", "HALT"}

(* srcs: the operand registers the opcode uses.  The fields src1..src3 it  *)
(* does not use keep their default 0 (see SourceRegs).  wide: LOADI64,     *)
(* CPY.b64, CPY.f64 and LD.b64, which access register pairs and name the   *)
(* first register of each.  imm: the target of a branch, an index of the   *)
(* program.                                                                *)
Instruction == [op : Opcode, dest : Reg \cup {NoReg}, srcs : SUBSET Reg,
                wide : BOOLEAN, guard : Reg \cup {NoReg}, imm : Nat]

-----------------------------------------------------------------------------
(* What the scheduler believes.                                            *)

InstKind(inst) == CASE inst.op \in {"BR", "HALT"} -> "CONTROL"
                    [] inst.op = "ST" -> "STORE"
                    [] inst.op = "LD" -> "LOAD"
                    [] OTHER -> "COMPUTE"

HasDest(inst) == inst.op \notin {"ST", "BR", "HALT"}

(* All three fields are taken, so a field left at its default reads R0.    *)
SourceRegs(inst) == IF inst.op = "FMA" THEN inst.srcs ELSE inst.srcs \cup {0}

-----------------------------------------------------------------------------
(* What execution does.                                                    *)

NamedWrites(inst) == IF HasDest(inst) /\ inst.op # "CMPP" THEN {inst.dest} ELSE {}
NamedReads(inst) == inst.srcs

(* The second registers of its pairs: a wide load has a pair for its       *)
(* destination only, a wide copy for its source as well.                   *)
SecondWrites(inst) == IF inst.wide THEN {r + 1 : r \in NamedWrites(inst)} ELSE {}
SecondReads(inst) == IF inst.wide /\ inst.op = "ALU" THEN {r + 1 : r \in inst.srcs}
                     ELSE {}

GprWrites(inst) == NamedWrites(inst) \cup SecondWrites(inst)
GprReads(inst) == NamedReads(inst) \cup SecondReads(inst)
PredWrites(inst) == IF inst.op = "CMPP" THEN {inst.dest} ELSE {}
PredReads(inst) == {inst.guard} \ {NoReg}

(* Two instructions whose order execution can observe ...                  *)
Clash(w1, r1, w2, r2) == \/ w1 \cap (w2 \cup r2) # {}
                         \/ r1 \cap w2 # {}

(* ... through a general register,                                         *)
RegisterConflict(a, b) ==
    Clash(GprWrites(a), GprReads(a), GprWrites(b), GprReads(b))

(* (the case that both name the register, or both reach it as the second   *)
(* of a pair: one that only the other names is left out),                  *)
AlignedConflict(a, b) ==
    \/ Clash(NamedWrites(a), NamedReads(a), NamedWrites(b), NamedReads(b))
    \/ Clash(SecondWrites(a), SecondReads(a), SecondWrites(b), SecondReads(b))

(* through memory (no alias analysis: any two accesses but two loads),     *)
MemoryConflict(a, b) ==
    /\ {InstKind(a), InstKind(b)} \subseteq {"LOAD", "STORE"}
    /\ "STORE" \in {InstKind(a), InstKind(b)}

(* through a predicate register,                                           *)
PredicateConflict(a, b) ==
    Clash(PredWrites(a), PredReads(a), PredWrites(b), PredReads(b))

(* or because one of them leaves the block.                                *)
ControlConflict(a, b) == "CONTROL" \in {InstKind(a), InstKind(b)}

=============================================================================
