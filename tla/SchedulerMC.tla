----------------------------- MODULE SchedulerMC -----------------------------
(***************************************************************************)
(* Small instances of Scheduler.  A block is MaxBody instructions or fewer *)
(* from Palette, then possibly a branch or HALT.  The palette is what the  *)
(* lowering emits, on four registers: loads, stores, immediates (no        *)
(* source), arithmetic, compares into predicate 1, guarded instructions,   *)
(* and a load and a copy of register pairs.                                *)
(***************************************************************************)
EXTENDS Scheduler, SequencesExt

CONSTANTS MaxBody,
          Guard        \* 1, or NoReg for blocks without guards

Ins(op, d, s, g) == [op |-> op, dest |-> d, srcs |-> s, wide |-> FALSE,
                     guard |-> g, imm |-> 0]
Wide(op, d, s) == [Ins(op, d, s, NoReg) EXCEPT !.wide = TRUE]

Palette == {
    Wide("LD",  2,     {1}),             \* LD.b64 R2, [R1], which writes R3
    Wide("ALU", 1,     {2}),             \* CPY.b64 R1, R2, which reads R3
    Ins("LD",   1,     {2},    Guard),   \* @P1 LD R1, [R2]
    Ins("ST",   NoReg, {1, 2}, NoReg),   \* ST [R1], R2
    Ins("ST",   NoReg, {2},    Guard),   \* @P1 ST [R2], R2
    Ins("ALU",  1,     {},     NoReg),   \* LOADI R1
    Ins("ALU",  2,     {1},    Guard),   \* @P1 CPY R2, R1
    Ins("FMA",  1,     {1, 2}, NoReg),   \* FMA R1, R1, R2, R2
    Ins("CMPP", 1,     {2},    NoReg) }  \* CMPP P1, R2, R2

Ends == {<<>>, <<Ins("BR", NoReg, {}, 1)>>, <<Ins("HALT", NoReg, {}, NoReg)>>}

MCBlocks == {b \o e : b \in BoundedSeq(Palette, MaxBody), e \in Ends} \ {<<>>}

=============================================================================
