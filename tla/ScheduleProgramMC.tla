-------------------------- MODULE ScheduleProgramMC --------------------------
(***************************************************************************)
(* Small instances of ScheduleProgram: every program of up to MaxBody      *)
(* instructions and a final HALT, from a palette of a load, an immediate,  *)
(* two stores, a HALT and branches that go backward, forward and, in the   *)
(* longest programs, past the end.  With MaxBody = 5 a program can hold    *)
(* two blocks long enough to be rewritten.                                 *)
(***************************************************************************)
EXTENDS ScheduleProgram

CONSTANT MaxBody

Ins(op, d, s, k) == [op |-> op, dest |-> d, srcs |-> s, wide |-> FALSE,
                     guard |-> NoReg, imm |-> k]

Palette == { Ins("LD", 2, {1}, 0),
             Ins("ALU", 1, {}, 0),
             Ins("ST", NoReg, {2}, 0),
             Ins("ST", NoReg, {1}, 0),
             Ins("HALT", NoReg, {}, 0) }
           \cup {Ins("BR", NoReg, {}, t) : t \in {1, 3, MaxBody + 1}}

Halt == Ins("HALT", NoReg, {}, 0)

MCPrograms == {Append(body, Halt) : body \in BoundedSeq(Palette, MaxBody)}

(* The blocks are those that ScheduleProgram cuts; none is given.          *)
MCBlocks == {<<>>}

=============================================================================
