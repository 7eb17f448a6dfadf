---------------------------- MODULE LocalScalarMC ----------------------------
(***************************************************************************)
(* Small instances of LocalScalar: for each pass every sequence of Length  *)
(* items from a palette made for it, followed by stores that observe the   *)
(* registers.  Words have two bits.  Strict restricts the inputs to those  *)
(* the passes are right about (Admissible).                                *)
(***************************************************************************)
EXTENDS LocalScalar

CONSTANTS Length, Strict, Passes

It(op, ty, d, s) == [op |-> op, ty |-> ty, dst |-> d, srcs |-> s,
                       guard |-> FALSE, lbl |-> NoLabel]
Guarded(i) == [i EXCEPT !.guard = TRUE]
Mark == [It("label", "u32", NoReg, <<>>) EXCEPT !.lbl = "L"]
Bra == [It("bra", "u32", NoReg, <<>>) EXCEPT !.lbl = "L"]
Store(a, d) == It("st", "u32", NoReg, <<R(a), R(d)>>)

(* Not associative, not commutative, and different from the integers.      *)
MCFloatAdd(a, b) == (2 * a + b + 1) % W
MCFloatMul(a, b) == (a * b + 2) % W
MCAnd(a, b) == (a % 2) * (b % 2) + 2 * ((a \div 2) * (b \div 2))

Palette == [
    dre |-> { It("mov", "u32", 1, <<I(2)>>), It("add", "u32", 2, <<R(1), R(3)>>),
              It("ld", "u32", 2, <<R(1)>>), Guarded(It("mov", "u32", 1, <<I(3)>>)),
              It("setp", "u32", NoReg, <<R(2), R(1)>>),
              It("fma", "f32", 3, <<R(1), R(1), R(1)>>), Mark },
    cse |-> { It("add", "u32", 1, <<R(3), R(2)>>), It("add", "u32", 2, <<R(3), R(2)>>),
              It("add", "u32", 4, <<R(3), R(2)>>), It("add", "u32", 4, <<R(1), R(3)>>),
              It("add", "u32", 1, <<R(4), R(3)>>), It("add", "u32", 1, <<R(1), R(2)>>),
              It("mov", "u32", 3, <<R(4)>>), It("mov", "u32", 3, <<R(1)>>), Mark },
    fold |-> { It("mov", "u32", 1, <<I(3)>>), It("mov", "f32", 1, <<F(3)>>),
               It("mov", "s32", 2, <<R(1)>>), It("add", "u32", 2, <<R(1), I(2)>>),
               It("add", "s32", 1, <<R(2), R(1)>>),
               It("add", "f32", 2, <<R(1), R(1)>>),
               It("mul", "f32", 1, <<R(2), F(1)>>), Mark,
               It("and", "u32", 2, <<R(1), R(1)>>),
               Guarded(It("mov", "u32", 1, <<I(0)>>)) },
    reuse |-> { It("ld", "u32", 1, <<R(3)>>), It("ld", "u32", 2, <<R(3)>>),
                It("ld", "f32", 2, <<R(3)>>), It("ld", "u32", 3, <<R(1)>>),
                It("add", "u32", 3, <<R(3), I(1)>>), It("add", "u32", 2, <<R(1), I(1)>>),
                Store(3, 2), Mark, Guarded(It("ld", "u32", 1, <<R(3)>>)) } ]

Observers == [dre |-> <<Store(3, 2)>>,
              cse |-> <<It("add", "u32", 3, <<R(4), R(1)>>), Store(3, 2), Bra>>,
              fold |-> <<Store(1, 2)>>,
              reuse |-> <<Store(1, 2)>>]

MCInputs ==
    UNION {{<<p, its \o Observers[p]>> : its \in [1..Length -> Palette[p]]} : p \in Passes}
AdmissibleInputs == {in \in MCInputs : Strict => Admissible(in[1], in[2])}

Starting(r, f) == [reg |-> r, mem |-> f, seen |-> <<>>]
MCStarts == {Starting(<<1, 2, 3, 0>>, [a \in Word |-> (a + 2) % W]),
             Starting(<<0, 3, 1, 2>>, [a \in Word |-> 3 - a])}
MCArrivals == {<<2, 0, 1, 3>>, <<3, 1, 2, 1>>}
=============================================================================
