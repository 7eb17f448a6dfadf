----------------------------- MODULE GlobalCpMC -----------------------------
(***************************************************************************)
(* Kernels that load one register and set another, then do any Length      *)
(* things of a palette with two labels, and add the two.  As the first     *)
(* block is never branched to, no register is read before it is defined.   *)
(* Unseen adds what the dataflow does not see.                             *)
(***************************************************************************)
EXTENDS GlobalCp

CONSTANTS Length,
          Unseen        \* items of the palette that the dataflow passes over

It(op, ty, d, s) == [op |-> op, ty |-> ty, dst |-> d, srcs |-> s,
                     guard |-> FALSE, lbl |-> NoLabel]
Guarded(i) == [i EXCEPT !.guard = TRUE]
Mark(l) == [It("label", "u32", NoReg, <<>>) EXCEPT !.lbl = l]
Bra(l) == [It("bra", "u32", NoReg, <<>>) EXCEPT !.lbl = l]

MCFloatAdd(a, b) == (2 * a + b + 1) % W
MCFloatMul(a, b) == (a * b + 2) % W
MCAnd(a, b) == (a % 2) * (b % 2) + 2 * ((a \div 2) * (b \div 2))

Palette ==
    { It("mov", "u32", 1, <<I(1)>>), It("mov", "u32", 1, <<I(2)>>),
      It("mov", "f32", 2, <<F(1)>>), It("add", "u32", 1, <<R(2), R(1)>>),
      It("and", "u32", 2, <<R(1), I(3)>>), It("ld", "u32", 1, <<R(2)>>),
      Mark("A"), Mark("B"), Bra("B"), Guarded(Bra("A")), Guarded(Bra("B")) }
GuardedDefinitions == {Guarded(It("mov", "u32", 1, <<I(3)>>))}

Before == <<It("ld", "u32", 2, <<I(0)>>), It("mov", "u32", 1, <<I(1)>>)>>
After == <<It("add", "u32", 2, <<R(1), R(2)>>)>>

Tidy(its) == /\ ~ Malformed(its)
             /\ \A j, k \in DOMAIN its :
                   its[j] = Mark("B") /\ its[k] = Mark("A") => k < j
             /\ \E k \in DOMAIN its : its[k].op = "bra"
MCInputs ==
    {its \in {Before \o its \o After :
                its \in [1..Length -> Palette \cup Unseen]} :
        Tidy(its)}

MCStarts == {[reg |-> <<0, 3>>, mem |-> [a \in Word |-> m], seen |-> <<>>] : m \in {1, 2}}
=============================================================================
