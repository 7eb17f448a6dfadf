------------------------- MODULE RegisterAllocationMC -------------------------
(***************************************************************************)
(* Kernels that load an address, a pair, and two scalars, do any Length    *)
(* things of a palette with two labels, and store a scalar.  No register   *)
(* is read before it is written, and a branch backwards closes a loop.     *)
(***************************************************************************)
EXTENDS RegisterAllocation

CONSTANTS Length,
          Layouts       \* whether a branch backwards always closes a loop

Zero(a, b) == 0

It(op, d, s) == [op |-> op, ty |-> "u32", dst |-> d, srcs |-> s,
                 guard |-> FALSE, lbl |-> NoLabel]
Guarded(i) == [i EXCEPT !.guard = TRUE]
Mark_(l) == [It("label", NoReg, <<>>) EXCEPT !.lbl = l]
Bra(l) == [It("bra", NoReg, <<>>) EXCEPT !.lbl = l]

Address == 4

Palette ==
    { It("mov", 1, <<I(0)>>), It("mov", 2, <<R(1)>>),
      It("add", 1, <<R(1), R(2)>>), It("fma", 3, <<R(1), R(1), R(1)>>),
      Guarded(It("mov", 2, <<I(0)>>)),
      It("st", NoReg, <<R(Address), R(2)>>), It("st", NoReg, <<R(Address), R(3)>>),
      Mark_("A"), Mark_("B"), Guarded(Bra("A")), Bra("A"), Guarded(Bra("B")), Bra("B") }

Before == <<It("ld", Address, <<I(0)>>), It("mov", 1, <<I(0)>>), It("mov", 2, <<I(0)>>)>>
After == <<It("st", NoReg, <<R(Address), R(1)>>)>>

Tidy(its) == /\ \E k \in DOMAIN its : its[k].op = "bra"
             /\ ~ Malformed(its)
             /\ \A j, k \in DOMAIN its :
                   its[j] = Mark_("B") /\ its[k] = Mark_("A") => k < j
             /\ WrittenFirst(its)
             /\ Layouts => LoopsOnly(its)
MCKernels ==
    {its \in {Before \o its \o After : its \in [1..Length -> Palette]} : Tidy(its)}

(* What the scan is given, so that its assumption is checked of it.        *)
MCInputs == {Intervals(its) : its \in MCKernels}

=============================================================================
