---------------------------- MODULE LinearScanMC ----------------------------
(***************************************************************************)
(* Small instances of LinearScan.  Only comparisons of a last use with a   *)
(* later first definition matter, so the first definitions are 1, 2, ...   *)
(* and a last use is one of these positions: every pattern of overlaps of  *)
(* NumIntervals intervals, each a scalar or a pair.                        *)
(***************************************************************************)
EXTENDS LinearScan

CONSTANTS NumIntervals,
          PairsFrom      \* intervals before this one are scalars

LastUses == {l \in [1..NumIntervals -> 1..NumIntervals] :
                \A i \in 1..NumIntervals : l[i] >= i}
Widths == {p \in [1..NumIntervals -> BOOLEAN] :
                \A i \in 1..NumIntervals : i < PairsFrom => ~ p[i]}

MCInputs == {[i \in 1..NumIntervals |->
                [pair |-> p[i], first |-> i, last |-> l[i]]] :
                    p \in Widths, l \in LastUses}

=============================================================================
