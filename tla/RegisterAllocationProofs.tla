----------------------- MODULE RegisterAllocationProofs -----------------------
(***************************************************************************)
(* Proofs about RegisterAllocation, for every kernel, every register file  *)
(* and whatever the order of the worklist: the removal of dead code, the   *)
(* intervals of what is left, the places registers get, and the            *)
(* execution.                                                              *)
(*                                                                         *)
(* Dead code. What is marked feeds an effect, since what a marked          *)
(* instruction reads feeds all that the instruction feeds. The marked      *)
(* instructions that are off the worklist have all their sources marked    *)
(* (Followed); when the worklist is empty no unmarked instruction feeds a  *)
(* marked one, so none leads to an effect.                                 *)
(*                                                                         *)
(* Ranges. Items that are executed at all can be reached without going     *)
(* back (Onward): a branch backwards leads to the header of a loop, which  *)
(* every path to the branch has passed (OnwardClosed). Let r be live at    *)
(* such an item n. A path that only goes on leads there from the first     *)
(* item, and r is not live at the first, so r is defined above n. r is     *)
(* read on some path from n. If the read is at n or below, so is the last  *)
(* use. If it is above, the path goes back, by a branch of a loop; then r  *)
(* is read in the hull of the loops, to whose end Extended takes the       *)
(* range (LoopStarts). So the range of r holds n (RangeHolds), and two     *)
(* ranges that hold one item overlap (WriteOverlaps).                      *)
(*                                                                         *)
(* Places. The intervals are sorted (IntervalsSorted), so the invariant    *)
(* of the scan holds of them; registers share a place only if the scan     *)
(* gave it to both, one interval after the other (Shared), since lowering  *)
(* hands out nothing that is reserved. Hence no item overwrites a place    *)
(* of another register whose value may still be read (WritesApart), and    *)
(* what is live is where its register is (Current). What was removed is    *)
(* read by nothing that was kept (RemovedFacts).                           *)
(***************************************************************************)
EXTENDS RegisterAllocation, CfgProofs, LinearScanProofs

Effects == {k \in Instructions(items) : SideEffecting(items[k])}

(* From a definition to the instructions that may read it.                 *)
FeedsGraph(its) ==
    [k \in DOMAIN its |->
        {n \in DOMAIN its : Dest(its[k]) # NoReg /\ Dest(its[k]) \in ReadRegs(its[n])}]

Sources(k) == UNION {DefMap(r) : r \in ReadRegs(items[k])}

-----------------------------------------------------------------------------
(* The inductive invariant.                                                *)

Followed == \A k \in live \ worklist : Sources(k) \subseteq live

DceInv ==
    /\ items \in Kernels
    /\ phase \in {"seed", "mark", "scan", "lower", "run", "error"}
    /\ phase # "seed" =>
          /\ Effects \subseteq live
          /\ worklist \subseteq live
          /\ Followed
    /\ phase \in {"mark", "scan"} => live \subseteq NeededBy(items)
    /\ phase \notin {"seed", "mark"} => worklist = {}

-----------------------------------------------------------------------------
(* Facts about what feeds what.                                            *)

(* The kernels that come in, item by item.                                 *)
LEMMA KernelFacts ==
  ASSUME items \in Kernels
  PROVE  /\ items \in Seq(Item) /\ IsFiniteSet(DOMAIN items)
         /\ FeedsGraph(items) \in [DOMAIN items -> SUBSET DOMAIN items]
         /\ \A k \in DOMAIN items : NoReg \notin ReadRegs(items[k])
         /\ Instructions(items) = {k \in DOMAIN items : items[k].op # "label"}
<1>1. items \in Seq(Item) /\ DOMAIN items = 1..Len(items) /\ Len(items) \in Nat
  BY KernelsAssumption
<1>2. IsFiniteSet(DOMAIN items)
  BY <1>1, FS_Interval
<1>3. \A k \in DOMAIN items : NoReg \notin ReadRegs(items[k])
  <2> SUFFICES ASSUME NEW k \in DOMAIN items, NoReg \in ReadRegs(items[k])
               PROVE  FALSE
    OBVIOUS
  <2>1. items[k] \in Item
    BY <1>1
  <2>2. items[k].op = "fma" => items[k].dst \in Reg
    BY KernelsAssumption
  <2>3. NoReg \in RegsIn(items[k].srcs)
    BY <2>2, PtxAssumption DEF ReadRegs
  <2>4. PICK n \in DOMAIN items[k].srcs :
           items[k].srcs[n][1] = "reg" /\ items[k].srcs[n][2] = NoReg
    BY <2>3 DEF RegsIn
  <2>5. items[k].srcs[n] \in Operand
    BY <2>1 DEF Item
  <2> QED BY <2>4, <2>5, PtxAssumption DEF Operand
<1> QED BY <1>1, <1>2, <1>3 DEF FeedsGraph, Instructions, Positions

(* NeededBy: the instructions that lead to an effect.                      *)
LEMMA NeededFacts ==
  NeededBy(items) = {k \in DOMAIN items :
      \E n \in ReachableFrom(k, FeedsGraph(items), {}) :
          items[n].op # "label" /\ SideEffecting(items[n])}
BY DEF NeededBy, FeedsGraph

(* An effect leads to itself.                                              *)
LEMMA EffectsNeeded ==
  ASSUME items \in Kernels
  PROVE  Effects \subseteq NeededBy(items)
<1> SUFFICES ASSUME NEW k \in Effects PROVE k \in NeededBy(items)
  OBVIOUS
<1>1. k \in DOMAIN items /\ items[k].op # "label" /\ SideEffecting(items[k])
  BY KernelFacts DEF Effects
<1>2. k \in ReachableFrom(k, FeedsGraph(items), {})
  BY <1>1, KernelFacts, ReachableIsClosed
<1> QED BY <1>1, <1>2, NeededFacts

(* What an instruction reads leads to whatever the instruction leads to.   *)
LEMMA SourcesNeeded ==
  ASSUME items \in Kernels, NEW k \in NeededBy(items)
  PROVE  Sources(k) \subseteq NeededBy(items)
<1> DEFINE g == FeedsGraph(items)
<1> SUFFICES ASSUME NEW d \in Sources(k) PROVE d \in NeededBy(items)
  OBVIOUS
<1>1. PICK n \in ReachableFrom(k, g, {}) :
         items[n].op # "label" /\ SideEffecting(items[n])
  BY NeededFacts
<1>2. k \in DOMAIN items
  BY NeededFacts
<1>3. PICK r \in ReadRegs(items[k]) : d \in DefMap(r)
  BY DEF Sources
<1>4. d \in DOMAIN items /\ Dest(items[d]) = r /\ r # NoReg
  BY <1>2, <1>3, KernelFacts DEF DefMap
<1>5. k \in g[d]
  BY <1>2, <1>3, <1>4 DEF FeedsGraph
<1> DEFINE D == ReachableFrom(d, g, {})
<1>6. /\ IsFiniteSet(DOMAIN items) /\ g \in [DOMAIN items -> SUBSET DOMAIN items]
      /\ DOMAIN g = DOMAIN items
  BY KernelFacts
<1> HIDE DEF g
<1>7. d \in D /\ ClosedUnder(D, g, {})
  BY <1>4, <1>6, ReachableIsClosed
<1>8. k \in D
  BY <1>5, <1>7 DEF ClosedUnder, Next1
<1>9. ReachableFrom(k, g, {}) \subseteq D
  <2> HIDE DEF D
  <2> QED BY <1>6, <1>7, <1>8, ReachableIsLeast
<1> QED BY <1>1, <1>4, <1>9, NeededFacts DEF g

(* When all sources of what is marked are marked, nothing else leads to an *)
(* effect.                                                                 *)
LEMMA ClosedMarksAreAll ==
  ASSUME items \in Kernels, Effects \subseteq live,
         \A k \in live : Sources(k) \subseteq live
  PROVE  NeededBy(items) \subseteq live
<1> DEFINE g == FeedsGraph(items)
           C == DOMAIN items \ live
<1> SUFFICES ASSUME NEW k \in NeededBy(items), k \notin live PROVE FALSE
  OBVIOUS
<1>1. PICK n \in ReachableFrom(k, g, {}) :
         items[n].op # "label" /\ SideEffecting(items[n])
  BY NeededFacts
<1>2. k \in C
  BY NeededFacts
<1>3. ASSUME NEW c \in C, NEW s \in g[c] PROVE s \in C
  <2>1. /\ s \in DOMAIN items /\ c \in DOMAIN items
        /\ Dest(items[c]) # NoReg /\ Dest(items[c]) \in ReadRegs(items[s])
    BY DEF FeedsGraph
  <2>2. c \in DefMap(Dest(items[c]))
    BY <2>1, KernelFacts DEF DefMap, Dest, PureOp
  <2>3. c \in Sources(s)
    BY <2>1, <2>2 DEF Sources
  <2> QED BY <2>1, <2>3
<1>4. IsFiniteSet(DOMAIN g)
  BY KernelFacts
<1>5. ReachableFrom(k, g, {}) \subseteq C
  <2> HIDE DEF g, C
  <2>1. ClosedUnder(C, g, {})
    BY <1>3 DEF ClosedUnder, Next1
  <2> QED BY <1>2, <1>4, <2>1, ReachableIsLeast
<1>6. n \in C
  BY <1>1, <1>5
<1> QED BY <1>1, <1>6, KernelFacts DEF Effects

-----------------------------------------------------------------------------
(* Steps.                                                                  *)

(* Before marking, and when there is none, the invariant holds.            *)
LEMMA RaInitDceInv == RaInit => DceInv
<1> SUFFICES ASSUME RaInit PROVE DceInv
  OBVIOUS
<1>1. /\ items \in Kernels /\ phase \in {"seed", "lower"} /\ worklist = {}
      /\ phase = "lower" => live = Instructions(items)
  BY DEF RaInit
<1>2. phase = "lower" => Effects \subseteq live /\ Followed
  BY <1>1 DEF Effects, Followed, Sources, DefMap
<1> QED BY <1>1, <1>2 DEF DceInv

(* Marking the instructions with an effect.                                *)
LEMMA SeedStep == DceInv /\ Seed => DceInv'
<1> SUFFICES ASSUME DceInv, Seed PROVE DceInv'
  OBVIOUS
<1>1. /\ items' = items /\ items \in Kernels /\ phase' = "mark"
      /\ live' = Effects /\ worklist' = Effects
  BY DEF DceInv, Seed, Effects
<1>2. Effects' = Effects /\ NeededBy(items)' = NeededBy(items)
  BY <1>1 DEF Effects
<1> QED BY <1>1, <1>2, EffectsNeeded DEF DceInv, Followed

(* Taking one instruction from the worklist: what defines its sources is   *)
(* marked.                                                                 *)
LEMMA MarkStep == ASSUME DceInv, NEW k \in worklist, Mark(k) PROVE DceInv'
<1>1. /\ items' = items /\ items \in Kernels /\ phase = "mark" /\ phase' = "mark"
      /\ live' = live \cup Sources(k)
      /\ worklist' = (worklist \ {k}) \cup (Sources(k) \ live)
  BY DEF DceInv, Mark, Sources
<1>2. /\ Effects \subseteq live /\ live \subseteq NeededBy(items)
      /\ worklist \subseteq live /\ Followed
  BY <1>1 DEF DceInv
<1>3. Effects' = Effects /\ NeededBy(items)' = NeededBy(items)
      /\ \A n : Sources(n)' = Sources(n)
  BY <1>1 DEF Effects, Sources, DefMap
<1>4. Sources(k) \subseteq NeededBy(items)
  BY <1>1, <1>2, SourcesNeeded
<1>5. Followed'
  <2> SUFFICES ASSUME NEW n \in live', n \notin worklist'
               PROVE  Sources(n) \subseteq live'
    BY <1>3 DEF Followed
  <2>1. CASE n = k
    BY <2>1, <1>1
  <2>2. CASE n # k
    <3>1. n \in live \ worklist
      BY <2>2, <1>1
    <3> QED BY <3>1, <1>1, <1>2 DEF Followed
  <2> QED BY <2>1, <2>2
<1> QED BY <1>1, <1>2, <1>3, <1>4, <1>5 DEF DceInv

(* No later phase touches the kernel or its marks.                         *)
LEMMA LaterStep ==
  ASSUME DceInv, UNCHANGED <<items, dce>>,
         \/ phase' = phase
         \/ phase = "mark" /\ worklist = {} /\ phase' = "scan"
         \/ phase \notin {"seed", "mark"} /\ phase' \in {"lower", "run", "error"}
  PROVE  DceInv'
<1>1. items' = items /\ live' = live /\ worklist' = worklist
  BY DEF dce
<1>2. /\ Effects' = Effects /\ NeededBy(items)' = NeededBy(items)
      /\ Followed' <=> Followed
  BY <1>1 DEF Effects, Followed, Sources, DefMap
<1> QED BY <1>1, <1>2 DEF DceInv

(* No step breaks the invariant.                                           *)
LEMMA RaNextKeepsDceInv == DceInv /\ [RaNext]_raVars => DceInv'
<1> SUFFICES ASSUME DceInv, [RaNext]_raVars PROVE DceInv'
  OBVIOUS
<1>1. CASE Dce
  BY <1>1, SeedStep, MarkStep DEF Dce
<1>2. CASE StartScan
  BY <1>2, LaterStep DEF StartScan
<1>3. CASE Scan
  BY <1>3, LaterStep DEF Scan
<1>4. CASE StartLowering
  BY <1>4, LaterStep DEF StartLowering
<1>5. CASE \E r \in Reg : Allocate(r)
  BY <1>5, LaterStep DEF Allocate
<1>6. CASE \E r \in Reg : RunsOut(r)
  BY <1>6, LaterStep DEF RunsOut
<1>7. CASE Lowered
  BY <1>7, LaterStep DEF Lowered
<1>8. CASE Execute
  BY <1>8, LaterStep DEF Execute
<1>9. CASE UNCHANGED raVars
  BY <1>9, LaterStep DEF raVars
<1> QED BY <1>1, <1>2, <1>3, <1>4, <1>5, <1>6, <1>7, <1>8, <1>9 DEF RaNext

-----------------------------------------------------------------------------
(* The theorems.                                                           *)

(* What is marked always leads to an effect, and what is off the worklist  *)
(* has all its sources marked (global_dce.py 53-97).                       *)
THEOREM MarkInvariant == RaSpec => []DceInv
BY RaInitDceInv, RaNextKeepsDceInv, PTL DEF RaSpec

(* When the worklist is empty, exactly the instructions that some chain of *)
(* definitions and reads connects to an effect are left: none of them is   *)
(* removed, and nothing else stays (global_dce.py 53-97).                  *)
THEOREM OnlyDeadRemovedHolds == RaSpec => []OnlyDeadRemoved
<1>1. DceInv => OnlyDeadRemoved
  <2> SUFFICES ASSUME DceInv, phase = "scan" PROVE live = NeededBy(items)
    BY DEF OnlyDeadRemoved
  <2>1. /\ items \in Kernels /\ Effects \subseteq live
        /\ live \subseteq NeededBy(items) /\ worklist = {} /\ Followed
    BY DEF DceInv
  <2>2. \A k \in live : Sources(k) \subseteq live
    BY <2>1 DEF Followed
  <2> QED BY <2>1, <2>2, ClosedMarksAreAll
<1> QED BY <1>1, MarkInvariant, PTL

-----------------------------------------------------------------------------
(* Facts about numbers and paths.                                          *)

(* A non-empty set of numbers has a least element.                         *)
LEMMA LeastFacts ==
  ASSUME NEW S, S \subseteq Nat, S # {}
  PROVE  Least(S) \in S /\ \A n \in S : Least(S) <= n
BY LeastNumber DEF Least

(* A non-empty set of numbers up to n has a greatest element.              *)
LEMMA GreatestFacts ==
  ASSUME NEW S, S \subseteq Nat, S # {}, NEW n \in Nat, \A k \in S : k <= n
  PROVE  Greatest(S) \in S /\ \A k \in S : k <= Greatest(S)
BY GreatestNumber DEF Greatest

(* Where a kernel's items lead: to one another, or to the end.             *)
LEMMA StepsFacts ==
  ASSUME NEW its \in Seq(Item)
  PROVE  LET ends == Len(its) + 1
         IN  /\ Len(its) \in Nat /\ DOMAIN its = 1..Len(its)
             /\ Steps(its) \in [1..ends -> SUBSET (1..ends)]
             /\ IsFiniteSet(1..ends)
             /\ \A k \in DOMAIN its : Steps(its)[k] = Follows(k, its)
             /\ Steps(its)[ends] = {}
<1> DEFINE ends == Len(its) + 1
<1>1. Len(its) \in Nat /\ DOMAIN its = 1..Len(its) /\ ends \notin DOMAIN its
  OBVIOUS
<1>2. \A k \in DOMAIN its : Follows(k, its) \subseteq 1..ends
  BY <1>1 DEF Follows
<1>3. IsFiniteSet(1..ends)
  BY <1>1, FS_Interval
<1>4. Steps(its) = [n \in 1..ends |-> IF n \in DOMAIN its THEN Follows(n, its) ELSE {}]
  BY DEF Steps
<1> HIDE DEF ends
<1>5. Steps(its) \in [1..ends -> SUBSET (1..ends)]
  BY <1>2, <1>4
<1>6. ends \in 1..ends /\ DOMAIN its \subseteq 1..ends
  BY <1>1 DEF ends
<1> QED BY <1>1, <1>3, <1>4, <1>5, <1>6 DEF ends

(* What leads nowhere but to itself holds all that can be reached from it. *)
LEMMA PathsStay ==
  ASSUME NEW its \in Seq(Item), NEW avoided, NEW H,
         \A x \in H : Steps(its)[x] \subseteq H, NEW n \in H
  PROVE  ReachableFrom(n, Steps(its), avoided) \subseteq H
<1>1. ClosedUnder(H, Steps(its), avoided) /\ {n} \ avoided \subseteq H
  BY DEF ClosedUnder, Next1
<1>2. IsFiniteSet(DOMAIN Steps(its))
  BY StepsFacts
<1> QED BY <1>1, <1>2, ReachableIsLeast

(* A register that may still be read is read at a position that can be     *)
(* reached.                                                                *)
LEMMA LiveLeads ==
  ASSUME NEW its \in Seq(Item), NEW k \in DOMAIN its, NEW r, LiveAfter(k, r, its),
         NEW H, Steps(its)[k] \subseteq H, \A x \in H : Steps(its)[x] \subseteq H
  PROVE  \E u \in H : u \in Uses(r, its)
<1>1. PICK n \in Steps(its)[k] : LiveBefore(n, r, its)
  BY DEF LiveAfter
<1> DEFINE passed == ReachableFrom(n, Steps(its), Certain(r, its))
<1>2. passed \subseteq H
  BY PathsStay
<1> HIDE DEF passed
<1>3. PICK u \in {n} \cup UNION {Steps(its)[x] : x \in passed} : u \in Uses(r, its)
  BY <1>1 DEF LiveBefore, passed
<1> QED BY <1>2, <1>3

(* A value that may be read after an item is there before it, if the item  *)
(* does not certainly write it.                                            *)
LEMMA LiveAfterBefore ==
  ASSUME NEW its \in Seq(Item), NEW r, NEW k \in DOMAIN its \ Certain(r, its),
         LiveAfter(k, r, its)
  PROVE  LiveBefore(k, r, its)
<1> DEFINE succ == Steps(its)
           certain == Certain(r, its)
           nodes == 1..(Len(its) + 1)
<1>1. /\ succ \in [nodes -> SUBSET nodes] /\ IsFiniteSet(nodes)
      /\ IsFiniteSet(DOMAIN succ) /\ k \in nodes
  BY StepsFacts
<1>2. PICK n \in succ[k] : LiveBefore(n, r, its)
  BY DEF LiveAfter
<1> HIDE DEF succ, certain, nodes
<1> DEFINE near == ReachableFrom(n, succ, certain)
           far == ReachableFrom(k, succ, certain)
<1>3. k \in far /\ ClosedUnder(far, succ, certain)
  BY <1>1, ReachableIsClosed DEF certain
<1>4. {n} \ certain \subseteq far
  BY <1>2, <1>3 DEF ClosedUnder, Next1
<1>5. near \subseteq far
  <2> HIDE DEF far
  <2> QED BY <1>1, <1>3, <1>4, ReachableIsLeast
<1>6. PICK u \in {n} \cup UNION {succ[x] : x \in near} : u \in Uses(r, its)
  BY <1>2 DEF LiveBefore, succ, certain
<1>7. u \in {k} \cup UNION {succ[x] : x \in far}
  <2> HIDE DEF near, far
  <2> QED BY <1>2, <1>3, <1>5, <1>6
<1> QED BY <1>6, <1>7 DEF LiveBefore, succ, certain

-----------------------------------------------------------------------------
(* What can be reached without a branch backwards is all that can be       *)
(* reached, when branches backwards only close loops.                      *)
Forward(its) == [n \in 1..(Len(its) + 1) |-> {m \in Steps(its)[n] : m > n}]
Onward(its) == ReachableFrom(1, Forward(its), {})

(* The positions reached forwards are the least set with the first and     *)
(* with what follows.                                                      *)
LEMMA OnwardFacts ==
  ASSUME NEW its \in Seq(Item)
  PROVE  /\ Onward(its) \subseteq 1..(Len(its) + 1) /\ 1 \in Onward(its)
         /\ \A x \in Onward(its) : \A y \in Steps(its)[x] : y > x => y \in Onward(its)
<1> DEFINE nodes == 1..(Len(its) + 1)
<1>1. /\ Steps(its) \in [nodes -> SUBSET nodes] /\ IsFiniteSet(nodes) /\ 1 \in nodes
  BY StepsFacts
<1> HIDE DEF nodes
<1>2. Forward(its) \in [nodes -> SUBSET nodes]
  BY <1>1 DEF Forward, nodes
<1>3. /\ Onward(its) \subseteq nodes /\ 1 \in Onward(its)
      /\ ClosedUnder(Onward(its), Forward(its), {})
  BY <1>1, <1>2, ReachableIsClosed DEF Onward
<1>4. ASSUME NEW x \in Onward(its), NEW y \in Steps(its)[x], y > x
      PROVE  y \in Onward(its)
  <2>1. y \in Forward(its)[x]
    BY <1>3, <1>4 DEF Forward, nodes
  <2> QED BY <1>3, <2>1 DEF ClosedUnder, Next1
<1> QED BY <1>3, <1>4 DEF nodes

(* Whatever holds at the first item, and goes on forwards, holds at all of *)
(* them.                                                                   *)
LEMMA OnwardLeast ==
  ASSUME NEW its \in Seq(Item), NEW Z, 1 \in Z,
         \A x \in Z : x \in 1..(Len(its) + 1) =>
             \A y \in Steps(its)[x] : y > x => y \in Z
  PROVE  Onward(its) \subseteq Z
<1> DEFINE ends == 1..(Len(its) + 1)
           C == Z \cap ends
<1>1. /\ Steps(its) \in [ends -> SUBSET ends] /\ IsFiniteSet(ends) /\ 1 \in ends
  BY StepsFacts
<1> HIDE DEF ends
<1>2. Forward(its) = [n \in ends |-> {m \in Steps(its)[n] : m > n}]
  BY DEF Forward, ends
<1>3. ASSUME NEW x \in C, NEW y \in Forward(its)[x] PROVE y \in C
  <2>1. y \in Steps(its)[x] /\ y > x
    BY <1>2, <1>3
  <2> QED BY <1>1, <2>1 DEF ends
<1>4. ClosedUnder(C, Forward(its), {}) /\ 1 \in C /\ IsFiniteSet(DOMAIN Forward(its))
  BY <1>1, <1>2, <1>3 DEF ClosedUnder, Next1
<1>5. Onward(its) \subseteq C
  <2> HIDE DEF C
  <2> QED BY <1>4, ReachableIsLeast DEF Onward
<1> QED BY <1>5

(* A step backwards is a branch to the label that closes a loop.           *)
LEMMA BackBranch ==
  ASSUME NEW its \in Seq(Item), ~ Malformed(its), LoopsOnly(its),
         NEW x \in DOMAIN its, NEW y \in Steps(its)[x], y <= x
  PROVE  /\ its[x].op = "bra" /\ y \in DOMAIN its /\ its[y].op = "label" /\ y < x
         /\ y \in Leaders(its)
         /\ <<BlockOf(x, its), y>> \in BackEdges(Graph(its))
<1>1. y \in Follows(x, its) /\ x \in 1..Len(its) /\ Len(its) \in Nat /\ DOMAIN its = 1..Len(its)
  BY StepsFacts
<1>2. /\ its[x].op = "bra" /\ y \in DOMAIN its /\ its[y].op = "label"
      /\ its[y].lbl = its[x].lbl
  BY <1>1 DEF Follows
<1>3. y = LabelAt(its[x].lbl, its) /\ y \in Positions(its, {"label"})
  BY <1>2, LabelFacts DEF Positions
<1>4. y < x
  <2>1. y # x
    BY <1>2
  <2> QED BY <1>1, <1>2, <2>1
<1>5. <<BlockOf(x, its), y>> \in BackEdges(Graph(its))
  BY <1>2, <1>3, <1>4 DEF LoopsOnly, Positions
<1>6. y \in Leaders(its)
  BY <1>3 DEF Leaders
<1> QED BY <1>2, <1>4, <1>5, <1>6

(* The blocks of a graph.                                                  *)
LEMMA BackEdgeFacts ==
  ASSUME NEW its \in Seq(Item), its # <<>>, ~ Malformed(its),
         NEW a, NEW b, <<a, b>> \in BackEdges(Graph(its))
  PROVE  /\ a \in Leaders(its) /\ b \in Leaders(its) /\ b \in Successors(a, its)
         /\ a \in ReachableFrom(1, Graph(its).succ, {})
         /\ a \notin ReachableFrom(1, Graph(its).succ, {b})
<1>1. /\ Graph(its).succ = [c \in Leaders(its) |-> Successors(c, its)]
      /\ Graph(its).succ \in [Leaders(its) -> SUBSET Leaders(its)]
  BY GraphFacts
<1>2. 1 \in Leaders(its) /\ IsFiniteSet(Leaders(its))
  BY LeaderFacts
<1>3. ReachableFrom(1, Graph(its).succ, {}) \subseteq Leaders(its)
  BY <1>1, <1>2, ReachableIsClosed
<1>4. /\ a \in ReachableFrom(1, Graph(its).succ, {})
      /\ b \in ReachableFrom(1, Graph(its).succ, {})
      /\ b \in Graph(its).succ[a] /\ a \notin ReachableFrom(1, Graph(its).succ, {b})
  BY DEF BackEdges
<1> QED BY <1>1, <1>3, <1>4

(* No step leads out of what is reached forwards: a branch back goes to a  *)
(* block that every path to the branch goes through.                       *)
LEMMA OnwardClosed ==
  ASSUME NEW its \in Seq(Item), its # <<>>, ~ Malformed(its), LoopsOnly(its),
         NEW x \in Onward(its)
  PROVE  Steps(its)[x] \subseteq Onward(its)
<1> SUFFICES ASSUME NEW y \in Steps(its)[x], y \notin Onward(its) PROVE FALSE
  OBVIOUS
<1>1. /\ Len(its) \in Nat /\ DOMAIN its = 1..Len(its) /\ x \in 1..(Len(its) + 1)
      /\ Steps(its) \in [1..(Len(its) + 1) -> SUBSET (1..(Len(its) + 1))]
      /\ Steps(its)[Len(its) + 1] = {} /\ 1 \in Onward(its)
  BY StepsFacts, OnwardFacts
<1>2. x \in DOMAIN its /\ y \in 1..(Len(its) + 1)
  BY <1>1
<1>3. y <= x
  BY <1>1, <1>2, OnwardFacts
<1> DEFINE g == Graph(its).succ
           C == ReachableFrom(1, g, {y})
           Z == {z \in Onward(its) : z \in DOMAIN its => BlockOf(z, its) \in C}
<1>4. y \in Leaders(its) /\ <<BlockOf(x, its), y>> \in BackEdges(Graph(its))
  BY <1>2, <1>3, BackBranch
<1>5. BlockOf(x, its) \notin C
  BY <1>4, BackEdgeFacts
<1>6. /\ 1 \in C /\ ClosedUnder(C, g, {y})
  <2>1. /\ g \in [Leaders(its) -> SUBSET Leaders(its)] /\ 1 \in Leaders(its)
        /\ IsFiniteSet(Leaders(its)) /\ 1 \notin {y}
    BY <1>1, GraphFacts, LeaderFacts
  <2> HIDE DEF g
  <2> QED BY <2>1, ReachableIsClosed
<1>7. 1 \in Z
  BY <1>1, <1>6, BlockOfFacts, LeaderFacts
<1>8. ASSUME NEW z \in Z, z \in 1..(Len(its) + 1), NEW t \in Steps(its)[z], t > z
      PROVE  t \in Z
  <2>1. t \in Onward(its) /\ t \in 1..(Len(its) + 1) /\ z \in DOMAIN its /\ t # y
    BY <1>1, <1>8, OnwardFacts
  <2> SUFFICES ASSUME t \in DOMAIN its PROVE BlockOf(t, its) \in C
    BY <2>1
  <2> DEFINE b == BlockOf(z, its)
  <2>2. b \in Leaders(its) /\ z \in b..EndOf(b, its) /\ b \in C
    BY <2>1, BlockOfFacts
  <2>3. t \in Follows(z, its) \ {Len(its) + 1}
    BY <1>1, <2>1, StepsFacts
  <2>4. CASE z = EndOf(b, its)
    <3>1. t \in Successors(b, its)
      BY <2>2, <2>3, <2>4, FollowsFacts
    <3>2. t \in g[b] /\ t \in Leaders(its)
      <4>1. /\ g = [c \in Leaders(its) |-> Successors(c, its)]
            /\ g \in [Leaders(its) -> SUBSET Leaders(its)]
        BY GraphFacts
      <4> HIDE DEF g, b
      <4> QED BY <2>2, <3>1, <4>1
    <3>3. t \in C
      BY <1>6, <2>1, <2>2, <3>2 DEF ClosedUnder, Next1
    <3> QED BY <2>1, <3>2, <3>3, BlockOfFacts
  <2>5. CASE z # EndOf(b, its)
    <3>1. t = z + 1
      BY <2>2, <2>3, <2>5, FollowsFacts
    <3>2. z + 1 \notin Leaders(its)
      <4>1. /\ b \in 1..Len(its) /\ EndOf(b, its) \in b..Len(its)
            /\ \A k \in (b + 1)..EndOf(b, its) : k \notin Leaders(its)
        BY <2>2, EndFacts, LeaderFacts
      <4>2. z + 1 \in (b + 1)..EndOf(b, its)
        <5> HIDE DEF b
        <5> QED BY <1>1, <2>2, <2>5, <4>1
      <4> QED BY <4>1, <4>2
    <3> QED BY <2>1, <2>2, <3>1, <3>2, BlockOfFacts
  <2> QED BY <2>4, <2>5
<1>9. Onward(its) \subseteq Z
  <2> HIDE DEF Z
  <2> QED BY <1>7, <1>8, OnwardLeast
<1> QED BY <1>2, <1>5, <1>9

-----------------------------------------------------------------------------
(* The hull of the loops.                                                  *)
LoopItems(its) ==
    LET graph == Graph(its)
        blocks == UNION {NaturalLoop(e, graph) : e \in BackEdges(graph)}
    IN  (UNION {b..EndOf(b, its) : b \in blocks}) \ Positions(its, {"label"})

(* The blocks of a loop are blocks.                                        *)
LEMMA LoopBlocks ==
  ASSUME NEW its \in Seq(Item), its # <<>>, ~ Malformed(its),
         NEW e \in BackEdges(Graph(its))
  PROVE  NaturalLoop(e, Graph(its)) \subseteq Leaders(its)
<1>1. Graph(its).succ \in [Leaders(its) -> SUBSET Leaders(its)]
  BY GraphFacts
<1>2. /\ IsFiniteSet(Leaders(its)) /\ 1 \in Leaders(its)
  BY LeaderFacts
<1>3. e \in Leaders(its) \X Leaders(its)
  <2>1. ReachableFrom(1, Graph(its).succ, {}) \subseteq Leaders(its)
    BY <1>1, <1>2, ReachableIsClosed
  <2> QED BY <2>1 DEF BackEdges
<1> QED BY <1>1, <1>3 DEF NaturalLoop

(* The loops' items are items, and what LoopBody returns spans them.       *)
LEMMA LoopHull ==
  ASSUME NEW its \in Seq(Item), its # <<>>, ~ Malformed(its), NEW k \in LoopItems(its)
  PROVE  LET body == LoopBody(its)
         IN  /\ k \in body /\ body \subseteq DOMAIN its
             /\ Least(body) \in body /\ Greatest(body) \in body
             /\ body = Least(body)..Greatest(body)
             /\ \A n \in body : Least(body) <= n /\ n <= Greatest(body)
<1> DEFINE S == LoopItems(its)
<1>1. Len(its) \in Nat /\ DOMAIN its = 1..Len(its)
  BY LeaderFacts
<1>2. S \subseteq 1..Len(its)
  <2> SUFFICES ASSUME NEW e \in BackEdges(Graph(its)),
                      NEW b \in NaturalLoop(e, Graph(its)), NEW n \in b..EndOf(b, its)
               PROVE  n \in 1..Len(its)
    BY DEF LoopItems
  <2>1. b \in Leaders(its)
    BY LoopBlocks
  <2>2. b \in 1..Len(its) /\ EndOf(b, its) \in b..Len(its)
    BY <2>1, EndFacts, LeaderFacts
  <2> QED BY <1>1, <2>2
<1>3. LoopBody(its) = Least(S)..Greatest(S)
  BY DEF LoopBody, LoopItems
<1> HIDE DEF S
<1>4. k \in S
  BY DEF S
<1>5. Least(S) \in S /\ \A n \in S : Least(S) <= n
  <2>1. S \subseteq Nat /\ S # {}
    BY <1>1, <1>2, <1>4
  <2> QED BY <2>1, LeastFacts
<1>6. Greatest(S) \in S /\ \A n \in S : n <= Greatest(S)
  <2>1. S \subseteq Nat /\ \A n \in S : n <= Len(its)
    BY <1>1, <1>2
  <2> QED BY <1>1, <1>4, <2>1, GreatestFacts
<1> DEFINE body == LoopBody(its)
           lo == Least(S)
           hi == Greatest(S)
<1>7. lo \in 1..Len(its) /\ hi \in 1..Len(its) /\ lo <= k /\ k <= hi /\ k \in 1..Len(its)
  BY <1>2, <1>4, <1>5, <1>6
<1> HIDE DEF lo, hi
<1>8. body = lo..hi
  BY <1>3 DEF lo, hi
<1> HIDE DEF body
<1>9. /\ body \subseteq 1..Len(its) /\ k \in body /\ lo \in body /\ hi \in body
      /\ \A n \in body : lo <= n /\ n <= hi
  BY <1>1, <1>7, <1>8
<1>10. Least(body) = lo /\ Greatest(body) = hi
  <2>1. \A n \in body : n \in Nat /\ (lo <= n /\ n <= lo => n = lo) /\ (hi <= n /\ n <= hi => n = hi)
    BY <1>7, <1>9
  <2>2. Least(body) \in body /\ \A n \in body : Least(body) <= n
    BY <1>9 DEF Least
  <2>3. Greatest(body) \in body /\ \A n \in body : n <= Greatest(body)
    BY <1>9 DEF Greatest
  <2> QED BY <1>9, <2>1, <2>2, <2>3
<1> QED BY <1>1, <1>8, <1>9, <1>10 DEF body

(* What belongs to a block of a loop belongs to the loops.                 *)
LEMMA InLoop ==
  ASSUME NEW its, NEW a \in BackEdges(Graph(its)), NEW c \in NaturalLoop(a, Graph(its)),
         NEW k \in c..EndOf(c, its), k \in DOMAIN its, its[k].op # "label"
  PROVE  k \in LoopItems(its)
<1> DEFINE blocks == UNION {NaturalLoop(e, Graph(its)) : e \in BackEdges(Graph(its))}
           spans == UNION {b..EndOf(b, its) : b \in blocks}
<1>1. c \in blocks
  OBVIOUS
<1>2. LoopItems(its) = spans \ Positions(its, {"label"})
  BY DEF LoopItems
<1> HIDE DEF blocks
<1>3. k \in spans
  BY <1>1
<1>4. k \notin Positions(its, {"label"})
  BY DEF Positions
<1> HIDE DEF spans
<1> QED BY <1>2, <1>3, <1>4

(* The branch that closes a loop is in it.                                 *)
LEMMA BranchInLoop ==
  ASSUME NEW its \in Seq(Item), its # <<>>, ~ Malformed(its),
         NEW x \in DOMAIN its, its[x].op = "bra", NEW y,
         <<BlockOf(x, its), y>> \in BackEdges(Graph(its))
  PROVE  x \in LoopItems(its)
<1> DEFINE a == BlockOf(x, its)
           g == Graph(its).succ
<1>1. a \in Leaders(its) /\ x \in a..EndOf(a, its)
  BY BlockOfFacts
<1>2. a # y => a \in ReachableFrom(a, g, {y})
  <2>1. g \in [Leaders(its) -> SUBSET Leaders(its)] /\ IsFiniteSet(Leaders(its))
    BY GraphFacts, LeaderFacts
  <2> HIDE DEF a, g
  <2> QED BY <1>1, <2>1, ReachableIsClosed
<1>3. DOMAIN Graph(its).succ = Leaders(its)
  BY GraphFacts
<1>4. a \in NaturalLoop(<<a, y>>, Graph(its))
  BY <1>1, <1>2, <1>3 DEF NaturalLoop
<1> QED BY <1>1, <1>4, InLoop

(* The first instruction at or after the label that a loop goes back to is *)
(* in the loop: the block of that label, or of the last of the labels that *)
(* stand there, leads to the branch without going back.                    *)
LEMMA LoopStarts ==
  ASSUME NEW its \in Seq(Item), its # <<>>, ~ Malformed(its),
         NEW a, NEW y, <<a, y>> \in BackEdges(Graph(its)),
         y \in DOMAIN its, its[y].op = "label",
         NEW w \in DOMAIN its, y <= w, its[w].op # "label"
  PROVE  \E k \in LoopItems(its) : k <= w
<1> DEFINE T == {k \in DOMAIN its : y <= k /\ its[k].op # "label"}
           w0 == Least(T)
           c == w0 - 1
           g == Graph(its).succ
           C == ReachableFrom(1, g, {y})
           S == ReachableFrom(c, g, {y})
           Z == C \cup (y..c) \cup S
<1>1. /\ Len(its) \in Nat /\ DOMAIN its = 1..Len(its) /\ 1 \in Leaders(its)
      /\ IsFiniteSet(Leaders(its)) /\ Leaders(its) \subseteq 1..Len(its)
      /\ g = [b \in Leaders(its) |-> Successors(b, its)]
      /\ g \in [Leaders(its) -> SUBSET Leaders(its)]
  BY LeaderFacts, GraphFacts
<1> HIDE DEF g
<1>2. /\ w0 \in DOMAIN its /\ y < w0 /\ its[w0].op # "label" /\ w0 <= w
      /\ \A k \in y..c : k \in DOMAIN its /\ its[k].op = "label"
  <2>1. T \subseteq Nat /\ w \in T
    BY <1>1
  <2>2. w0 \in T /\ \A k \in T : w0 <= k
    <3> HIDE DEF T
    <3> QED BY <2>1, LeastFacts
  <2>3. w0 # y
    BY <2>2
  <2>4. ASSUME NEW k \in y..c PROVE k \in DOMAIN its /\ its[k].op = "label"
    <3>1. k \in DOMAIN its /\ y <= k /\ ~ (w0 <= k)
      <4> HIDE DEF w0
      <4> QED BY <1>1, <2>2, <2>4
    <3> QED BY <2>2, <3>1
  <2> HIDE DEF w0
  <2> QED BY <1>1, <2>1, <2>2, <2>3, <2>4
<1> HIDE DEF w0, T
<1>3. /\ c \in y..c /\ c \in 1..Len(its) /\ c + 1 = w0 /\ y \in y..c
      /\ \A k \in y..c : k \in Leaders(its)
  <2>1. \A k \in y..c : k \in Leaders(its)
    BY <1>2 DEF Leaders, Positions
  <2> QED BY <1>1, <1>2, <2>1
<1>4. w0 \in c..EndOf(c, its)
  <2>1. w0 \notin Leaders(its)
    BY <1>1, <1>2, <1>3 DEF Leaders, Positions
  <2>2. EndOf(c, its) \in c..Len(its) /\ (EndOf(c, its) = Len(its) \/ EndOf(c, its) + 1 \in Leaders(its))
    BY <1>3, EndFacts
  <2>3. EndOf(c, its) # c
    BY <1>1, <1>2, <1>3, <2>1, <2>2
  <2> QED BY SMTT(60), <1>1, <1>2, <1>3, <2>2, <2>3
<1>5. \A j \in y..(c - 1) : Successors(j, its) \subseteq {j + 1}
  <2> SUFFICES ASSUME NEW j \in y..(c - 1) PROVE Successors(j, its) \subseteq {j + 1}
    OBVIOUS
  <2>1. j \in Leaders(its) /\ j + 1 \in Leaders(its) /\ its[j].op = "label" /\ j \in 1..Len(its)
    <3>1. j \in y..c /\ j + 1 \in y..c
      BY <1>1, <1>2
    <3> QED BY <1>1, <1>2, <1>3, <3>1
  <2>2. /\ EndOf(j, its) \in j..Len(its)
        /\ \A k \in (j + 1)..EndOf(j, its) : k \notin Leaders(its)
    BY <2>1, EndFacts
  <2>3. EndOf(j, its) = j
    <3>1. j + 1 \notin (j + 1)..EndOf(j, its)
      BY <2>1, <2>2
    <3> QED BY <1>1, <2>1, <2>2, <3>1
  <2> QED BY <2>1, <2>3 DEF Successors
<1>6. c \in NaturalLoop(<<a, y>>, Graph(its))
  <2> SUFFICES ASSUME c # y, a \notin S PROVE FALSE
    <3>1. DOMAIN Graph(its).succ = Leaders(its)
      BY GraphFacts
    <3> QED BY <1>3, <3>1 DEF NaturalLoop, g
  <2>1. /\ a \in Leaders(its) /\ y \in Successors(a, its)
        /\ a \in ReachableFrom(1, g, {}) /\ a \notin C
    BY BackEdgeFacts DEF g
  <2>2. c \in S /\ ClosedUnder(S, g, {y}) /\ S \subseteq Leaders(its)
    BY SMTT(60), <1>1, <1>3, ReachableIsClosed
  <2>3. (1 # y => 1 \in C) /\ ClosedUnder(C, g, {y}) /\ C \subseteq Leaders(its)
    BY <1>1, ReachableIsClosed
  <2>4. 1 \in Z
    BY <1>3, <2>3
  <2>5. ASSUME NEW z \in Z, NEW t \in g[z] PROVE t \in Z
    <3> SUFFICES ASSUME t # y PROVE t \in Z
      BY <1>3
    <3>1. CASE z \in C
      BY <2>3, <2>5, <3>1 DEF ClosedUnder, Next1
    <3>2. CASE z \in S
      BY <2>2, <2>5, <3>2 DEF ClosedUnder, Next1
    <3>3. CASE z \in y..c /\ z # c
      <4>1. z \in y..(c - 1) /\ z \in Leaders(its)
        BY SMTT(60), <1>1, <1>2, <1>3, <3>3
      <4>2. t = z + 1
        BY <1>1, <1>5, <2>5, <4>1
      <4>3. z + 1 \in y..c
        BY <1>1, <1>2, <4>1
      <4> QED BY <4>2, <4>3
    <3> QED BY <2>2, <2>5, <3>1, <3>2, <3>3
  <2>6. ClosedUnder(Z, g, {})
    <3> HIDE DEF Z
    <3> QED BY <2>5 DEF ClosedUnder, Next1
  <2>7. a \in Z
    <3> HIDE DEF Z
    <3> QED BY <1>1, <2>1, <2>4, <2>6, ReachableIsLeast
  <2>8. a \in y..c /\ a # c
    BY <2>1, <2>2, <2>7
  <2>9. y = a + 1
    <3>1. a \in y..(c - 1)
      BY <1>1, <1>2, <2>8
    <3> QED BY <1>5, <2>1, <3>1
  <2> QED BY <1>1, <2>8, <2>9
<1>7. w0 \in LoopItems(its)
  BY <1>2, <1>4, <1>6, InLoop
<1> QED BY <1>2, <1>7

-----------------------------------------------------------------------------
(* The ranges.                                                             *)

(* The merged range holds all definitions, all uses that count, and every  *)
(* use after the first definition.                                         *)
LEMMA MergedFacts ==
  ASSUME NEW its \in Seq(Item), NEW r, Defs(r, its) # {}
  PROVE  LET m == Merged(r, its)
         IN  /\ m.first \in Defs(r, its) /\ m.first \in 1..Len(its)
             /\ m.last \in m.first..Len(its)
             /\ \A d \in Defs(r, its) : m.first <= d /\ d <= m.last
             /\ \A d \in Defs(r, its) : \A u \in UsesOf(d, r, its) : u <= m.last
             /\ \A u \in Uses(r, its) : m.first < u => u <= m.last
<1> DEFINE D == Defs(r, its)
           U == Uses(r, its)
           first == Least(D)
           Lasts == {LastUse(d, r, its) : d \in D}
           m == Merged(r, its)
<1>1. /\ Len(its) \in Nat /\ D \subseteq 1..Len(its) /\ U \subseteq 1..Len(its) /\ D # {}
  BY DEF Defs, Uses
<1>2. \A d \in D : UsesOf(d, r, its) \subseteq U
  BY DEF UsesOf
<1>3. \A d \in D : \A u, n : n = Least({k \in D : k > d} \cup {Len(its) + 1}) /\ u \in U
         /\ d < u /\ u < n => u \in UsesOf(d, r, its)
  <2> SUFFICES ASSUME NEW d \in D, NEW u \in U, d < u,
                      u < Least({k \in D : k > d} \cup {Len(its) + 1})
               PROVE  u \in UsesOf(d, r, its)
    OBVIOUS
  <2> DEFINE n == Least({k \in D : k > d} \cup {Len(its) + 1})
  <2>1. UsesOf(d, r, its) = {x \in U : IF d = first THEN d <= x /\ x <= n ELSE d < x /\ x < n}
    BY DEF UsesOf
  <2>2. n \in Nat
    <3>1. {k \in D : k > d} \cup {Len(its) + 1} \subseteq Nat
      BY <1>1
    <3>2. {k \in D : k > d} \cup {Len(its) + 1} # {}
      OBVIOUS
    <3> QED BY <3>1, <3>2, LeastFacts
  <2>3. d <= u /\ u <= n /\ d < u /\ u < n
    <3> HIDE DEF n
    <3>1. u < n
      BY DEF n
    <3> QED BY <1>1, <2>2, <3>1
  <2> HIDE DEF n, first, D, U
  <2> QED BY <2>1, <2>3
<1>4. m.first = first /\ m.last = Greatest(Lasts)
  BY DEF Merged
<1>0. \A n \in D \cup U : n \in Nat /\ 1 <= n /\ n <= Len(its)
  BY <1>1
<1> HIDE DEF D, U, m
<1> SUFFICES /\ m.first \in D /\ m.first \in 1..Len(its)
             /\ m.last \in m.first..Len(its)
             /\ \A d \in D : m.first <= d /\ d <= m.last
             /\ \A d \in D : \A u \in UsesOf(d, r, its) : u <= m.last
             /\ \A u \in U : m.first < u => u <= m.last
  BY DEF D, U, m
<1>5. first \in D /\ \A d \in D : first <= d
  <2>1. D \subseteq Nat
    BY <1>1
  <2> QED BY <1>1, <2>1, LeastFacts
<1>6. ASSUME NEW d \in D
      PROVE  /\ LastUse(d, r, its) \in d..Len(its)
             /\ \A u \in UsesOf(d, r, its) : u <= LastUse(d, r, its)
  <2> DEFINE X == UsesOf(d, r, its) \cup {d}
  <2>1. X \subseteq Nat /\ X # {} /\ d \in X /\ \A x \in X : x <= Len(its)
    <3>1. \A x \in X : x \in D \cup U
      BY <1>2
    <3>2. d \in X
      OBVIOUS
    <3> HIDE DEF X
    <3> QED BY <1>0, <3>1, <3>2
  <2>2. LastUse(d, r, its) = Greatest(X)
    BY DEF LastUse
  <2>3. Greatest(X) \in X /\ \A x \in X : x <= Greatest(X)
    <3> HIDE DEF X
    <3> QED BY <1>1, <2>1, GreatestFacts
  <2>4. d <= Greatest(X) /\ Greatest(X) \in Nat /\ Greatest(X) <= Len(its)
    <3> HIDE DEF X
    <3> QED BY <2>1, <2>3
  <2>5. \A u \in UsesOf(d, r, its) : u <= Greatest(X)
    BY <2>3
  <2> HIDE DEF X
  <2> QED BY <1>1, <2>2, <2>4, <2>5
<1>7. Greatest(Lasts) \in Lasts /\ \A x \in Lasts : x <= Greatest(Lasts)
  <2>1. \A d \in D : LastUse(d, r, its) \in Nat /\ LastUse(d, r, its) <= Len(its)
    BY <1>1, <1>6
  <2>2. Lasts \subseteq Nat /\ Lasts # {} /\ \A x \in Lasts : x <= Len(its)
    BY <1>1, <2>1
  <2> HIDE DEF Lasts
  <2> QED BY <1>1, <2>2, GreatestFacts
<1>8. \A d \in D : LastUse(d, r, its) <= m.last
  BY <1>4, <1>7
<1>9. m.last \in 1..Len(its)
  BY <1>1, <1>4, <1>6, <1>7
<1>10. \A d \in D : d <= m.last /\ \A u \in UsesOf(d, r, its) : u <= m.last
  <2> SUFFICES ASSUME NEW d \in D
               PROVE  d <= m.last /\ \A u \in UsesOf(d, r, its) : u <= m.last
    OBVIOUS
  <2>1. /\ LastUse(d, r, its) \in d..Len(its) /\ LastUse(d, r, its) <= m.last
        /\ \A u \in UsesOf(d, r, its) : u <= LastUse(d, r, its) /\ u \in Nat
    <3>1. \A u \in UsesOf(d, r, its) : u \in U
      BY <1>2
    <3> QED BY <1>0, <1>6, <1>8, <3>1
  <2> QED BY <1>1, <1>9, <2>1
<1>11. ASSUME NEW u \in U, first < u PROVE u <= m.last
  <2>1. CASE u \in D
    BY <2>1, <1>10
  <2>2. CASE u \notin D
    <3> DEFINE B == {k \in D : k < u}
               d == Greatest(B)
               A == {k \in D : k > d} \cup {Len(its) + 1}
    <3>1. B \subseteq Nat /\ B # {} /\ u \in Nat /\ \A k \in B : k <= u
      <4>1. first \in B /\ u \in Nat
        BY <1>0, <1>5, <1>11
      <4>2. \A k \in B : k \in D /\ k < u
        OBVIOUS
      <4> HIDE DEF B
      <4>3. \A k \in B : k \in Nat /\ k <= u
        BY <1>0, <4>1, <4>2
      <4> QED BY <4>1, <4>3
    <3>2. d \in B /\ \A k \in B : k <= d
      <4> HIDE DEF B
      <4> QED BY <3>1, GreatestFacts
    <3>3. d \in D /\ d < u
      BY <3>2
    <3>4. Least(A) \in A
      <4>1. A \subseteq Nat /\ A # {}
        <5>1. \A k \in A : k \in D \/ k = Len(its) + 1
          OBVIOUS
        <5>2. Len(its) + 1 \in A
          OBVIOUS
        <5> HIDE DEF A
        <5>3. Len(its) + 1 \in Nat /\ \A k \in D : k \in Nat
          BY <1>0, <1>1
        <5> QED BY <5>1, <5>2, <5>3
      <4> HIDE DEF A
      <4> QED BY <4>1, LeastFacts
    <3>5. u < Least(A)
      <4>1. CASE Least(A) = Len(its) + 1
        BY <1>1, <4>1
      <4>2. CASE Least(A) \in D /\ Least(A) > d
        <5>1. \A k \in D : k < u => k \in B
          OBVIOUS
        <5> HIDE DEF A, B, d
        <5>2. ~ (Least(A) < u) /\ Least(A) # u
          BY <1>0, <2>2, <3>2, <3>3, <4>2, <5>1
        <5> QED BY <1>0, <4>2, <5>2
      <4> QED BY <3>4, <4>1, <4>2
    <3>6. u \in UsesOf(d, r, its)
      <4> HIDE DEF d
      <4> QED BY <1>3, <1>11, <3>3, <3>5
    <3> QED BY <1>10, <3>3, <3>6
  <2> QED BY <2>1, <2>2
<1>12. m.first \in D /\ m.first \in 1..Len(its) /\ \A d \in D : m.first <= d
  BY <1>0, <1>1, <1>4, <1>5
<1>13. m.last \in m.first..Len(its)
  BY <1>9, <1>10, <1>12
<1>14. \A u \in U : m.first < u => u <= m.last
  BY <1>4, <1>11
<1> QED BY <1>10, <1>12, <1>13, <1>14

(* The range after loops are considered is no shorter, and ends with the   *)
(* loops if a use that counts is in them.                                  *)
LEMMA ExtendedFacts ==
  ASSUME NEW its \in Seq(Item), its # <<>>, ~ Malformed(its), NEW r, Defs(r, its) # {}
  PROVE  LET e == Extended(r, its)
             m == Merged(r, its)
         IN  /\ e = [first |-> m.first, last |-> e.last]
             /\ e.last \in m.last..Len(its)
             /\ \A d \in Defs(r, its) : \A u \in UsesOf(d, r, its) \cap LoopBody(its) :
                    e.last >= Greatest(LoopBody(its))
<1> DEFINE e == Extended(r, its)
           m == Merged(r, its)
           body == LoopBody(its)
           counted == UNION {UsesOf(d, r, its) : d \in Defs(r, its)}
           inLoop == counted \cap body
<1>1. /\ Len(its) \in Nat /\ m.first \in 1..Len(its) /\ m.last \in m.first..Len(its)
  BY MergedFacts
<1>2. m = [first |-> m.first, last |-> m.last]
  BY DEF Merged
<1>3. e = IF inLoop # {} /\ m.last < Greatest(body)
          THEN [m EXCEPT !.last = Greatest(body)] ELSE m
  BY DEF Extended
<1>4. inLoop # {} => Greatest(body) \in 1..Len(its)
  <2> SUFFICES ASSUME body # {} PROVE Greatest(body) \in 1..Len(its)
    OBVIOUS
  <2>1. LoopItems(its) # {}
    BY DEF LoopBody, LoopItems
  <2> QED BY <2>1, LoopHull, StepsFacts
<1>5. \A d \in Defs(r, its) : \A u \in UsesOf(d, r, its) \cap body : inLoop # {}
  OBVIOUS
<1> HIDE DEF e, m, body, inLoop
<1> SUFFICES /\ e = [first |-> m.first, last |-> e.last]
             /\ e.last \in m.last..Len(its)
             /\ inLoop # {} => e.last >= Greatest(body)
  BY <1>5 DEF e, m, body
<1>6. CASE inLoop # {} /\ m.last < Greatest(body)
  <2>1. e = [first |-> m.first, last |-> Greatest(body)]
    BY <1>2, <1>3, <1>6
  <2> QED BY <1>1, <1>4, <1>6, <2>1
<1>7. CASE ~ (inLoop # {} /\ m.last < Greatest(body))
  BY <1>1, <1>2, <1>3, <1>4, <1>7
<1> QED BY <1>6, <1>7

(* The value of a register that may still be read is in its range: no path *)
(* reads a register it has not written, so the register has a definition   *)
(* above; and what is read next stands below, or in a loop that the        *)
(* control goes back to.                                                   *)
LEMMA RangeHolds ==
  ASSUME NEW its \in Seq(Item), InView(its), NEW r \in Reg,
         \A k \in DOMAIN its : its[k].op = "label" => its[k].srcs = <<>>,
         NEW n \in DOMAIN its, n \in Onward(its), n \notin Defs(r, its),
         LiveAfter(n, r, its)
  PROVE  /\ Defs(r, its) # {}
         /\ Extended(r, its).first <= n /\ n <= Extended(r, its).last
<1> DEFINE D == Defs(r, its)
           O == Onward(its)
           m == Merged(r, its)
<1>1. /\ its # <<>> /\ ~ Malformed(its) /\ LoopsOnly(its) /\ Counted(its)
      /\ ~ LiveBefore(1, r, its)
  BY DEF InView, WrittenFirst
<1>2. /\ Len(its) \in Nat /\ DOMAIN its = 1..Len(its) /\ D \subseteq 1..Len(its)
      /\ Uses(r, its) \subseteq 1..Len(its) /\ 1 \in 1..Len(its)
      /\ O \subseteq 1..(Len(its) + 1) /\ 1 \in O
  BY <1>1, LeaderFacts, OnwardFacts DEF Defs, Uses
<1>3. PICK d \in D : d < n
  <2> SUFFICES ASSUME \A d \in D : ~ (d < n) PROVE FALSE
    OBVIOUS
  <2>1. \A d \in D : n < d
    BY <1>2
  <2> DEFINE certain == Certain(r, its)
             succ == Steps(its)
             P == ReachableFrom(1, succ, certain)
             Z == {z \in O : z <= n => z \in P}
             nodes == 1..(Len(its) + 1)
  <2>2. /\ succ \in [nodes -> SUBSET nodes] /\ IsFiniteSet(nodes)
        /\ 1 \in nodes /\ certain \subseteq D
    BY StepsFacts DEF Certain
  <2>3. 1 \notin certain
    BY <1>2, <2>1, <2>2
  <2>4. 1 \in P /\ P \subseteq nodes /\ ClosedUnder(P, succ, certain)
    <3> HIDE DEF succ, certain, nodes
    <3> QED BY <2>2, <2>3, ReachableIsClosed
  <2>5. \A z \in Z : z \in nodes => \A t \in succ[z] : t > z => t \in Z
    <3> SUFFICES ASSUME NEW z \in Z, NEW t \in succ[z], t > z, t <= n PROVE t \in P
      BY OnwardFacts
    <3> HIDE DEF P
    <3>1. z \in P
      <4>1. z \in O /\ z \in Nat /\ t \in Nat
        BY <1>2, <2>2 DEF O
      <4> QED BY <1>2, <4>1
    <3>2. t \notin certain
      <4>1. t \in Nat
        BY <1>2, <2>2
      <4> QED BY <1>2, <2>1, <2>2, <4>1
    <3> QED BY <2>4, <3>1, <3>2 DEF ClosedUnder, Next1
  <2>6. n \in P
    <3>1. O \subseteq Z
      <4>1. 1 \in Z
        BY <1>2, <2>4
      <4> HIDE DEF Z
      <4> QED BY <2>5, <4>1, OnwardLeast
    <3> QED BY <1>2, <3>1
  <2>7. n \notin certain
    BY <2>2
  <2>8. LiveBefore(n, r, its)
    BY <2>7, LiveAfterBefore
  <2>9. ReachableFrom(n, succ, certain) \subseteq P
    <3>1. {n} \ certain \subseteq P /\ IsFiniteSet(DOMAIN succ)
      BY <2>2, <2>6
    <3> HIDE DEF P, succ, certain
    <3> QED BY <2>4, <3>1, ReachableIsLeast
  <2>10. n \in {1} \cup UNION {succ[x] : x \in P}
    <3> DEFINE Y == {1} \cup ((UNION {succ[x] : x \in P}) \ certain)
    <3>1. 1 \in Y /\ Y \subseteq P
      <4> HIDE DEF P, succ, certain
      <4> QED BY <2>4 DEF ClosedUnder, Next1
    <3>2. ClosedUnder(Y, succ, certain)
      <4> HIDE DEF P, succ, certain
      <4> QED BY <3>1 DEF ClosedUnder, Next1
    <3>3. P \subseteq Y
      <4>1. {1} \ certain \subseteq Y /\ IsFiniteSet(DOMAIN succ)
        BY <2>2
      <4> HIDE DEF Y, succ, certain
      <4> QED BY <3>2, <4>1, ReachableIsLeast
    <3> QED BY <2>6, <3>3
  <2>11. PICK u \in {n} \cup UNION {succ[x] : x \in ReachableFrom(n, succ, certain)} :
            u \in Uses(r, its)
    BY <2>8 DEF LiveBefore
  <2>12. u \in {1} \cup UNION {succ[x] : x \in P}
    <3> HIDE DEF P, succ, certain
    <3> QED BY <2>9, <2>10, <2>11
  <2>13. LiveBefore(1, r, its)
    BY <2>11, <2>12 DEF LiveBefore
  <2> QED BY <1>1, <2>13
<1>4. /\ m.first \in D /\ m.first \in 1..Len(its) /\ m.last \in m.first..Len(its)
      /\ \A c \in D : m.first <= c /\ c <= m.last
      /\ \A c \in D : \A u \in UsesOf(c, r, its) : u <= m.last
      /\ \A u \in Uses(r, its) : m.first < u => u <= m.last
  BY <1>3, MergedFacts
<1> DEFINE e == Extended(r, its)
           body == LoopBody(its)
<1>5. /\ e.first = m.first /\ e.last \in m.last..Len(its)
      /\ \A c \in D : \A u \in UsesOf(c, r, its) \cap body : e.last >= Greatest(body)
  <2>1. e = [first |-> m.first, last |-> e.last]
    BY <1>1, <1>3, ExtendedFacts
  <2>2. /\ e.last \in m.last..Len(its)
        /\ \A c \in D : \A u \in UsesOf(c, r, its) \cap body : e.last >= Greatest(body)
    BY <1>1, <1>3, ExtendedFacts
  <2> HIDE DEF e, m
  <2>3. e.first = m.first
    BY <2>1
  <2> QED BY <2>2, <2>3
<1> HIDE DEF m, e, body
<1>6. m.first < n
  BY <1>2, <1>3, <1>4
<1>7. n <= e.last
  <2> SUFFICES ASSUME e.last < n PROVE FALSE
    BY <1>2, <1>4, <1>5
  <2>1. \A u \in Uses(r, its) : u < n
    BY <1>2, <1>4, <1>5, <1>6
  <2>2. PICK x \in O : x >= n /\ \E y \in Steps(its)[x] : y < n
    <3> SUFFICES ASSUME \A x \in O : x >= n => \A y \in Steps(its)[x] : ~ (y < n)
                 PROVE  FALSE
      OBVIOUS
    <3> DEFINE H == {z \in O : z >= n}
    <3>1. \A x \in O : Steps(its)[x] \subseteq O
      BY <1>1, OnwardClosed
    <3>2. \A x \in H : Steps(its)[x] \subseteq H
      BY <1>2, <3>1
    <3>3. n \in H
      BY <1>2
    <3>4. PICK u \in H : u \in Uses(r, its)
      <4> HIDE DEF H
      <4> QED BY <3>2, <3>3, LiveLeads
    <3> QED BY <1>2, <2>1, <3>4
  <2>3. PICK y \in Steps(its)[x] : y < n
    BY <2>2
  <2>4. x \in DOMAIN its /\ y <= x
    <3>1. x \in 1..(Len(its) + 1) /\ y \in 1..(Len(its) + 1) /\ x # Len(its) + 1
      BY <1>2, StepsFacts
    <3> QED BY <1>2, <2>2, <2>3, <3>1
  <2>5. its[x].op = "bra" /\ <<BlockOf(x, its), y>> \in BackEdges(Graph(its))
    BY <1>1, <2>4, BackBranch
  <2>6. x \in LoopItems(its)
    BY <1>1, <2>4, <2>5, BranchInLoop
  <2>7. /\ x \in body /\ body \subseteq DOMAIN its /\ Least(body) \in body
        /\ Greatest(body) \in body /\ body = Least(body)..Greatest(body)
        /\ x <= Greatest(body)
    BY <1>1, <2>6, LoopHull DEF body
  <2> DEFINE H == {z \in O : z >= n \/ \E a \in O \cap DOMAIN its :
                                         \E b \in Steps(its)[a] : b <= a /\ b <= z}
  <2>8. PICK u \in H : u \in Uses(r, its)
    <3>1. \A z \in H : Steps(its)[z] \subseteq H
      <4> SUFFICES ASSUME NEW z \in H, NEW t \in Steps(its)[z] PROVE t \in H
        OBVIOUS
      <4>1. z \in O /\ z \in DOMAIN its /\ t \in O /\ t \in 1..(Len(its) + 1)
        <5>1. z \in O /\ z \in 1..(Len(its) + 1) /\ z # Len(its) + 1
          BY <1>2, StepsFacts
        <5>2. t \in O
          BY <1>1, <5>1, OnwardClosed
        <5> QED BY <1>2, <5>1, <5>2
      <4>2. CASE t <= z
        BY <4>1, <4>2, <1>2
      <4>3. CASE z < t /\ z >= n
        BY <4>1, <4>3, <1>2
      <4>4. CASE z < t /\ \E a \in O \cap DOMAIN its : \E b \in Steps(its)[a] : b <= a /\ b <= z
        <5>1. PICK a \in O \cap DOMAIN its : \E b \in Steps(its)[a] : b <= a /\ b <= z
          BY <4>4
        <5>2. PICK b \in Steps(its)[a] : b <= a /\ b <= z
          BY <5>1
        <5>3. b \in Nat /\ b <= t
          <6>1. b \in 1..(Len(its) + 1)
            BY <1>2, <5>1, <5>2, StepsFacts
          <6> QED BY <1>2, <4>1, <4>4, <5>2, <6>1
        <5> QED BY <4>1, <5>1, <5>2, <5>3
      <4> QED BY <1>2, <4>1, <4>2, <4>3, <4>4
    <3>2. n \in H
      BY <1>2
    <3> HIDE DEF H
    <3> QED BY <3>1, <3>2, LiveLeads
  <2>9. PICK a \in O \cap DOMAIN its : \E b \in Steps(its)[a] : b <= a /\ b <= u
    BY <1>2, <2>1, <2>8
  <2>10. PICK b \in Steps(its)[a] : b <= a /\ b <= u
    BY <2>9
  <2>11. /\ b \in DOMAIN its /\ its[b].op = "label"
         /\ <<BlockOf(a, its), b>> \in BackEdges(Graph(its))
    BY <1>1, <2>9, <2>10, BackBranch
  <2>12. u \in DOMAIN its /\ its[u].op # "label"
    <3>1. u \in DOMAIN its /\ r \in RegsIn(its[u].srcs)
      BY <2>8 DEF Uses, LiveSources
    <3> QED BY <3>1 DEF RegsIn
  <2>13. PICK k \in LoopItems(its) : k <= u
    BY <1>1, <2>10, <2>11, <2>12, LoopStarts
  <2>14. k \in body
    BY <1>1, LoopHull DEF body
  <2>15. u \in body
    <3>1. Least(body) <= k
      BY <1>1, LoopHull DEF body
    <3> QED BY SMTT(60), <1>2, <2>1, <2>2, <2>4, <2>7, <2>8, <2>12, <2>13, <2>14, <3>1
  <2>16. r \in Defined(its)
    <3>1. r = LiveDest(its[d]) /\ d \in DOMAIN its /\ r # NoReg
      BY <1>3, PtxAssumption DEF Defs
    <3> QED BY <3>1 DEF Defined
  <2>17. PICK c \in D : \E w \in UsesOf(c, r, its) : w >= Least(body)
    BY <1>1, <2>8, <2>15, <2>16 DEF Counted, body
  <2>18. PICK w \in UsesOf(c, r, its) : w >= Least(body)
    BY <2>17
  <2>19. w \in Nat /\ w <= m.last
    BY SMTT(60), <1>2, <1>4, <2>17, <2>18 DEF UsesOf
  <2>20. w \in body
    BY SMTT(60), <1>2, <1>4, <1>5, <2>2, <2>4, <2>7, <2>18, <2>19
  <2>21. e.last >= Greatest(body)
    BY <1>5, <2>17, <2>18, <2>20
  <2> QED BY SMTT(60), <1>2, <1>4, <1>5, <2>2, <2>4, <2>7, <2>21
<1> QED BY <1>2, <1>3, <1>4, <1>5, <1>6, <1>7 DEF e

-----------------------------------------------------------------------------
(* Numbering: the elements of a finite set, by a key that tells them       *)
(* apart.                                                                  *)
UpTo(S, key, x) == {y \in S : key[y] <= key[x]}

(* The number of elements up to x counts them without gaps and in order.   *)
LEMMA Rank ==
  ASSUME NEW S, IsFiniteSet(S), NEW key \in [S -> Nat],
         \A x, y \in S : key[x] = key[y] => x = y
  PROVE  /\ Cardinality(S) \in Nat
         /\ \A x \in S : Cardinality(UpTo(S, key, x)) \in 1..Cardinality(S)
         /\ \A x, y \in S : key[x] < key[y] =>
               Cardinality(UpTo(S, key, x)) < Cardinality(UpTo(S, key, y))
         /\ \A n \in 1..Cardinality(S) : \E x \in S : Cardinality(UpTo(S, key, x)) = n
<1> DEFINE N == Cardinality(S)
           rank == [x \in S |-> Cardinality(UpTo(S, key, x))]
<1>1. N \in Nat
  BY FS_CardinalityType
<1>2. ASSUME NEW x \in S
      PROVE  /\ IsFiniteSet(UpTo(S, key, x)) /\ x \in UpTo(S, key, x)
             /\ rank[x] \in 1..N
  <2>1. UpTo(S, key, x) \in SUBSET S /\ x \in UpTo(S, key, x)
    BY DEF UpTo
  <2>2. IsFiniteSet(UpTo(S, key, x)) /\ Cardinality(UpTo(S, key, x)) <= N
    BY <2>1, FS_Subset
  <2>3. Cardinality(UpTo(S, key, x)) \in Nat /\ Cardinality(UpTo(S, key, x)) # 0
    BY <2>1, <2>2, FS_CardinalityType, FS_EmptySet
  <2> HIDE DEF N
  <2> QED BY <1>1, <2>1, <2>2, <2>3
<1>3. ASSUME NEW x \in S, NEW y \in S, key[x] < key[y] PROVE rank[x] < rank[y]
  <2>1. /\ UpTo(S, key, x) \in SUBSET UpTo(S, key, y)
        /\ y \in UpTo(S, key, y) /\ y \notin UpTo(S, key, x)
    BY <1>3 DEF UpTo
  <2>2. /\ Cardinality(UpTo(S, key, x)) <= Cardinality(UpTo(S, key, y))
        /\ Cardinality(UpTo(S, key, x)) # Cardinality(UpTo(S, key, y))
    BY <1>2, <2>1, FS_Subset
  <2>3. rank[x] \in Nat /\ rank[y] \in Nat
    BY <1>1, <1>2
  <2> QED BY <2>2, <2>3
<1>4. \A x, y \in S : rank[x] = rank[y] => x = y
  <2> SUFFICES ASSUME NEW x \in S, NEW y \in S, rank[x] = rank[y] PROVE key[x] = key[y]
    OBVIOUS
  <2>1. ~ (key[x] < key[y]) /\ ~ (key[y] < key[x]) /\ key[x] \in Nat /\ key[y] \in Nat
    <3>1. rank[x] \in Nat /\ rank[y] \in Nat
      BY <1>1, <1>2
    <3> QED BY <1>3, <3>1
  <2> QED BY <2>1
<1>5. rank \in Surjection(S, 1..N)
  <2>1. rank \in Injection(S, 1..N)
    BY <1>2, <1>4 DEF Injection, IsInjective
  <2>2. IsFiniteSet(1..N) /\ Cardinality(1..N) = N
    BY <1>1, FS_Interval
  <2> HIDE DEF rank
  <2> QED BY <2>1, <2>2, FS_Injection
<1>6. \A n \in 1..N : \E x \in S : rank[x] = n
  BY <1>5 DEF Surjection
<1> QED BY <1>1, <1>2, <1>3, <1>6

(* The order of the scan: every register with a definition, by its first.  *)
LEMMA OrderFacts ==
  ASSUME NEW its \in Seq(Item)
  PROVE  LET s == Order(its)
         IN  /\ s \in Seq(Defined(its)) /\ DOMAIN s = 1..Len(s) /\ Len(s) \in Nat
             /\ \A i, j \in DOMAIN s :
                   i < j => Least(Defs(s[i], its)) < Least(Defs(s[j], its))
             /\ \A r \in Defined(its) : \E n \in DOMAIN s : s[n] = r
<1> DEFINE S == Defined(its)
           key == [r \in S |-> Least(Defs(r, its))]
           N == Cardinality(S)
           s == Order(its)
<1>1. ASSUME NEW r \in S
      PROVE  key[r] \in Defs(r, its) /\ key[r] \in 1..Len(its) /\ LiveDest(its[key[r]]) = r
  <2>1. PICK k \in DOMAIN its : r = LiveDest(its[k])
    BY DEF Defined
  <2>2. Defs(r, its) \subseteq 1..Len(its) /\ Len(its) \in Nat /\ k \in Defs(r, its)
    BY <2>1 DEF Defs
  <2>3. Least(Defs(r, its)) \in Defs(r, its)
    <3>1. Defs(r, its) \subseteq Nat /\ Defs(r, its) # {}
      BY <2>2
    <3> QED BY <3>1, LeastFacts
  <2>4. LiveDest(its[Least(Defs(r, its))]) = r
    BY <2>3 DEF Defs
  <2> QED BY <2>2, <2>3, <2>4
<1>2. key \in [S -> 1..Len(its)] /\ \A x, y \in S : key[x] = key[y] => x = y
  BY <1>1
<1>3. key \in [S -> Nat] /\ \A x \in S : key[x] = Least(Defs(x, its))
  BY <1>2
<1>4. IsFiniteSet(S)
  <2>1. key \in Injection(S, 1..Len(its))
    BY <1>2 DEF Injection, IsInjective
  <2>2. IsFiniteSet(1..Len(its))
    BY FS_Interval
  <2> HIDE DEF S, key
  <2> QED BY <2>1, <2>2, FS_Injection
<1>5. \A r \in S : UpTo(S, key, r) = {q \in S : Least(Defs(q, its)) <= Least(Defs(r, its))}
  BY <1>3 DEF UpTo
<1> HIDE DEF key
<1>6. s = [n \in 1..N |-> CHOOSE r \in S : n = Cardinality(UpTo(S, key, r))]
  <2>1. \A n \in 1..N : (CHOOSE r \in S : n = Cardinality(UpTo(S, key, r)))
          = CHOOSE r \in S :
              n = Cardinality({q \in S : Least(Defs(q, its)) <= Least(Defs(r, its))})
    BY <1>5
  <2> QED BY <2>1 DEF Order
<1> HIDE DEF S, s, N
<1>7. /\ N \in Nat
      /\ \A x \in S : Cardinality(UpTo(S, key, x)) \in 1..N
      /\ \A x, y \in S : key[x] < key[y] =>
            Cardinality(UpTo(S, key, x)) < Cardinality(UpTo(S, key, y))
      /\ \A n \in 1..N : \E x \in S : Cardinality(UpTo(S, key, x)) = n
  BY <1>2, <1>3, <1>4, Rank DEF N
<1>8. \A n \in 1..N : s[n] \in S /\ n = Cardinality(UpTo(S, key, s[n]))
  BY <1>6, <1>7
<1>9. s \in Seq(S) /\ Len(s) = N /\ DOMAIN s = 1..N
  <2>1. s \in [1..N -> S]
    BY <1>6, <1>8
  <2> QED BY <1>7, <2>1
<1>10. ASSUME NEW i \in 1..N, NEW j \in 1..N, i < j PROVE key[s[i]] < key[s[j]]
  <2>1. /\ s[i] \in S /\ s[j] \in S /\ key[s[i]] \in Nat /\ key[s[j]] \in Nat
        /\ i = Cardinality(UpTo(S, key, s[i])) /\ j = Cardinality(UpTo(S, key, s[j]))
        /\ i \in Nat /\ j \in Nat
    BY <1>3, <1>7, <1>8
  <2>2. key[s[i]] # key[s[j]]
    <3> SUFFICES ASSUME key[s[i]] = key[s[j]] PROVE FALSE
      OBVIOUS
    <3>1. s[i] = s[j]
      BY <1>2, <2>1
    <3>2. i = j
      BY <2>1, <3>1
    <3> QED BY <1>10, <2>1, <3>2
  <2>3. ~ (key[s[j]] < key[s[i]])
    <3> SUFFICES ASSUME key[s[j]] < key[s[i]] PROVE FALSE
      OBVIOUS
    <3>1. j < i
      BY <1>7, <2>1
    <3> QED BY <1>10, <2>1, <3>1
  <2> QED BY <2>1, <2>2, <2>3
<1>11. ASSUME NEW r \in S PROVE \E n \in 1..N : s[n] = r
  <2> DEFINE n == Cardinality(UpTo(S, key, r))
  <2>1. n \in 1..N
    BY <1>7
  <2>2. s[n] \in S /\ n = Cardinality(UpTo(S, key, s[n]))
    BY <1>8, <2>1
  <2>3. ~ (key[s[n]] < key[r]) /\ ~ (key[r] < key[s[n]]) /\ key[r] \in Nat /\ key[s[n]] \in Nat
    <3>1. \A x, y \in S : Cardinality(UpTo(S, key, x)) = Cardinality(UpTo(S, key, y))
             => ~ (key[x] < key[y])
      <4> SUFFICES ASSUME NEW x \in S, NEW y \in S, key[x] < key[y],
                          Cardinality(UpTo(S, key, x)) = Cardinality(UpTo(S, key, y))
                   PROVE  FALSE
        OBVIOUS
      <4> QED BY <1>7
    <3> HIDE DEF n
    <3>2. Cardinality(UpTo(S, key, s[n])) = Cardinality(UpTo(S, key, r))
      BY <2>2 DEF n
    <3> QED BY <1>3, <2>2, <3>1, <3>2
  <2>4. s[n] = r
    <3> HIDE DEF n
    <3>1. key[s[n]] = key[r]
      BY <2>3
    <3> QED BY <1>2, <2>2, <3>1
  <2> HIDE DEF n
  <2> QED BY <2>1, <2>4
<1> QED BY <1>3, <1>7, <1>9, <1>10, <1>11, <1>8 DEF S, s

(* What the scan is given is sorted by first definition, as it expects.    *)
LEMMA IntervalsSorted ==
  ASSUME NEW its \in Seq(Item), its # <<>>, ~ Malformed(its)
  PROVE  Sorted(Intervals(its)) /\ Len(Intervals(its)) = Len(Order(its))
<1> DEFINE s == Order(its)
           range(n) == Extended(s[n], its)
           t == Intervals(its)
<1>1. /\ s \in Seq(Defined(its)) /\ DOMAIN s = 1..Len(s) /\ Len(s) \in Nat
      /\ \A i, j \in DOMAIN s : i < j => Least(Defs(s[i], its)) < Least(Defs(s[j], its))
  BY OrderFacts
<1>2. ASSUME NEW n \in DOMAIN s
      PROVE  /\ range(n).first \in Nat /\ range(n).last \in Nat
             /\ range(n).first <= range(n).last
             /\ range(n).first = Least(Defs(s[n], its))
  <2> DEFINE r == s[n]
             m == Merged(r, its)
             e == Extended(r, its)
  <2>1. r \in Defined(its)
    BY <1>1
  <2>2. Defs(r, its) # {}
    BY <2>1 DEF Defined, Defs
  <2>3. m.first \in 1..Len(its) /\ m.last \in m.first..Len(its)
    BY <2>2, MergedFacts
  <2>4. e = [first |-> m.first, last |-> e.last] /\ e.last \in m.last..Len(its)
    BY <2>2, ExtendedFacts
  <2>5. m.first = Least(Defs(r, its)) /\ Len(its) \in Nat
    BY DEF Merged
  <2> HIDE DEF r, m, e
  <2>6. /\ e.first = m.first /\ e.first \in Nat /\ e.last \in Nat /\ e.first <= e.last
    <3>1. e.first = m.first
      BY <2>4
    <3> QED BY <2>3, <2>4, <2>5, <3>1
  <2> QED BY <2>5, <2>6 DEF r, e
<1>3. t = [n \in 1..Len(s) |->
             [pair |-> s[n] \in Pairs, first |-> range(n).first, last |-> range(n).last]]
  BY <1>1 DEF Intervals
<1> HIDE DEF s, t, range
<1>4. \A n \in 1..Len(s) : /\ t[n].first = range(n).first
                           /\ t[n].last = range(n).last
                           /\ t[n] \in Interval
  BY <1>1, <1>2, <1>3 DEF Interval
<1>5. t \in [1..Len(s) -> Interval]
  BY <1>3, <1>4
<1>6. t \in Seq(Interval) /\ Len(t) = Len(s)
  BY <1>1, <1>5
<1>7. \A i, j \in 1..Len(t) : i < j => t[i].first < t[j].first
  BY SMTT(60), <1>1, <1>2, <1>4, <1>6
<1>8. \A i \in 1..Len(t) : t[i].first <= t[i].last
  BY <1>1, <1>2, <1>4, <1>6
<1> QED BY <1>6, <1>7, <1>8 DEF Sorted, s, t

-----------------------------------------------------------------------------
(* What is left of a kernel.                                               *)
Staying == {k \in DOMAIN items : Stays(k)}

(* The position in Kept at which the kernel goes on from item k: that of   *)
(* the first item from k on that stays.                                    *)
Pos(k) == NewPos(k - 1) + 1

(* Positions are counted up by one at what stays.                          *)
LEMMA NewPosFacts ==
  ASSUME items \in Seq(Item)
  PROVE  /\ Len(items) \in Nat /\ DOMAIN items = 1..Len(items)
         /\ NewPos(0) = 0 /\ NewPos(Len(items)) = Cardinality(Staying)
         /\ \A k \in 0..Len(items) : NewPos(k) \in Nat
         /\ \A k \in DOMAIN items :
               NewPos(k) = IF Stays(k) THEN NewPos(k - 1) + 1 ELSE NewPos(k - 1)
<1> DEFINE S(k) == {n \in 1..k : Stays(n)}
<1>1. Len(items) \in Nat /\ DOMAIN items = 1..Len(items)
  OBVIOUS
<1>2. ASSUME NEW k \in 0..Len(items) PROVE IsFiniteSet(S(k)) /\ NewPos(k) \in Nat
  <2>1. IsFiniteSet(1..k) /\ S(k) \in SUBSET (1..k)
    BY <1>1, FS_Interval
  <2>2. IsFiniteSet(S(k))
    BY <2>1, FS_Subset
  <2> QED BY <2>2, FS_CardinalityType DEF NewPos
<1>3. NewPos(0) = 0
  <2>1. S(0) = {}
    OBVIOUS
  <2> QED BY <2>1, FS_EmptySet DEF NewPos
<1>4. NewPos(Len(items)) = Cardinality(Staying)
  BY <1>1 DEF NewPos, Staying
<1>5. ASSUME NEW k \in DOMAIN items
      PROVE  NewPos(k) = IF Stays(k) THEN NewPos(k - 1) + 1 ELSE NewPos(k - 1)
  <2>1. k - 1 \in 0..Len(items) /\ k \in 1..Len(items) /\ 1..k = (1..(k - 1)) \cup {k}
    BY <1>1
  <2>2. IsFiniteSet(S(k - 1)) /\ k \notin S(k - 1)
    BY <1>2, <2>1
  <2>3. S(k) = IF Stays(k) THEN S(k - 1) \cup {k} ELSE S(k - 1)
    BY <2>1
  <2>4. NewPos(k) = Cardinality(S(k)) /\ NewPos(k - 1) = Cardinality(S(k - 1))
    BY DEF NewPos
  <2> HIDE DEF S
  <2>5. Cardinality(S(k - 1) \cup {k}) = Cardinality(S(k - 1)) + 1
    BY <2>2, FS_AddElement
  <2>6. CASE Stays(k)
    <3>1. S(k) = S(k - 1) \cup {k}
      BY <2>3, <2>6
    <3> QED BY <3>1, <2>4, <2>5, <2>6
  <2>7. CASE ~Stays(k)
    <3>1. S(k) = S(k - 1)
      BY <2>3, <2>7
    <3> QED BY <3>1, <2>4, <2>7
  <2> QED BY <2>6, <2>7
<1> QED BY <1>1, <1>2, <1>3, <1>4, <1>5

(* Kept holds what stays, in the same order.                               *)
LEMMA KeptFacts ==
  ASSUME items \in Seq(Item)
  PROVE  /\ Kept \in Seq(Item) /\ Len(Kept) = NewPos(Len(items))
         /\ DOMAIN Kept = 1..Len(Kept) /\ Len(Kept) \in Nat
         /\ \A k \in Staying : /\ Pos(k) = NewPos(k) /\ Pos(k) \in DOMAIN Kept
                               /\ Kept[Pos(k)] = items[k]
         /\ \A n \in DOMAIN Kept : \E k \in Staying : n = Pos(k)
<1> DEFINE S == Staying
           N == Cardinality(S)
           key == [k \in S |-> k]
<1>1. /\ Len(items) \in Nat /\ DOMAIN items = 1..Len(items) /\ NewPos(Len(items)) = N
      /\ \A k \in DOMAIN items :
            NewPos(k) = IF Stays(k) THEN NewPos(k - 1) + 1 ELSE NewPos(k - 1)
      /\ \A k \in 0..Len(items) : NewPos(k) \in Nat
  BY NewPosFacts
<1>2. S \subseteq 1..Len(items) /\ IsFiniteSet(S)
  <2>1. IsFiniteSet(1..Len(items)) /\ S \in SUBSET (1..Len(items))
    BY <1>1, FS_Interval DEF Staying
  <2> QED BY <2>1, FS_Subset
<1>3. \A k \in S : Cardinality(UpTo(S, key, k)) = NewPos(k)
  <2> SUFFICES ASSUME NEW k \in S PROVE UpTo(S, key, k) = {n \in 1..k : Stays(n)}
    BY DEF NewPos
  <2>1. k \in 1..Len(items)
    BY <1>2
  <2> QED BY <1>1, <2>1 DEF UpTo, Staying
<1>4. key \in [S -> Nat] /\ \A x, y \in S : key[x] = key[y] => x = y
  BY <1>2
<1>5. \A x, y \in S : x < y => key[x] < key[y]
  OBVIOUS
<1> HIDE DEF key
<1>6. /\ N \in Nat
      /\ \A k \in S : NewPos(k) \in 1..N
      /\ \A x, y \in S : x < y => NewPos(x) < NewPos(y)
      /\ \A n \in 1..N : \E k \in S : NewPos(k) = n
  <2>1. /\ N \in Nat
        /\ \A k \in S : Cardinality(UpTo(S, key, k)) \in 1..N
        /\ \A x, y \in S : key[x] < key[y] =>
              Cardinality(UpTo(S, key, x)) < Cardinality(UpTo(S, key, y))
        /\ \A n \in 1..N : \E k \in S : Cardinality(UpTo(S, key, k)) = n
    <3> HIDE DEF S
    <3> QED BY <1>2, <1>4, Rank
  <2> HIDE DEF S, N
  <2> QED BY <1>3, <1>5, <2>1
<1>7. \A x, y \in S : NewPos(x) = NewPos(y) => x = y
  <2> SUFFICES ASSUME NEW x \in S, NEW y \in S, NewPos(x) = NewPos(y) PROVE x = y
    OBVIOUS
  <2>1. x \in Nat /\ y \in Nat /\ NewPos(x) \in Nat
    BY <1>2, <1>6
  <2>2. ~ (x < y) /\ ~ (y < x)
    BY <1>6, <2>1
  <2> QED BY <2>1, <2>2
<1> DEFINE at(n) == CHOOSE k \in DOMAIN items : Stays(k) /\ NewPos(k) = n
<1>8. \A n \in 1..N : at(n) \in S /\ NewPos(at(n)) = n
  <2> SUFFICES ASSUME NEW n \in 1..N PROVE at(n) \in S /\ NewPos(at(n)) = n
    OBVIOUS
  <2>1. \E k \in DOMAIN items : Stays(k) /\ NewPos(k) = n
    BY <1>6 DEF Staying
  <2>2. at(n) \in DOMAIN items /\ Stays(at(n)) /\ NewPos(at(n)) = n
    BY <2>1
  <2> HIDE DEF at
  <2> QED BY <2>2 DEF Staying
<1>9. Kept = [n \in 1..N |-> items[at(n)]]
  BY <1>1 DEF Kept
<1> HIDE DEF at, S, N
<1>10. \A k \in S : Kept[NewPos(k)] = items[k]
  BY <1>6, <1>7, <1>8, <1>9
<1>11. Kept \in Seq(Item) /\ Len(Kept) = N /\ DOMAIN Kept = 1..N
  <2>1. \A n \in 1..N : items[at(n)] \in Item
    <3>1. \A k \in S : items[k] \in Item
      BY <1>1, <1>2
    <3> QED BY <1>8, <3>1
  <2>2. Kept \in [1..N -> Item]
    BY <1>9, <2>1
  <2> QED BY <1>6, <2>2
<1>12. \A k \in S : Pos(k) = NewPos(k)
  <2> SUFFICES ASSUME NEW k \in S PROVE Pos(k) = NewPos(k)
    OBVIOUS
  <2>1. k \in DOMAIN items /\ Stays(k)
    BY DEF S, Staying
  <2> QED BY <1>1, <2>1 DEF Pos
<1>13. \A n \in 1..N : \E k \in S : n = Pos(k)
  BY <1>6, <1>12
<1> QED BY <1>1, <1>6, <1>10, <1>11, <1>12, <1>13 DEF S

(* Going on in the kernel that came in goes on in what is left of it.      *)
LEMMA KeptSteps ==
  ASSUME items \in Seq(Item), NEW k \in Staying, NEW t \in Follows(k, items)
  PROVE  Pos(t) \in Steps(Kept)[Pos(k)] /\ t \in 1..(Len(items) + 1)
<1>1. /\ Len(items) \in Nat /\ DOMAIN items = 1..Len(items) /\ k \in 1..Len(items)
      /\ Kept \in Seq(Item) /\ Len(Kept) = NewPos(Len(items)) /\ Len(Kept) \in Nat
      /\ Pos(k) = NewPos(k) /\ Pos(k) \in DOMAIN Kept /\ Kept[Pos(k)] = items[k]
  BY NewPosFacts, KeptFacts DEF Staying
<1>2. Steps(Kept)[Pos(k)] = Follows(Pos(k), Kept)
  BY <1>1, StepsFacts
<1>3. CASE items[k].op = "bra" /\ t \in DOMAIN items /\ items[t].op = "label"
             /\ items[t].lbl = items[k].lbl
  <2>1. t \in Staying
    BY <1>3 DEF Staying, Stays
  <2>2. Pos(t) \in DOMAIN Kept /\ Kept[Pos(t)] = items[t]
    BY <2>1, KeptFacts
  <2> QED BY <1>1, <1>2, <1>3, <2>2 DEF Follows
<1>4. CASE items[k].op = "ret" /\ t = Len(items) + 1
  <2>1. Pos(t) = Len(Kept) + 1
    BY <1>1, <1>4 DEF Pos
  <2> QED BY <1>1, <1>2, <1>4, <2>1 DEF Follows
<1>5. CASE items[k].op # "ret" /\ ~ (items[k].op = "bra" /\ ~ items[k].guard) /\ t = k + 1
  <2>1. Pos(t) = Pos(k) + 1
    BY <1>1, <1>5 DEF Pos
  <2> QED BY <1>1, <1>2, <1>5, <2>1 DEF Follows
<1> QED BY <1>1, <1>3, <1>4, <1>5 DEF Follows

-----------------------------------------------------------------------------
(* The invariant of the allocation as a whole.                             *)

(* The condition under which ranges cover what they stand for.  Where no   *)
(* intervals were computed there is none.                                  *)
View == order # <<>> => InView(Kept)

(* The scan works on the intervals of what is left.                        *)
ScanInv ==
    /\ phase \in {"seed", "mark"} => order = <<>> /\ intervals = <<>> /\ Fresh
    /\ phase \notin {"seed", "mark"} =>
          \/ order = <<>> /\ intervals = <<>>
          \/ order = Order(Kept) /\ intervals = Intervals(Kept)
    /\ View => IInv

Listed(r) == \E u \in DOMAIN order : order[u] = r

(* Registers share a place only if the scan gave it to both, one interval  *)
(* after the other.                                                        *)
Shared(q, r) == Listed(q) /\ Listed(r) /\ ~ Overlap(IntervalOf(q), IntervalOf(r))
PlaceInv ==
    /\ next \in Nat
    /\ phase \in {"lower", "run"} /\ View /\ ~ fellBack =>
          /\ place \in [Reg -> 0..MaxGpr \cup {None}]
          /\ \A r \in Reg : Placed(r) \subseteq (0..MaxGpr) \cap reserved
          /\ \A q, r \in Reg : q # r /\ Placed(q) \cap Placed(r) # {} => Shared(q, r)

(* Every register that an instruction mentions has a place when it runs.   *)
AllPlaced == phase = "run" => \A k \in DOMAIN Kept : MissingIn(Kept[k]) = {}

(* A value that may still be read is where its register is.                *)
Current == \A r \in Reg :
    LiveBefore(Pos(pc), r, Kept) => \A p \in Placed(r) : holds[p] = madeBy[r]
RunInv ==
    /\ pc \in 1..(Len(items) + 1)
    /\ madeBy \in [Reg -> Nat] /\ holds \in [0..MaxGpr -> Nat]
    /\ phase # "run" => /\ pc = 1
                        /\ madeBy = [r \in Reg |-> 0]
                        /\ holds = [p \in 0..MaxGpr |-> 0]
    /\ phase = "run" /\ order # <<>> /\ InView(Kept) => Pos(pc) \in Onward(Kept)
    /\ phase = "run" /\ View /\ ~ fellBack => Current

RaInv == DceInv /\ ScanInv /\ PlaceInv /\ AllPlaced /\ RunInv

(* What the kernels are, and what is left of them.                         *)
LEMMA KernelItems ==
  ASSUME items \in Kernels
  PROVE  /\ items \in Seq(Item) /\ Len(items) \in Nat /\ DOMAIN items = 1..Len(items)
         /\ Kept \in Seq(Item) /\ Len(Kept) \in Nat /\ DOMAIN Kept = 1..Len(Kept)
         /\ \A k \in DOMAIN items :
               /\ items[k] \in Item
               /\ LiveDest(items[k]) # NoReg => LiveDest(items[k]) \in Reg
               /\ items[k].op = "label" => items[k].srcs = <<>>
               /\ RegsIn(items[k].srcs) \subseteq Reg
         /\ \A n \in DOMAIN Kept : Kept[n].op = "label" => Kept[n].srcs = <<>>
<1>1. /\ items \in Seq(Item) /\ Len(items) \in Nat /\ DOMAIN items = 1..Len(items)
      /\ \A k \in DOMAIN items :
            /\ items[k].op \in PureOp \cup {"ld", "fma"} => items[k].dst \in Reg
            /\ items[k].op = "label" => items[k].srcs = <<>>
  BY KernelsAssumption
<1>2. ASSUME NEW k \in DOMAIN items
      PROVE  /\ items[k] \in Item
             /\ LiveDest(items[k]) # NoReg => LiveDest(items[k]) \in Reg
             /\ RegsIn(items[k].srcs) \subseteq Reg
  <2>1. items[k] \in Item
    BY <1>1, <1>2
  <2>2. items[k].srcs \in Seq(Operand)
    BY <2>1 DEF Item
  <2>3. RegsIn(items[k].srcs) \subseteq Reg
    <3> SUFFICES ASSUME NEW n \in DOMAIN items[k].srcs, items[k].srcs[n][1] = "reg"
                 PROVE  items[k].srcs[n][2] \in Reg
      BY DEF RegsIn
    <3>1. items[k].srcs[n] \in Operand
      BY <2>2
    <3> QED BY <3>1 DEF Operand
  <2> QED BY <1>1, <2>1, <2>3 DEF LiveDest
<1>3. /\ Kept \in Seq(Item) /\ Len(Kept) \in Nat /\ DOMAIN Kept = 1..Len(Kept)
      /\ \A n \in DOMAIN Kept : \E k \in Staying : n = Pos(k) /\ Kept[n] = items[k]
  BY <1>1, KeptFacts
<1>4. ASSUME NEW n \in DOMAIN Kept, Kept[n].op = "label" PROVE Kept[n].srcs = <<>>
  <2>1. PICK k \in Staying : Kept[n] = items[k]
    BY <1>3
  <2>2. k \in DOMAIN items
    BY DEF Staying
  <2> QED BY <1>1, <1>4, <2>1, <2>2
<1> QED BY <1>1, <1>2, <1>3, <1>4

(* What does not stay is an instruction without effect, and nothing that   *)
(* stays reads its result.                                                 *)
LEMMA RemovedFacts ==
  ASSUME DceInv, phase \notin {"seed", "mark"}, NEW k \in DOMAIN items, ~ Stays(k)
  PROVE  /\ items[k].op \in PureOp
         /\ \A n : ~ LiveBefore(n, LiveDest(items[k]), Kept)
<1>1. items[k].op # "label" /\ k \notin live
  BY DEF Stays
<1>2. /\ items \in Kernels /\ Effects \subseteq live
      /\ \A n \in live : Sources(n) \subseteq live
  BY DEF DceInv, Followed
<1>3. k \in Instructions(items) /\ items[k].op \in PureOp
  BY <1>1, <1>2, KernelFacts DEF Effects, SideEffecting
<1> DEFINE r == LiveDest(items[k])
<1>4. Dest(items[k]) = r /\ k \in DefMap(r)
  BY <1>3 DEF Dest, LiveDest, DefMap
<1>5. Uses(r, Kept) = {}
  <2> SUFFICES ASSUME NEW n \in DOMAIN Kept, r \in RegsIn(Kept[n].srcs) PROVE FALSE
    BY DEF Uses, LiveSources
  <2>1. PICK m \in Staying : Kept[n] = items[m]
    BY <1>2, KernelItems, KeptFacts
  <2>2. m \in DOMAIN items /\ (items[m].op = "label" \/ m \in live)
    BY DEF Staying, Stays
  <2>3. items[m].op # "label"
    <3>1. items[m].op = "label" => RegsIn(items[m].srcs) = {}
      <4>1. items[m].op = "label" => items[m].srcs = <<>>
        BY <1>2, <2>2, KernelItems
      <4> QED BY <4>1 DEF RegsIn
    <3> QED BY <2>1, <3>1
  <2>4. r \in ReadRegs(items[m])
    BY <2>1 DEF ReadRegs
  <2>5. k \in Sources(m)
    BY <1>4, <2>4 DEF Sources
  <2> QED BY <1>1, <1>2, <2>2, <2>3, <2>5
<1> QED BY <1>3, <1>5 DEF LiveBefore

(* The interval of a register is its range.                                *)
LEMMA IntervalFactsOf ==
  ASSUME items \in Kernels, order = Order(Kept), intervals = Intervals(Kept),
         NEW r \in Defined(Kept)
  PROVE  /\ Listed(r)
         /\ IntervalOf(r).first = Extended(r, Kept).first
         /\ IntervalOf(r).last = Extended(r, Kept).last
<1> DEFINE u == CHOOSE n \in DOMAIN order : order[n] = r
<1>1. \E n \in DOMAIN order : order[n] = r
  BY KernelItems, OrderFacts
<1>2. u \in DOMAIN order /\ order[u] = r
  BY <1>1
<1>3. intervals = [n \in DOMAIN order |->
          [pair |-> order[n] \in Pairs, first |-> Extended(order[n], Kept).first,
           last |-> Extended(order[n], Kept).last]]
  BY DEF Intervals
<1>4. IntervalOf(r) = intervals[u]
  BY DEF IntervalOf
<1> HIDE DEF u
<1>5. IntervalOf(r) = [pair |-> order[u] \in Pairs, first |-> Extended(order[u], Kept).first,
                       last |-> Extended(order[u], Kept).last]
  BY <1>2, <1>3, <1>4
<1> QED BY <1>1, <1>2, <1>5 DEF Listed

(* An item that writes one register while another may still be read: both  *)
(* ranges hold its position.                                               *)
LEMMA WriteOverlaps ==
  ASSUME items \in Kernels, order = Order(Kept), intervals = Intervals(Kept),
         InView(Kept), NEW k \in Staying, Pos(k) \in Onward(Kept),
         NEW q \in Reg, q = LiveDest(items[k]), NEW r \in Reg, r # q,
         LiveAfter(Pos(k), r, Kept)
  PROVE  Overlap(IntervalOf(q), IntervalOf(r))
<1> DEFINE n == Pos(k)
<1>1. /\ Kept \in Seq(Item) /\ DOMAIN Kept = 1..Len(Kept) /\ Len(Kept) \in Nat
      /\ \A m \in DOMAIN Kept : Kept[m].op = "label" => Kept[m].srcs = <<>>
      /\ n \in DOMAIN Kept /\ Kept[n] = items[k]
      /\ Kept # <<>> /\ ~ Malformed(Kept)
  BY KernelItems, KeptFacts DEF InView
<1> HIDE DEF n
<1>2. n \in Defs(q, Kept) /\ n \notin Defs(r, Kept)
  BY <1>1 DEF Defs
<1>3. /\ Defs(r, Kept) # {}
      /\ Extended(r, Kept).first <= n /\ n <= Extended(r, Kept).last
  BY <1>1, <1>2, RangeHolds DEF n
<1>4. q \in Defined(Kept) /\ r \in Defined(Kept)
  BY <1>1, <1>2, <1>3, PtxAssumption DEF Defined, Defs
<1>5. Extended(q, Kept).first <= n /\ n <= Extended(q, Kept).last
  <2> DEFINE m == Merged(q, Kept)
             e == Extended(q, Kept)
  <2>1. m.first \in 1..Len(Kept) /\ m.last \in m.first..Len(Kept) /\ m.first <= n /\ n <= m.last
    BY <1>1, <1>2, MergedFacts
  <2>2. e = [first |-> m.first, last |-> e.last] /\ e.last \in m.last..Len(Kept)
    BY <1>1, <1>2, ExtendedFacts
  <2> HIDE DEF m, e
  <2>3. e.first = m.first
    BY <2>2
  <2>4. e.first <= n /\ n <= e.last
    BY <1>1, <2>1, <2>2, <2>3
  <2> QED BY <2>4 DEF e
<1>6. /\ Extended(r, Kept).first \in Nat /\ Extended(r, Kept).last \in Nat
      /\ Extended(q, Kept).first \in Nat /\ Extended(q, Kept).last \in Nat
  <2> SUFFICES ASSUME NEW x, Defs(x, Kept) # {}
               PROVE  Extended(x, Kept).first \in Nat /\ Extended(x, Kept).last \in Nat
    BY <1>2, <1>3
  <2> DEFINE m == Merged(x, Kept)
             e == Extended(x, Kept)
  <2>1. m.first \in 1..Len(Kept) /\ m.last \in m.first..Len(Kept)
    BY <1>1, MergedFacts
  <2>2. e = [first |-> m.first, last |-> e.last] /\ e.last \in m.last..Len(Kept)
    BY <1>1, ExtendedFacts
  <2> HIDE DEF m, e
  <2>3. e.first = m.first
    BY <2>2
  <2>4. e.first \in Nat /\ e.last \in Nat
    BY <1>1, <2>1, <2>2, <2>3
  <2> QED BY <2>4 DEF e
<1>7. /\ IntervalOf(q).first = Extended(q, Kept).first
      /\ IntervalOf(q).last = Extended(q, Kept).last
      /\ IntervalOf(r).first = Extended(r, Kept).first
      /\ IntervalOf(r).last = Extended(r, Kept).last
  BY <1>4, IntervalFactsOf
<1>8. n \in Nat
  BY <1>1
<1> QED BY <1>3, <1>5, <1>6, <1>7, <1>8 DEF Overlap

-----------------------------------------------------------------------------
(* Steps of the allocation as a whole.                                     *)

(* Before anything happens the invariant holds.                            *)
LEMMA RaInitInv == RaInit => RaInv
<1> SUFFICES ASSUME RaInit PROVE RaInv
  OBVIOUS
<1>1. /\ items \in Kernels /\ phase \in {"seed", "lower"} /\ order = <<>>
      /\ intervals = <<>> /\ mapping = <<>> /\ v = 1
      /\ free = [k \in 1..MaxGpr |-> MaxGpr + 1 - k]
      /\ active = <<>> /\ still = <<>> /\ fellBack = FALSE
      /\ place = [r \in Reg |-> None] /\ reserved = {} /\ next = 1 /\ pc = 1
      /\ madeBy = [r \in Reg |-> 0] /\ holds = [p \in 0..MaxGpr |-> 0]
  BY DEF RaInit
<1>2. Fresh
  <2>1. Sorted(intervals)
    <3>1. <<>> \in Seq(Interval) /\ Len(<<>>) = 0
      OBVIOUS
    <3> QED BY <1>1, <3>1 DEF Sorted
  <2>2. mapping = [u \in Vregs |-> None]
    BY <1>1 DEF Vregs
  <2> QED BY <1>1, <2>1, <2>2 DEF Fresh
<1>3. ScanInv
  BY <1>1, <1>2, FreshIInv DEF ScanInv
<1>4. PlaceInv
  BY <1>1 DEF PlaceInv, Placed
<1>5. RunInv
  BY <1>1, KernelItems DEF RunInv
<1> QED BY <1>1, <1>3, <1>4, <1>5, RaInitDceInv DEF RaInv, AllPlaced

(* What is left does not change once nothing more is marked.               *)
LEMMA SameKept ==
  ASSUME items' = items, live' = live
  PROVE  /\ Kept' = Kept /\ Staying' = Staying
         /\ \A k : (Pos(k))' = Pos(k) /\ (Stays(k))' = Stays(k)
         /\ order' = order => (View' <=> View)
<1>1. \A k : (Stays(k))' = Stays(k)
  BY DEF Stays
<1>2. \A k : (NewPos(k))' = NewPos(k)
  BY <1>1 DEF NewPos
<1>3. Kept' = Kept
  BY DEF Kept, NewPos, Stays
<1> QED BY <1>1, <1>2, <1>3 DEF Staying, Pos, View

(* Marking and what comes before it leave the rest alone.                  *)
LEMMA DceStep == RaInv /\ Dce => RaInv'
<1> SUFFICES ASSUME RaInv, Dce PROVE RaInv'
  OBVIOUS
<1>1. /\ phase \in {"seed", "mark"} /\ phase' = "mark" /\ UNCHANGED items
      /\ UNCHANGED <<vars, order, lowering, run>>
  BY DEF Dce, Seed, Mark
<1>2. DceInv'
  BY RaNextKeepsDceInv DEF RaInv, RaNext
<1>3. order = <<>> /\ intervals = <<>> /\ Fresh /\ IInv
  BY <1>1 DEF RaInv, ScanInv, View
<1>4. order' = <<>> /\ intervals' = <<>> /\ Fresh'
  BY <1>1, <1>3 DEF Fresh, vars, Vregs
<1>5. IInv'
  BY <1>1, <1>3, NextKeepsIInv
<1>6. ScanInv'
  BY <1>1, <1>4, <1>5 DEF ScanInv
<1>7. PlaceInv'
  BY <1>1 DEF RaInv, PlaceInv, lowering
<1>8. RunInv'
  BY <1>1 DEF RaInv, RunInv, run
<1> QED BY <1>1, <1>2, <1>6, <1>7, <1>8 DEF RaInv, AllPlaced

(* The scan starts on the intervals of what is left.                       *)
LEMMA StartScanStep == RaInv /\ StartScan => RaInv'
<1> SUFFICES ASSUME RaInv, StartScan PROVE RaInv'
  OBVIOUS
<1>1. /\ phase = "mark" /\ phase' = "scan" /\ UNCHANGED <<items, dce>>
      /\ order' = Order(Kept) /\ intervals' = Intervals(Kept)
      /\ mapping' = [u \in DOMAIN intervals' |-> None]
      /\ UNCHANGED <<v, free, active, still, fellBack, lowering, run>>
  BY DEF StartScan
<1>2. DceInv' /\ items \in Kernels
  BY RaNextKeepsDceInv DEF RaInv, RaNext, DceInv
<1>3. Kept' = Kept
  BY <1>1, SameKept DEF dce
<1>4. Fresh
  BY <1>1 DEF RaInv, ScanInv
<1>5. ASSUME View' PROVE IInv'
  <2>1. order' # <<>> => InView(Kept)
    BY <1>3, <1>5 DEF View
  <2>2. Sorted(Intervals(Kept)) /\ Len(Intervals(Kept)) \in Nat
        /\ DOMAIN Intervals(Kept) = 1..Len(Intervals(Kept))
    <3>1. CASE order' # <<>>
      <4>1. Sorted(Intervals(Kept))
        BY <1>2, <2>1, <3>1, KernelItems, IntervalsSorted DEF InView
      <4> QED BY <4>1 DEF Sorted
    <3>2. CASE order' = <<>>
      <4>1. Intervals(Kept) = <<>>
        BY <1>1, <3>2 DEF Intervals
      <4>2. <<>> \in Seq(Interval) /\ Len(<<>>) = 0
        OBVIOUS
      <4> QED BY <4>1, <4>2 DEF Sorted
    <3> QED BY <3>1, <3>2
  <2>3. Fresh'
    <3>1. mapping' = [u \in Vregs' |-> None]
      BY <1>1, <2>2 DEF Vregs
    <3> QED BY <1>1, <1>4, <2>2, <3>1 DEF Fresh
  <2> QED BY <2>3, FreshIInv, PTL
<1>6. ScanInv'
  BY <1>1, <1>3, <1>5 DEF ScanInv
<1>7. PlaceInv'
  BY <1>1 DEF RaInv, PlaceInv, lowering
<1>8. RunInv'
  BY <1>1 DEF RaInv, RunInv, run
<1> QED BY <1>1, <1>2, <1>6, <1>7, <1>8 DEF RaInv, AllPlaced

(* What the scan does, or what comes after it leaves alone.                *)
LEMMA LaterScanInv ==
  ASSUME ScanInv, UNCHANGED <<items, dce, order>>, [Next]_vars,
         phase \notin {"seed", "mark"}, phase' \notin {"seed", "mark"}
  PROVE  ScanInv'
<1>1. intervals' = intervals
  BY DEF Next, Expire, Keep, AssignScalar, AssignPair, NoRoomForPair, Fallback,
         Advance, vars
<1>2. items' = items /\ live' = live /\ order' = order
  BY DEF dce
<1>3. Kept' = Kept /\ (View' <=> View)
  BY <1>2, SameKept
<1>4. View => IInv'
  BY NextKeepsIInv DEF ScanInv
<1> QED BY <1>1, <1>2, <1>3, <1>4 DEF ScanInv

(* Steps of the scan.                                                      *)
LEMMA ScanStep == RaInv /\ Scan => RaInv'
<1> SUFFICES ASSUME RaInv, Scan PROVE RaInv'
  OBVIOUS
<1>1. /\ phase = "scan" /\ phase' = "scan" /\ Next
      /\ UNCHANGED <<items, phase, dce, order, lowering, run>>
  BY DEF Scan
<1>2. DceInv'
  BY RaNextKeepsDceInv DEF RaInv, RaNext
<1>3. ScanInv'
  BY <1>1, LaterScanInv DEF RaInv
<1>4. PlaceInv'
  BY <1>1 DEF RaInv, PlaceInv, lowering
<1>5. RunInv'
  BY <1>1 DEF RaInv, RunInv, run
<1> QED BY <1>1, <1>2, <1>3, <1>4, <1>5 DEF RaInv, AllPlaced

(* What is before execution has executed nothing.                          *)
LEMMA BeforeRun ==
  ASSUME RunInv, phase # "run", phase' # "run", UNCHANGED run, UNCHANGED items
  PROVE  RunInv'
BY DEF RunInv, run

(* Lowering takes the mapping over.                                        *)
LEMMA StartLoweringStep == RaInv /\ StartLowering => RaInv'
<1> SUFFICES ASSUME RaInv, StartLowering PROVE RaInv'
  OBVIOUS
<1>1. /\ phase = "scan" /\ phase' = "lower"
      /\ place' = [r \in Reg |->
                      IF \E u \in DOMAIN order : order[u] = r
                      THEN mapping[CHOOSE u \in DOMAIN order : order[u] = r] ELSE None]
      /\ reserved' = UNION {From(place'[r], r) : r \in {q \in Reg : place'[q] # None}}
      /\ UNCHANGED <<vars, items, dce, order, next, run>>
  BY DEF StartLowering
<1>2. DceInv' /\ items \in Kernels
  BY RaNextKeepsDceInv DEF RaInv, RaNext, DceInv
<1>3. ScanInv'
  BY <1>1, LaterScanInv DEF RaInv
<1>4. RunInv'
  BY <1>1, BeforeRun DEF RaInv
<1>5. PlaceInv'
  <2>1. next' \in Nat
    BY <1>1 DEF RaInv, PlaceInv
  <2> SUFFICES ASSUME View', ~ fellBack'
               PROVE  /\ place' \in [Reg -> 0..MaxGpr \cup {None}]
                      /\ \A r \in Reg : Placed(r)' \subseteq (0..MaxGpr) \cap reserved'
                      /\ \A q, r \in Reg :
                            q # r /\ Placed(q)' \cap Placed(r)' # {} => Shared(q, r)'
    BY <2>1 DEF PlaceInv
  <2>2. View /\ Kept' = Kept
    BY <1>1, SameKept DEF dce
  <2>3. IInv /\ ~ fellBack
    BY <1>1, <2>2 DEF RaInv, ScanInv, vars
  <2>4. /\ Sorted(intervals) /\ mapping \in [Vregs -> 0..MaxGpr \cup {None}]
        /\ Unshared /\ Within /\ MaxGpr \in Nat
    BY <2>3, MaxGprAssumption DEF IInv, TInv, TypeOK, Pooled
  <2> DEFINE at(r) == CHOOSE u \in DOMAIN order : order[u] = r
  <2>5. \A r : Listed(r) => at(r) \in DOMAIN order /\ order[at(r)] = r
    BY DEF Listed
  <2>6. \A r \in Reg : place'[r] = IF Listed(r) THEN mapping[at(r)] ELSE None
    BY <1>1 DEF Listed
  <2>7. \A r : IntervalOf(r) = intervals[at(r)]
    BY DEF IntervalOf
  <2> HIDE DEF at
  <2>8. \A n \in DOMAIN order : n \in Vregs /\ intervals[n].pair = (order[n] \in Pairs)
    <3>1. CASE order = <<>>
      BY <3>1
    <3>2. CASE order # <<>>
      <4>1. order = Order(Kept) /\ intervals = Intervals(Kept)
        BY <1>1, <3>2 DEF RaInv, ScanInv
      <4>2. Kept \in Seq(Item) /\ Kept # <<>> /\ ~ Malformed(Kept)
        BY <1>2, <2>2, <3>2, KernelItems DEF View, InView
      <4>3. Len(intervals) = Len(order) /\ DOMAIN order = 1..Len(order)
        BY <4>1, <4>2, IntervalsSorted, OrderFacts
      <4>4. \A n \in DOMAIN order : intervals[n].pair = (order[n] \in Pairs)
        BY <4>1 DEF Intervals
      <4> QED BY <4>3, <4>4 DEF Vregs
    <3> QED BY <3>1, <3>2
  <2>9. ASSUME NEW r \in Reg
        PROVE  /\ place'[r] \in 0..MaxGpr \cup {None}
               /\ Placed(r)' = IF Listed(r) THEN Regs(at(r)) ELSE {}
    <3>1. CASE ~ Listed(r)
      BY <2>6, <3>1 DEF Placed
    <3>2. CASE Listed(r)
      <4>1. at(r) \in Vregs /\ intervals[at(r)].pair = (r \in Pairs)
        BY <2>5, <2>8, <3>2
      <4>2. place'[r] = mapping[at(r)] /\ mapping[at(r)] \in 0..MaxGpr \cup {None}
        BY <2>4, <2>6, <3>2, <4>1
      <4>3. CASE place'[r] = None
        BY <3>2, <4>2, <4>3 DEF Placed, Regs
      <4>4. CASE place'[r] # None
        <5>1. Placed(r)' = place'[r]..(place'[r] + Width(r) - 1) /\ place'[r] \in Nat
          BY <4>2, <4>4 DEF Placed, From
        <5>2. /\ place'[r]..(place'[r] + 1) = {place'[r], place'[r] + 1}
              /\ place'[r]..(place'[r] + 0) = {place'[r]}
          BY <5>1
        <5>3. Placed(r)' = IF r \in Pairs THEN {place'[r], place'[r] + 1} ELSE {place'[r]}
          <6>1. place'[r] + Width(r) - 1 =
                    IF r \in Pairs THEN place'[r] + 1 ELSE place'[r] + 0
            BY <5>1 DEF Width
          <6> QED BY <5>1, <5>2, <6>1
        <5>4. Regs(at(r)) = IF r \in Pairs THEN {place'[r], place'[r] + 1} ELSE {place'[r]}
          BY <4>1, <4>2, <4>4 DEF Regs
        <5> QED BY <3>2, <4>2, <5>3, <5>4
      <4> QED BY <4>2, <4>3, <4>4
    <3> QED BY <3>1, <3>2
  <2>10. place' \in [Reg -> 0..MaxGpr \cup {None}]
    BY <1>1, <2>9
  <2>11. ASSUME NEW r \in Reg PROVE Placed(r)' \subseteq (0..MaxGpr) \cap reserved'
    <3>1. Placed(r)' \subseteq 0..MaxGpr
      <4>1. Listed(r) => Regs(at(r)) \subseteq 1..MaxGpr
        BY <2>4, <2>5, <2>8 DEF Within
      <4> QED BY <2>4, <2>9, <4>1
    <3>2. Placed(r)' \subseteq reserved'
      BY <1>1 DEF Placed
    <3> QED BY <3>1, <3>2
  <2>12. ASSUME NEW q \in Reg, NEW r \in Reg, q # r, Placed(q)' \cap Placed(r)' # {}
         PROVE  Shared(q, r)'
    <3>1. Listed(q) /\ Listed(r) /\ Regs(at(q)) \cap Regs(at(r)) # {}
      BY <2>9, <2>12
    <3>2. at(q) \in Vregs /\ at(r) \in Vregs /\ at(q) # at(r)
      BY <2>5, <2>8, <2>12, <3>1
    <3>3. ~ Overlap(IntervalOf(q), IntervalOf(r))
      BY <2>4, <2>7, <3>1, <3>2 DEF Unshared
    <3>4. order' = order /\ intervals' = intervals
      BY <1>1 DEF vars
    <3> QED BY <3>1, <3>3, <3>4 DEF Shared, Listed, IntervalOf
  <2> QED BY <2>10, <2>11, <2>12
<1> QED BY <1>1, <1>2, <1>3, <1>4, <1>5 DEF RaInv, AllPlaced

(* Lowering finds a place for a register that has none.                    *)
LEMMA AllocateStep == ASSUME RaInv, NEW r \in Reg, Allocate(r) PROVE RaInv'
<1>1. /\ phase = "lower" /\ phase' = "lower" /\ r \in Missing
      /\ UNCHANGED <<vars, items, dce, order, run>>
  BY DEF Allocate
<1>2. PICK p \in next..MaxGpr :
         /\ Fits(p, r)
         /\ place' = [place EXCEPT ![r] = p]
         /\ reserved' = reserved \cup From(p, r)
         /\ next' = p + Width(r)
  BY DEF Allocate
<1>3. DceInv' /\ ScanInv' /\ RunInv'
  <2>1. RaNext
    BY DEF RaNext
  <2> QED BY <1>1, <2>1, RaNextKeepsDceInv, LaterScanInv, BeforeRun DEF RaInv
<1>4. /\ next \in Nat /\ p \in Nat /\ p <= MaxGpr /\ MaxGpr \in Nat
      /\ Width(r) \in {1, 2} /\ p \in From(p, r)
  <2>1. next \in Nat /\ p \in Nat /\ p <= MaxGpr
    BY <1>2, MaxGprAssumption DEF RaInv, PlaceInv
  <2>2. Width(r) = 1 \/ Width(r) = 2
    BY DEF Width
  <2>3. p <= p + Width(r) - 1
    BY <2>1, <2>2
  <2> QED BY <2>1, <2>2, <2>3, MaxGprAssumption DEF From
<1>5. PlaceInv'
  <2>1. next' \in Nat
    BY <1>2, <1>4
  <2> SUFFICES ASSUME View', ~ fellBack'
               PROVE  /\ place' \in [Reg -> 0..MaxGpr \cup {None}]
                      /\ \A q \in Reg : Placed(q)' \subseteq (0..MaxGpr) \cap reserved'
                      /\ \A q, s \in Reg :
                            q # s /\ Placed(q)' \cap Placed(s)' # {} => Shared(q, s)'
    BY <2>1 DEF PlaceInv
  <2>2. View /\ ~ fellBack /\ order' = order /\ intervals' = intervals
    BY <1>1, SameKept DEF dce, vars
  <2>3. /\ place \in [Reg -> 0..MaxGpr \cup {None}]
        /\ \A q \in Reg : Placed(q) \subseteq (0..MaxGpr) \cap reserved
        /\ \A q, s \in Reg : q # s /\ Placed(q) \cap Placed(s) # {} => Shared(q, s)
    BY <1>1, <2>2 DEF RaInv, PlaceInv
  <2>4. From(p, r) \cap reserved = {} /\ From(p, r) \subseteq 0..MaxGpr
    BY <1>2 DEF Fits
  <2>5. p \in 0..MaxGpr /\ place' \in [Reg -> 0..MaxGpr \cup {None}]
    BY <1>2, <1>4, <2>3
  <2>6. place'[r] = p /\ \A q \in Reg : q # r => place'[q] = place[q]
    BY <1>2, <2>3
  <2>7. Placed(r)' = From(p, r) /\ \A q \in Reg : q # r => Placed(q)' = Placed(q)
    <3>1. p # None
      BY <1>4 DEF None
    <3> QED BY <2>6, <3>1 DEF Placed
  <2>8. \A q \in Reg : Placed(q)' \subseteq (0..MaxGpr) \cap reserved'
    BY <1>2, <2>3, <2>4, <2>7
  <2>9. ASSUME NEW q \in Reg, NEW s \in Reg, q # s, Placed(q)' \cap Placed(s)' # {}
        PROVE  Shared(q, s)'
    <3>1. q # r /\ s # r
      BY <2>3, <2>4, <2>7, <2>9
    <3>2. Shared(q, s)
      BY <2>3, <2>7, <2>9, <3>1
    <3> QED BY <2>2, <3>2 DEF Shared, Listed, IntervalOf
  <2> QED BY <2>5, <2>8, <2>9
<1> QED BY <1>1, <1>3, <1>5 DEF RaInv, AllPlaced

(* Or gives up.                                                            *)
LEMMA RunsOutStep == ASSUME RaInv, NEW r \in Reg, RunsOut(r) PROVE RaInv'
<1>1. /\ phase = "lower" /\ phase' = "error"
      /\ UNCHANGED <<vars, items, dce, order, lowering, run>>
  BY DEF RunsOut
<1>2. DceInv' /\ ScanInv' /\ RunInv'
  <2>1. RaNext
    BY DEF RaNext
  <2> QED BY <1>1, <2>1, RaNextKeepsDceInv, LaterScanInv, BeforeRun DEF RaInv
<1>3. PlaceInv'
  BY <1>1 DEF RaInv, PlaceInv, lowering
<1> QED BY <1>1, <1>2, <1>3 DEF RaInv, AllPlaced

(* When every register has a place, the kernel runs.                       *)
LEMMA LoweredStep == RaInv /\ Lowered => RaInv'
<1> SUFFICES ASSUME RaInv, Lowered PROVE RaInv'
  OBVIOUS
<1>1. /\ phase = "lower" /\ phase' = "run" /\ Missing = {}
      /\ UNCHANGED <<vars, items, dce, order, lowering, run>>
  BY DEF Lowered
<1>2. DceInv' /\ ScanInv' /\ items \in Kernels
  BY <1>1, RaNextKeepsDceInv, LaterScanInv DEF RaInv, RaNext, DceInv
<1>3. /\ items \in Seq(Item) /\ Len(items) \in Nat
      /\ Kept \in Seq(Item) /\ DOMAIN Kept = 1..Len(Kept)
  BY <1>2, KernelItems
<1>4. /\ Kept' = Kept /\ (\A k : (Pos(k))' = Pos(k)) /\ (View' <=> View)
      /\ order' = order /\ intervals' = intervals /\ fellBack' = fellBack
      /\ place' = place /\ reserved' = reserved /\ next' = next
      /\ pc' = pc /\ madeBy' = madeBy /\ holds' = holds /\ items' = items
  BY <1>1, SameKept DEF dce, vars, lowering, run
<1>5. \A r : /\ (Placed(r))' = Placed(r)
             /\ \A q : (Shared(q, r))' <=> Shared(q, r)
  BY <1>4 DEF Placed, Shared, Listed, IntervalOf
<1>6. PlaceInv'
  BY <1>1, <1>4, <1>5 DEF RaInv, PlaceInv
<1>7. AllPlaced'
  <2> DEFINE lacking == {k \in DOMAIN Kept : MissingIn(Kept[k]) # {}}
  <2>1. lacking = {}
    <3> SUFFICES ASSUME lacking # {} PROVE FALSE
      OBVIOUS
    <3>1. MissingIn(Kept[Least(lacking)]) = {}
      BY <1>1 DEF Missing
    <3>2. Least(lacking) \in lacking
      <4>1. lacking \subseteq Nat
        BY <1>3
      <4> HIDE DEF lacking
      <4> QED BY <4>1, LeastFacts
    <3> QED BY <3>1, <3>2
  <2>2. \A i : (MissingIn(i))' = MissingIn(i)
    BY <1>4 DEF MissingIn
  <2>3. \A k \in DOMAIN Kept : MissingIn(Kept[k]) = {}
    BY <2>1
  <2>4. \A k \in DOMAIN Kept : (MissingIn(Kept[k]))' = {}
    BY <1>4, <2>3 DEF MissingIn
  <2> QED BY <1>4, <2>4 DEF AllPlaced
<1>8. RunInv'
  <2>1. /\ pc = 1 /\ madeBy = [r \in Reg |-> 0] /\ holds = [p \in 0..MaxGpr |-> 0]
        /\ madeBy \in [Reg -> Nat] /\ holds \in [0..MaxGpr -> Nat]
    BY <1>1 DEF RaInv, RunInv
  <2>2. Pos(1) = 1
    <3>1. NewPos(0) = 0
      BY <1>3, NewPosFacts
    <3> QED BY <3>1 DEF Pos
  <2>3. 1 \in Onward(Kept)
    BY <1>3, OnwardFacts
  <2>4. ASSUME View, ~ fellBack, NEW r \in Reg, NEW p \in Placed(r)
        PROVE  holds[p] = madeBy[r]
    <3>1. p \in 0..MaxGpr
      BY <1>1, <2>4 DEF RaInv, PlaceInv
    <3> QED BY <2>1, <3>1
  <2>5. View /\ ~ fellBack => Current'
    BY <1>4, <1>5, <2>4 DEF Current
  <2> QED BY <1>1, <1>3, <1>4, <2>1, <2>2, <2>3, <2>5 DEF RunInv
<1> QED BY <1>2, <1>6, <1>7, <1>8 DEF RaInv

(* While the kernel runs, what is written goes where nothing is that may   *)
(* still be read.                                                          *)
LEMMA WritesApart ==
  ASSUME RaInv, phase = "run", View, ~ fellBack, pc \in Staying,
         NEW q \in Reg, q = LiveDest(items[pc]), NEW r \in Reg, r # q,
         LiveAfter(Pos(pc), r, Kept)
  PROVE  Placed(q) \cap Placed(r) = {}
<1> SUFFICES ASSUME Placed(q) \cap Placed(r) # {} PROVE FALSE
  OBVIOUS
<1>1. Listed(q) /\ ~ Overlap(IntervalOf(q), IntervalOf(r))
  BY DEF RaInv, PlaceInv, Shared
<1>2. order # <<>>
  BY <1>1 DEF Listed
<1>3. /\ items \in Kernels /\ order = Order(Kept) /\ intervals = Intervals(Kept)
      /\ InView(Kept) /\ Pos(pc) \in Onward(Kept)
  BY <1>2 DEF RaInv, DceInv, ScanInv, RunInv, View
<1>4. Overlap(IntervalOf(q), IntervalOf(r))
  BY <1>3, WriteOverlaps
<1> QED BY <1>1, <1>4

(* One item of the kernel.                                                 *)
LEMMA ExecuteStep == RaInv /\ Execute => RaInv'
<1> SUFFICES ASSUME RaInv, Execute PROVE RaInv'
  OBVIOUS
<1> DEFINE d == LiveDest(items[pc])
<1>1. /\ phase = "run" /\ phase' = "run" /\ pc \in DOMAIN items
      /\ pc' \in Follows(pc, items)
      /\ UNCHANGED <<vars, items, phase, dce, order, lowering>>
      /\ \/ /\ d # NoReg
            /\ madeBy' = [madeBy EXCEPT ![d] = pc]
            /\ holds' = [p \in DOMAIN holds |->
                            IF Stays(pc) /\ p \in Placed(d) THEN pc ELSE holds[p]]
         \/ /\ d = NoReg \/ items[pc].guard
            /\ UNCHANGED <<madeBy, holds>>
  BY DEF Execute
<1>2. DceInv /\ DceInv' /\ ScanInv' /\ items \in Kernels
  BY <1>1, RaNextKeepsDceInv, LaterScanInv DEF RaInv, RaNext, DceInv
<1>3. /\ items \in Seq(Item) /\ Len(items) \in Nat /\ DOMAIN items = 1..Len(items)
      /\ d # NoReg => d \in Reg
      /\ Kept \in Seq(Item) /\ DOMAIN Kept = 1..Len(Kept) /\ Len(Kept) \in Nat
  BY <1>1, <1>2, KernelItems
<1>4. /\ Kept' = Kept /\ (\A k : (Pos(k))' = Pos(k)) /\ (View' <=> View)
      /\ order' = order /\ intervals' = intervals /\ fellBack' = fellBack
      /\ place' = place /\ reserved' = reserved /\ next' = next /\ items' = items
  BY <1>1, SameKept DEF dce, vars, lowering
<1>5. \A r : /\ (Placed(r))' = Placed(r)
             /\ \A q : (Shared(q, r))' <=> Shared(q, r)
  BY <1>4 DEF Placed, Shared, Listed, IntervalOf
<1>6. PlaceInv' /\ AllPlaced'
  BY <1>1, <1>4, <1>5 DEF RaInv, PlaceInv, AllPlaced, MissingIn
<1>7. madeBy \in [Reg -> Nat] /\ holds \in [0..MaxGpr -> Nat] /\ pc \in Nat
  BY <1>1, <1>3 DEF RaInv, RunInv
<1>8. madeBy' \in [Reg -> Nat] /\ holds' \in [0..MaxGpr -> Nat]
  <2>1. CASE UNCHANGED <<madeBy, holds>>
    BY <1>7, <2>1
  <2>2. CASE /\ d # NoReg
             /\ madeBy' = [madeBy EXCEPT ![d] = pc]
             /\ holds' = [p \in DOMAIN holds |->
                            IF Stays(pc) /\ p \in Placed(d) THEN pc ELSE holds[p]]
    <3> HIDE DEF d
    <3> QED BY <1>3, <1>7, <2>2
  <2> HIDE DEF d
  <2> QED BY <1>1, <2>1, <2>2
<1> HIDE DEF d
(* Where control goes on in what is left.                                  *)
<1>9. pc' \in 1..(Len(items) + 1)
      /\ IF Stays(pc) THEN Pos(pc') \in Steps(Kept)[Pos(pc)] ELSE Pos(pc') = Pos(pc)
  <2>1. CASE Stays(pc)
    <3>1. pc \in Staying
      BY <1>1, <2>1 DEF Staying
    <3> QED BY <1>1, <1>3, <2>1, <3>1, KeptSteps
  <2>2. CASE ~ Stays(pc)
    <3>1. items[pc].op \in PureOp
      BY <1>1, <1>2, <2>2, RemovedFacts
    <3>2. pc' = pc + 1
      BY <1>1, <3>1 DEF Follows, PureOp
    <3>3. NewPos(pc) = NewPos(pc - 1)
      BY <1>1, <1>3, <2>2, NewPosFacts
    <3>4. Pos(pc') = Pos(pc)
      BY <1>3, <1>7, <3>2, <3>3 DEF Pos
    <3> QED BY <1>1, <1>3, <2>2, <3>2, <3>4
  <2> QED BY <2>1, <2>2
<1>10. ASSUME order # <<>>, InView(Kept) PROVE Pos(pc') \in Onward(Kept)
  <2>1. Pos(pc) \in Onward(Kept)
    BY <1>1, <1>10 DEF RaInv, RunInv
  <2> QED BY <1>3, <1>9, <1>10, <2>1, OnwardClosed DEF InView
<1>11. ASSUME View, ~ fellBack, NEW r \in Reg, LiveBefore(Pos(pc'), r, Kept),
              NEW p \in Placed(r)
       PROVE  holds'[p] = madeBy'[r]
  <2>1. p \in 0..MaxGpr
    BY <1>1, <1>11 DEF RaInv, PlaceInv
  <2>2. LiveBefore(Pos(pc), r, Kept) => holds[p] = madeBy[r]
    BY <1>1, <1>11 DEF RaInv, RunInv, Current
  <2>3. CASE ~ Stays(pc)
    <3>1. LiveBefore(Pos(pc), r, Kept)
      BY <1>9, <1>11, <2>3
    <3>2. r # d
      BY <1>1, <1>2, <2>3, <3>1, RemovedFacts DEF d
    <3> QED BY <1>1, <1>7, <2>1, <2>2, <2>3, <3>1, <3>2
  <2>4. CASE Stays(pc)
    <3>1. pc \in Staying
      BY <1>1, <2>4 DEF Staying
    <3>2. Pos(pc) \in DOMAIN Kept /\ Kept[Pos(pc)] = items[pc]
      BY <1>3, <3>1, KeptFacts
    <3>3. LiveAfter(Pos(pc), r, Kept)
      BY <1>9, <1>11, <2>4 DEF LiveAfter
    <3>4. CASE UNCHANGED <<madeBy, holds>> /\ (d = NoReg \/ items[pc].guard)
      <4>1. Pos(pc) \notin Certain(r, Kept)
        BY <3>2, <3>4, PtxAssumption DEF Certain, Defs, d
      <4>2. LiveBefore(Pos(pc), r, Kept)
        BY <1>3, <3>2, <3>3, <4>1, LiveAfterBefore
      <4> QED BY <2>2, <3>4, <4>2
    <3>5. CASE /\ d # NoReg
               /\ madeBy' = [madeBy EXCEPT ![d] = pc]
               /\ holds' = [x \in DOMAIN holds |->
                              IF Stays(pc) /\ x \in Placed(d) THEN pc ELSE holds[x]]
      <4>1. CASE r = d
        BY <1>7, <1>11, <2>1, <2>4, <3>5, <4>1
      <4>2. CASE r # d
        <5>1. Pos(pc) \notin Certain(r, Kept)
          BY <3>2, <4>2 DEF Certain, Defs, d
        <5>2. LiveBefore(Pos(pc), r, Kept)
          BY <1>3, <3>2, <3>3, <5>1, LiveAfterBefore
        <5>3. Placed(d) \cap Placed(r) = {}
          BY <1>1, <1>3, <1>11, <3>1, <3>3, <3>5, <4>2, WritesApart DEF d
        <5> QED BY <1>3, <1>7, <1>11, <2>1, <2>2, <3>5, <4>2, <5>2, <5>3
      <4> QED BY <4>1, <4>2
    <3> QED BY <1>1, <3>4, <3>5
  <2> QED BY <2>3, <2>4
<1>12. RunInv'
  <2>1. View /\ ~ fellBack => Current'
    BY <1>4, <1>5, <1>11 DEF Current, Pos
  <2> QED BY <1>1, <1>4, <1>8, <1>9, <1>10, <2>1 DEF RunInv, Pos
<1> QED BY <1>2, <1>6, <1>12 DEF RaInv

(* No step breaks the invariant.                                           *)
LEMMA RaNextKeepsRaInv == RaInv /\ [RaNext]_raVars => RaInv'
<1> SUFFICES ASSUME RaInv, [RaNext]_raVars PROVE RaInv'
  OBVIOUS
<1>1. CASE RaNext
  BY <1>1, DceStep, StartScanStep, ScanStep, StartLoweringStep, AllocateStep,
     RunsOutStep, LoweredStep, ExecuteStep DEF RaNext
<1>2. CASE UNCHANGED raVars
  <2>1. /\ items' = items /\ live' = live /\ order' = order /\ phase' = phase
        /\ UNCHANGED vars /\ UNCHANGED lowering /\ UNCHANGED run
        /\ intervals' = intervals /\ fellBack' = fellBack
        /\ place' = place /\ reserved' = reserved /\ next' = next
        /\ pc' = pc /\ madeBy' = madeBy /\ holds' = holds
    BY <1>2 DEF raVars, dce, vars, lowering, run
  <2>2. Kept' = Kept /\ (\A k : (Pos(k))' = Pos(k)) /\ (View' <=> View)
    BY <2>1, SameKept
  <2>3. DceInv'
    BY <1>2, RaNextKeepsDceInv DEF RaInv
  <2>4. IInv => IInv'
    BY <2>1, NextKeepsIInv
  <2>5. Fresh' <=> Fresh
    BY <2>1 DEF Fresh, vars, Vregs
  <2>6. ScanInv'
    BY <2>1, <2>2, <2>4, <2>5 DEF RaInv, ScanInv
  <2>7. \A r : /\ (Placed(r))' = Placed(r)
               /\ \A q : (Shared(q, r))' <=> Shared(q, r)
    BY <2>1 DEF Placed, Shared, Listed, IntervalOf
  <2>8. PlaceInv' /\ AllPlaced'
    BY <2>1, <2>2, <2>7 DEF RaInv, PlaceInv, AllPlaced, MissingIn
  <2>9. RunInv'
    BY <2>1, <2>2, <2>7 DEF RaInv, RunInv, Current, Pos
  <2> QED BY <2>3, <2>6, <2>8, <2>9 DEF RaInv
<1> QED BY <1>1, <1>2 DEF raVars

(* The allocation as a whole keeps its invariant, for every kernel and     *)
(* every register file: the scan's own invariant, who may share a place,   *)
(* and that what may still be read is where its register is                *)
(* (global_dce.py 35-97, liveness.py 60-117, register_allocation.py        *)
(* 47-242, legacy_lowering.py 98-139).                                     *)
THEOREM AllocationInvariant == RaSpec => []RaInv
<1>1. RaInit => RaInv
  BY RaInitInv
<1>2. RaInv /\ [RaNext]_raVars => RaInv'
  BY RaNextKeepsRaInv
<1> QED BY <1>1, <1>2, PTL DEF RaSpec

(* Where an item writes one register while the value of another may still  *)
(* be read, their intervals overlap: for every kernel whose branches       *)
(* backwards close loops, which reads no register before it is written,    *)
(* and whose loops read nothing that liveness counts for no definition     *)
(* (liveness.py 82-117, register_allocation.py 59-92, 193-242).            *)
THEOREM RangesCoverHolds == RaSpec => [](InView(Kept) => RangesCover)
<1>1. RaInv => (InView(Kept) => RangesCover)
  <2> SUFFICES ASSUME RaInv, InView(Kept), phase = "run", pc \in DOMAIN items,
                      order # <<>>, Stays(pc),
                      NEW q \in {LiveDest(items[pc])} \ {NoReg}, NEW r \in Reg,
                      r # q, LiveAfter(NewPos(pc), r, Kept)
               PROVE  Overlap(IntervalOf(q), IntervalOf(r))
    BY DEF RangesCover
  <2>1. /\ items \in Kernels /\ order = Order(Kept) /\ intervals = Intervals(Kept)
        /\ Pos(pc) \in Onward(Kept) /\ pc \in Staying
    BY DEF RaInv, DceInv, ScanInv, RunInv, Staying
  <2>2. q \in Reg /\ Pos(pc) = NewPos(pc)
    BY <2>1, KernelItems, KeptFacts
  <2> QED BY <2>1, <2>2, WriteOverlaps
<1> QED BY <1>1, AllocationInvariant, PTL

(* What an instruction reads from the places of a register is the value    *)
(* the kernel that came in would have it read, unless the scan fell back:  *)
(* without intervals for every kernel, with them for the kernels above     *)
(* (register_allocation.py 47-172, legacy_lowering.py 98-139, global_dce.py*)
(* 35-97).                                                                 *)
THEOREM ReadsReachHolds == RaSpec => []((order # <<>> => InView(Kept)) => ReadsReach)
<1>1. RaInv => ((order # <<>> => InView(Kept)) => ReadsReach)
  <2> SUFFICES ASSUME RaInv, View, phase = "run", pc \in DOMAIN items, Stays(pc),
                      ~ fellBack, NEW r \in RegsIn(items[pc].srcs), NEW p \in Placed(r)
               PROVE  holds[p] = madeBy[r]
    BY DEF ReadsReach, View
  <2>1. items \in Kernels /\ pc \in Staying
    BY DEF RaInv, DceInv, Staying
  <2>2. Pos(pc) \in DOMAIN Kept /\ Kept[Pos(pc)] = items[pc] /\ r \in Reg
    BY <2>1, KernelItems, KeptFacts
  <2>3. LiveBefore(Pos(pc), r, Kept)
    BY <2>2 DEF LiveBefore, Uses, LiveSources
  <2> QED BY <2>2, <2>3 DEF RaInv, RunInv, Current
<1> QED BY <1>1, AllocationInvariant, PTL

(* Lowering executes nothing that mentions a register without a place      *)
(* (legacy_lowering.py 98-139).                                            *)
THEOREM EveryRegisterPlaced == RaSpec => []AllPlaced
<1>1. RaInv => AllPlaced
  BY DEF RaInv
<1> QED BY <1>1, AllocationInvariant, PTL

(* Registers share a place only if the scan gave it to both, and their     *)
(* intervals do not overlap: lowering's own allocator never hands out what *)
(* is taken (register_allocation.py 91-147, legacy_lowering.py 98-139).    *)
THEOREM PlacesApart ==
    RaSpec => []((order # <<>> => InView(Kept)) =>
        (phase = "run" /\ ~ fellBack => \A q, r \in Reg :
            q # r /\ Placed(q) \cap Placed(r) # {} => Shared(q, r)))
<1>1. RaInv => ((order # <<>> => InView(Kept)) =>
        (phase = "run" /\ ~ fellBack => \A q, r \in Reg :
            q # r /\ Placed(q) \cap Placed(r) # {} => Shared(q, r)))
  BY DEF RaInv, PlaceInv, View
<1> QED BY <1>1, AllocationInvariant, PTL

=============================================================================
