------------------------------ MODULE CfgProofs ------------------------------
(***************************************************************************)
(* What the operators of Cfg return, for every kernel and every graph, and *)
(* what executing an item does to a state of Ptx: what the proofs about    *)
(* the passes over a kernel share.                                         *)
(*                                                                         *)
(* ReachableFrom is computed in as many steps as there are blocks.  That   *)
(* this is enough is a matter of counting: as long as a step brings in a   *)
(* block, there is one more of them than there were steps.  What is left   *)
(* to use is that it is the least set with the start in it that no edge    *)
(* leaves, except to the blocks that are to be avoided.                    *)
(***************************************************************************)
EXTENDS Cfg, FiniteSetTheorems, WellFoundedInduction, TLAPS

(* Where a set of blocks leads.                                            *)
Next1(S, succ, avoided) == (UNION {succ[c] : c \in S}) \ avoided
ClosedUnder(S, succ, avoided) == Next1(S, succ, avoided) \subseteq S

(* The rounds of ReachableFrom.                                            *)
Rounds(w, b, succ, avoided) ==
    LET N == Cardinality(DOMAIN succ)
    IN  /\ DOMAIN w = 0..N
        /\ w[0] = {b} \ avoided
        /\ \A n \in 1..N : w[n] = w[n - 1] \cup Next1(w[n - 1], succ, avoided)

(* A set of numbers that is not empty has a least one.                     *)
LEMMA LeastNumber ==
  ASSUME NEW S, S \subseteq Nat, S # {}
  PROVE  \E m \in S : \A k \in S : m <= k
<1>1. IsWellFoundedOn(OpToRel(<, Nat), Nat)
  BY NatLessThanWellFounded
<1>2. PICK m \in S : \A k \in S : ~ (<<k, m>> \in OpToRel(<, Nat))
  BY <1>1, WFMin
<1>3. \A k \in S : ~ (k < m)
  BY <1>2 DEF OpToRel
<1> QED BY <1>3

(* A bounded set of numbers that is not empty has a greatest one.          *)
LEMMA GreatestNumber ==
  ASSUME NEW S, S \subseteq Nat, S # {}, NEW n \in Nat, \A k \in S : k <= n
  PROVE  \E m \in S : \A k \in S : k <= m
<1> DEFINE T == {n - k : k \in S}
<1>1. T \subseteq Nat /\ T # {}
  <2>1. \A k \in S : k \in Nat /\ n - k \in Nat
    OBVIOUS
  <2> QED BY <2>1
<1>2. PICK m \in T : \A k \in T : m <= k
  <2> HIDE DEF T
  <2> QED BY <1>1, LeastNumber
<1>3. PICK j \in S : m = n - j
  BY <1>2
<1>4. \A k \in S : k <= j
  BY <1>2, <1>3
<1> QED BY <1>4

(* ReachableFrom is the last of its rounds: the recursive function that    *)
(* it is written with exists.                                              *)
LEMMA ReachableIsLastRound ==
  ASSUME NEW b, NEW succ, NEW avoided, IsFiniteSet(DOMAIN succ)
  PROVE  \E w : /\ Rounds(w, b, succ, avoided)
                /\ ReachableFrom(b, succ, avoided) = w[Cardinality(DOMAIN succ)]
<1> DEFINE N == Cardinality(DOMAIN succ)
           Body(g, m) == [n \in 0..m |->
               IF n = 0 THEN {b} \ avoided
               ELSE LET nearer == g[n - 1]
                    IN  nearer \cup ((UNION {succ[c] : c \in nearer}) \ avoided)]
           Missing == {m \in Nat : m <= N /\ ~ \E g : g = Body(g, m)}
<1>1. N \in Nat
  BY FS_CardinalityType
<1>2. Missing = {}
  <2> SUFFICES ASSUME Missing # {} PROVE FALSE
    OBVIOUS
  <2>1. PICK m \in Missing : \A k \in Missing : m <= k
    <3>1. Missing \subseteq Nat
      OBVIOUS
    <3> HIDE DEF Missing
    <3> QED BY <3>1, LeastNumber
  <2>2. m \in Nat /\ m <= N /\ ~ \E g : g = Body(g, m)
    OBVIOUS
  <2>3. m # 0
    <3> DEFINE h == [n \in 0..0 |-> {b} \ avoided]
    <3>1. h = Body(h, 0)
      OBVIOUS
    <3> HIDE DEF h, Body
    <3> QED BY <3>1, <2>2
  <2>4. PICK g : g = Body(g, m - 1)
    <3>1. m - 1 \in Nat /\ m - 1 <= N /\ m - 1 < m
      BY <2>2, <2>3, <1>1
    <3>2. m - 1 \notin Missing
      <4> HIDE DEF Missing
      <4> QED BY <3>1, <2>1, <2>2
    <3> HIDE DEF Body
    <3> QED BY <3>1, <3>2
  <2> DEFINE h == [n \in 0..m |-> IF n < m THEN g[n]
                     ELSE g[m - 1] \cup ((UNION {succ[c] : c \in g[m - 1]}) \ avoided)]
  <2>5. \A n \in 0..m : h[n] = Body(h, m)[n]
    <3> SUFFICES ASSUME NEW n \in 0..m PROVE h[n] = Body(h, m)[n]
      OBVIOUS
    <3>1. CASE n = 0
      <4>1. 0 \in 0..(m - 1) /\ 0 < m
        BY <2>2, <2>3
      <4>2. g[0] = {b} \ avoided
        BY <4>1, <2>4
      <4> QED BY <3>1, <4>1, <4>2
    <3>2. CASE n # 0 /\ n < m
      <4>1. n \in 0..(m - 1) /\ n - 1 \in 0..m /\ n - 1 < m
        BY <3>2, <2>2
      <4>2. g[n] = g[n - 1] \cup ((UNION {succ[c] : c \in g[n - 1]}) \ avoided)
        BY <4>1, <3>2, <2>4
      <4>3. h[n] = g[n] /\ h[n - 1] = g[n - 1]
        BY <4>1, <3>2
      <4> QED BY <3>2, <4>2, <4>3
    <3>3. CASE n # 0 /\ n = m
      <4>1. m - 1 \in 0..m /\ m - 1 < m
        BY <2>2, <2>3
      <4>2. h[m - 1] = g[m - 1]
        BY <4>1
      <4>3. h[m] = g[m - 1] \cup ((UNION {succ[c] : c \in g[m - 1]}) \ avoided)
        BY <2>2
      <4>4. Body(h, m)[m] = h[m - 1] \cup ((UNION {succ[c] : c \in h[m - 1]}) \ avoided)
        <5> HIDE DEF h
        <5> QED BY <2>2, <2>3
      <4> HIDE DEF h, Body
      <4> QED BY <3>3, <4>2, <4>3, <4>4
    <3> QED BY <3>1, <3>2, <3>3, <2>2
  <2>6. h = Body(h, m)
    <3>1. h = [n \in 0..m |-> h[n]]
      OBVIOUS
    <3>2. Body(h, m) = [n \in 0..m |-> Body(h, m)[n]]
      OBVIOUS
    <3> HIDE DEF h, Body
    <3> QED BY <3>1, <3>2, <2>5
  <2> HIDE DEF h, Body
  <2> QED BY <2>6, <2>2
<1>3. \E g : g = Body(g, N)
  <2> HIDE DEF Body
  <2>1. N \notin Missing
    BY <1>2
  <2> QED BY <2>1, <1>1
<1> DEFINE w == CHOOSE g : g = Body(g, N)
<1>4. w = Body(w, N)
  BY <1>3
<1>5. Rounds(w, b, succ, avoided)
  <2> HIDE DEF w
  <2>1. DOMAIN w = 0..N /\ w[0] = {b} \ avoided
    BY <1>4, <1>1
  <2>2. \A n \in 1..N : w[n] = w[n - 1] \cup Next1(w[n - 1], succ, avoided)
    <3> TAKE n \in 1..N
    <3>1. n \in 0..N /\ n # 0
      BY <1>1
    <3> QED BY <3>1, <1>4 DEF Next1
  <2> QED BY <2>1, <2>2 DEF Rounds
<1>6. ReachableFrom(b, succ, avoided) = w[N]
  BY DEF ReachableFrom
<1> QED BY <1>5, <1>6

(* It is contained in every set that has the start, if the start is not    *)
(* avoided, and that no edge leaves.                                       *)
LEMMA ReachableIsLeast ==
  ASSUME NEW b, NEW succ, NEW avoided, IsFiniteSet(DOMAIN succ),
         NEW C, {b} \ avoided \subseteq C, ClosedUnder(C, succ, avoided)
  PROVE  ReachableFrom(b, succ, avoided) \subseteq C
<1> DEFINE N == Cardinality(DOMAIN succ)
<1>1. N \in Nat
  BY FS_CardinalityType
<1>2. PICK w : /\ Rounds(w, b, succ, avoided)
               /\ ReachableFrom(b, succ, avoided) = w[N]
  BY ReachableIsLastRound
<1>3. /\ w[0] = {b} \ avoided
      /\ \A n \in 1..N : w[n] = w[n - 1] \cup Next1(w[n - 1], succ, avoided)
  BY <1>2 DEF Rounds
<1> HIDE DEF N
<1> DEFINE Outside == {n \in 0..N : ~ (w[n] \subseteq C)}
<1>4. Outside = {}
  <2> SUFFICES ASSUME Outside # {} PROVE FALSE
    OBVIOUS
  <2>1. PICK m \in Outside : \A k \in Outside : m <= k
    <3>1. Outside \subseteq Nat
      BY <1>1
    <3> HIDE DEF Outside
    <3> QED BY <3>1, LeastNumber
  <2>2. m \in 0..N /\ ~ (w[m] \subseteq C) /\ m # 0
    BY <1>3
  <2>3. m \in 1..N /\ m - 1 \in 0..N /\ m - 1 < m
    BY <2>2, <1>1
  <2>4. w[m - 1] \subseteq C
    BY <2>1, <2>3
  <2>5. Next1(w[m - 1], succ, avoided) \subseteq C
    BY <2>4 DEF ClosedUnder, Next1
  <2> QED BY <1>3, <2>2, <2>3, <2>4, <2>5
<1> QED BY <1>1, <1>2, <1>4

(* In a graph it is a set of its blocks, without those to be avoided; the  *)
(* start is in it; and what an edge leads to from it is in it or avoided.  *)
LEMMA ReachableIsClosed ==
  ASSUME NEW Nodes, IsFiniteSet(Nodes), NEW succ \in [Nodes -> SUBSET Nodes],
         NEW b \in Nodes, NEW avoided
  PROVE  LET S == ReachableFrom(b, succ, avoided)
         IN  /\ S \subseteq Nodes \ avoided
             /\ b \notin avoided => b \in S
             /\ ClosedUnder(S, succ, avoided)
<1> DEFINE N == Cardinality(Nodes)
<1>1. N \in Nat /\ DOMAIN succ = Nodes
  BY FS_CardinalityType
<1>2. PICK w : /\ Rounds(w, b, succ, avoided)
               /\ ReachableFrom(b, succ, avoided) = w[N]
  BY <1>1, ReachableIsLastRound
<1>3. /\ w[0] = {b} \ avoided
      /\ \A n \in 1..N : w[n] = w[n - 1] \cup Next1(w[n - 1], succ, avoided)
  BY <1>1, <1>2 DEF Rounds
<1> HIDE DEF N
<1> DEFINE Short == {n \in 0..N :
               ~ /\ w[n] \subseteq Nodes \ avoided
                 /\ {b} \ avoided \subseteq w[n]
                 /\ ClosedUnder(w[n], succ, avoided) \/ Cardinality(w[n]) > n}
<1>4. \A S : S \subseteq Nodes => IsFiniteSet(S)
  BY FS_Subset
<1>5. Short = {}
  <2> SUFFICES ASSUME Short # {} PROVE FALSE
    OBVIOUS
  <2>1. PICK m \in Short : \A k \in Short : m <= k
    <3>1. Short \subseteq Nat
      BY <1>1
    <3> HIDE DEF Short
    <3> QED BY <3>1, LeastNumber
  <2>2. m \in 0..N
    OBVIOUS
  <2>3. CASE m = 0
    <3>1. CASE b \in avoided
      <4>1. w[0] = {}
        BY <3>1, <1>3
      <4>2. ClosedUnder(w[0], succ, avoided)
        BY <4>1 DEF ClosedUnder, Next1
      <4> QED BY <4>1, <4>2, <2>3, <3>1
    <3>2. CASE b \notin avoided
      <4>1. w[0] = {b}
        BY <3>2, <1>3
      <4>2. Cardinality(w[0]) = 1
        BY <4>1, FS_Singleton
      <4>3. /\ w[m] \subseteq Nodes \ avoided /\ {b} \ avoided \subseteq w[m]
            /\ Cardinality(w[m]) > m
        <5> HIDE DEF Short
        <5>1. w[m] = {b} /\ Cardinality(w[m]) = 1
          BY <4>1, <4>2, <2>3
        <5>2. w[m] \subseteq Nodes \ avoided /\ {b} \ avoided \subseteq w[m]
          BY <5>1, <3>2
        <5> QED BY <5>1, <5>2, <2>3
      <4> QED BY <4>3
    <3> QED BY <3>1, <3>2
  <2>4. CASE m # 0
    <3>1. m \in 1..N /\ m - 1 \in 0..N /\ m - 1 < m
      BY <2>2, <2>4, <1>1
    <3>2. m - 1 \notin Short
      <4> HIDE DEF Short
      <4> QED BY <2>1, <2>2, <3>1
    <3>3. /\ w[m - 1] \subseteq Nodes \ avoided
          /\ {b} \ avoided \subseteq w[m - 1]
          /\ ClosedUnder(w[m - 1], succ, avoided) \/ Cardinality(w[m - 1]) > m - 1
      BY <3>1, <3>2
    <3>4. w[m] = w[m - 1] \cup Next1(w[m - 1], succ, avoided)
      BY <3>1, <1>3
    <3>5. Next1(w[m - 1], succ, avoided) \subseteq Nodes \ avoided
      <4>1. \A c \in w[m - 1] : succ[c] \subseteq Nodes
        BY <3>3
      <4> QED BY <4>1 DEF Next1
    <3>6. w[m] \subseteq Nodes \ avoided /\ {b} \ avoided \subseteq w[m]
      BY <3>3, <3>4, <3>5
    <3>7. CASE ClosedUnder(w[m - 1], succ, avoided)
      <4>1. w[m] = w[m - 1]
        BY <3>4, <3>7 DEF ClosedUnder
      <4> QED BY <4>1, <3>6, <3>7
    <3>8. CASE ~ ClosedUnder(w[m - 1], succ, avoided)
      <4>1. w[m - 1] \in SUBSET w[m] /\ w[m - 1] # w[m]
        BY <3>4, <3>8 DEF ClosedUnder
      <4>2. IsFiniteSet(w[m]) /\ IsFiniteSet(w[m - 1])
        BY <3>3, <3>6, <1>4
      <4>3. Cardinality(w[m - 1]) <= Cardinality(w[m])
            /\ Cardinality(w[m - 1]) # Cardinality(w[m])
        BY <4>1, <4>2, FS_Subset
      <4>4. Cardinality(w[m]) \in Nat /\ Cardinality(w[m - 1]) \in Nat
        BY <4>2, FS_CardinalityType
      <4>5. Cardinality(w[m]) > m
        BY <4>3, <4>4, <3>3, <3>8, <2>2
      <4> QED BY <4>5, <3>6
    <3> QED BY <3>7, <3>8
  <2> QED BY <2>3, <2>4
<1>6. /\ w[N] \subseteq Nodes \ avoided
      /\ {b} \ avoided \subseteq w[N]
      /\ ClosedUnder(w[N], succ, avoided) \/ Cardinality(w[N]) > N
  BY <1>1, <1>5
<1>7. Cardinality(w[N]) \in Nat /\ Cardinality(w[N]) <= N
  <2>1. w[N] \in SUBSET Nodes
    BY <1>6
  <2> QED BY <2>1, <1>4, FS_Subset, FS_CardinalityType DEF N
<1> QED BY <1>1, <1>2, <1>6, <1>7

-----------------------------------------------------------------------------
(* Blocks.                                                                 *)

(* The leaders are positions of the kernel, and its first is one.          *)
LEMMA LeaderFacts ==
  ASSUME NEW its \in Seq(Item), its # <<>>
  PROVE  /\ Len(its) \in Nat \ {0} /\ DOMAIN its = 1..Len(its)
         /\ 1 \in Leaders(its) /\ Leaders(its) \subseteq 1..Len(its)
         /\ IsFiniteSet(Leaders(its))
<1>1. Len(its) \in Nat \ {0} /\ DOMAIN its = 1..Len(its)
  OBVIOUS
<1>2. 1 \in Leaders(its) /\ Leaders(its) \subseteq 1..Len(its)
  BY <1>1 DEF Leaders, Positions
<1>3. IsFiniteSet(1..Len(its))
  BY <1>1, FS_Interval
<1> QED BY <1>1, <1>2, <1>3, FS_Subset

(* Every block has an end: no other block starts before it, and it is the  *)
(* last item or one starts after it.                                       *)
LEMMA EndFacts ==
  ASSUME NEW its \in Seq(Item), its # <<>>, NEW b \in Leaders(its)
  PROVE  LET e == EndOf(b, its)
         IN  /\ e \in b..Len(its)
             /\ \A k \in (b + 1)..e : k \notin Leaders(its)
             /\ e = Len(its) \/ e + 1 \in Leaders(its)
<1> DEFINE n == Len(its)
           Ends == {e \in b..n : e = n \/ e + 1 \in Leaders(its)}
<1>1. n \in Nat \ {0} /\ b \in 1..n
  BY LeaderFacts
<1> HIDE DEF n
<1>2. Ends \subseteq Nat /\ n \in Ends
  BY <1>1
<1>3. PICK e \in Ends : \A k \in Ends : e <= k
  <2> HIDE DEF Ends
  <2> QED BY <1>2, LeastNumber
<1>4. \A k \in (b + 1)..e : k \notin Leaders(its)
  <2> SUFFICES ASSUME NEW k \in (b + 1)..e, k \in Leaders(its) PROVE FALSE
    OBVIOUS
  <2>1. k - 1 \in b..n /\ (k - 1) + 1 = k /\ k - 1 < e
    BY <1>1
  <2>2. k - 1 \in Ends
    BY <2>1
  <2> QED BY <2>1, <2>2, <1>1, <1>3
<1>5. \E x \in b..n : /\ \A k \in (b + 1)..x : k \notin Leaders(its)
                      /\ x = n \/ x + 1 \in Leaders(its)
  BY <1>4
<1> QED BY <1>5 DEF EndOf, n

(* Every item is in a block.                                               *)
LEMMA BlocksCover ==
  ASSUME NEW its \in Seq(Item), its # <<>>, NEW k \in DOMAIN its
  PROVE  \E b \in Leaders(its) : k \in b..EndOf(b, its)
<1> DEFINE Before == {b \in Leaders(its) : b <= k}
<1>1. /\ Len(its) \in Nat /\ k \in 1..Len(its)
      /\ 1 \in Leaders(its) /\ Leaders(its) \subseteq 1..Len(its)
  BY LeaderFacts
<1>2. PICK b \in Before : \A c \in Before : c <= b
  <2>1. /\ k \in Nat /\ Before \subseteq Nat /\ Before # {}
        /\ \A c \in Before : c <= k
    BY <1>1
  <2> HIDE DEF Before
  <2> QED BY <2>1, GreatestNumber
<1>3. /\ EndOf(b, its) \in b..Len(its)
      /\ EndOf(b, its) = Len(its) \/ EndOf(b, its) + 1 \in Leaders(its)
  BY EndFacts
<1>4. EndOf(b, its) >= k
  BY <1>1, <1>2, <1>3
<1> QED BY <1>1, <1>3, <1>4

(* The block of an item.                                                   *)
LEMMA BlockOfFacts ==
  ASSUME NEW its \in Seq(Item), its # <<>>, NEW k \in DOMAIN its
  PROVE  /\ BlockOf(k, its) \in Leaders(its)
         /\ k \in BlockOf(k, its)..EndOf(BlockOf(k, its), its)
         /\ k \in Leaders(its) => BlockOf(k, its) = k
         /\ k + 1 \in DOMAIN its /\ k + 1 \notin Leaders(its) =>
               /\ BlockOf(k + 1, its) = BlockOf(k, its)
               /\ k # EndOf(BlockOf(k, its), its)
<1>1. /\ Len(its) \in Nat /\ DOMAIN its = 1..Len(its) /\ k \in 1..Len(its)
      /\ 1 \in Leaders(its) /\ Leaders(its) \subseteq 1..Len(its)
  BY LeaderFacts
<1> DEFINE IsBlock(b, n) == /\ b \in Leaders(its) /\ b <= n
                            /\ \A c \in Leaders(its) : c <= n => c <= b
<1>2. ASSUME NEW n \in 1..Len(its)
      PROVE  IsBlock(BlockOf(n, its), n)
  <2> DEFINE Before == {b \in Leaders(its) : b <= n}
  <2>1. /\ n \in Nat /\ Before \subseteq Nat /\ Before # {}
        /\ \A c \in Before : c <= n
    BY <1>1
  <2>2. PICK b \in Before : \A c \in Before : c <= b
    <3> HIDE DEF Before
    <3> QED BY <2>1, GreatestNumber
  <2>3. \E x \in Leaders(its) : x <= n /\ \A c \in Leaders(its) : c <= n => c <= x
    BY <2>2
  <2> QED BY <2>3 DEF BlockOf
<1>3. \A n \in 1..Len(its) : \A b, c : IsBlock(b, n) /\ IsBlock(c, n) => b = c
  BY <1>1
<1> DEFINE b == BlockOf(k, its)
<1>4. IsBlock(b, k)
  BY <1>1, <1>2
<1>5. /\ EndOf(b, its) \in b..Len(its)
      /\ EndOf(b, its) = Len(its) \/ EndOf(b, its) + 1 \in Leaders(its)
      /\ \A n \in (b + 1)..EndOf(b, its) : n \notin Leaders(its)
  BY <1>4, EndFacts
<1>6. k \in b..EndOf(b, its)
  <2>1. EndOf(b, its) >= k
    BY <1>1, <1>4, <1>5
  <2> QED BY <2>1, <1>1, <1>4, <1>5
<1>7. k \in Leaders(its) => b = k
  BY <1>1, <1>4
<1>8. ASSUME k + 1 \in DOMAIN its, k + 1 \notin Leaders(its)
      PROVE  BlockOf(k + 1, its) = b /\ k # EndOf(b, its)
  <2>1. k + 1 \in 1..Len(its) /\ k # EndOf(b, its)
    BY <1>1, <1>5, <1>8
  <2>2. IsBlock(b, k + 1)
    <3>1. \A c \in Leaders(its) : c <= k + 1 => c <= k
      BY <1>1, <1>8
    <3> QED BY <3>1, <1>1, <1>4
  <2> HIDE DEF IsBlock, b
  <2>3. IsBlock(BlockOf(k + 1, its), k + 1)
    BY <2>1, <1>2
  <2> QED BY <2>1, <2>2, <2>3, <1>3
<1> QED BY <1>4, <1>6, <1>7, <1>8

(* Where a label stands, when it stands in one place.                      *)
LEMMA LabelFacts ==
  ASSUME NEW its \in Seq(Item), ~ Malformed(its),
         NEW k \in DOMAIN its, its[k].op = "bra"
  PROVE  /\ LabelAt(its[k].lbl, its) \in Positions(its, {"label"})
         /\ its[LabelAt(its[k].lbl, its)].lbl = its[k].lbl
         /\ \A n \in Positions(its, {"label"}) :
                its[n].lbl = its[k].lbl => n = LabelAt(its[k].lbl, its)
<1>1. \E n \in Positions(its, {"label"}) : its[n].lbl = its[k].lbl
  BY DEF Malformed, UndefinedTarget, Positions
<1>2. /\ LabelAt(its[k].lbl, its) \in Positions(its, {"label"})
      /\ its[LabelAt(its[k].lbl, its)].lbl = its[k].lbl
  BY <1>1 DEF LabelAt
<1> QED BY <1>2 DEF Malformed, DuplicateLabel

(* The edges lead from blocks to blocks, and predecessors are their        *)
(* converse.                                                               *)
LEMMA GraphFacts ==
  ASSUME NEW its \in Seq(Item), its # <<>>, ~ Malformed(its)
  PROVE  LET g == Graph(its)
         IN  /\ g.succ = [b \in Leaders(its) |-> Successors(b, its)]
             /\ g.succ \in [Leaders(its) -> SUBSET Leaders(its)]
             /\ g.pred \in [Leaders(its) -> SUBSET Leaders(its)]
             /\ \A b, p \in Leaders(its) : p \in g.pred[b] <=> b \in g.succ[p]
<1>1. \A b \in Leaders(its) : Successors(b, its) \subseteq Leaders(its)
  <2> SUFFICES ASSUME NEW b \in Leaders(its)
               PROVE  Successors(b, its) \subseteq Leaders(its)
    OBVIOUS
  <2> DEFINE e == EndOf(b, its)
  <2>1. /\ Len(its) \in Nat /\ Leaders(its) \subseteq 1..Len(its)
        /\ DOMAIN its = 1..Len(its)
    BY LeaderFacts
  <2>2. e \in b..Len(its) /\ (e = Len(its) \/ e + 1 \in Leaders(its))
    BY EndFacts
  <2>3. e \in DOMAIN its
    BY <2>1, <2>2
  <2>4. its[e].op = "bra" => LabelAt(its[e].lbl, its) \in Leaders(its)
    BY <2>3, LabelFacts DEF Leaders
  <2>5. e < Len(its) => e + 1 \in Leaders(its)
    BY <2>1, <2>2
  <2> QED BY <2>4, <2>5 DEF Successors
<1>2. /\ Graph(its).succ = [b \in Leaders(its) |-> Successors(b, its)]
      /\ Graph(its).pred = [b \in Leaders(its) |->
             {p \in Leaders(its) : b \in Graph(its).succ[p]}]
  BY DEF Graph
<1> QED BY <1>1, <1>2

(* An item inside a block is followed by the next, the last of a block by  *)
(* the first items of its successors, and by nothing else but the end.     *)
LEMMA FollowsFacts ==
  ASSUME NEW its \in Seq(Item), its # <<>>, ~ Malformed(its),
         NEW b \in Leaders(its), NEW k \in b..EndOf(b, its)
  PROVE  Follows(k, its) \ {Len(its) + 1} =
             IF k = EndOf(b, its) THEN Successors(b, its) ELSE {k + 1}
<1> DEFINE e == EndOf(b, its)
<1>1. /\ Len(its) \in Nat /\ b \in 1..Len(its) /\ DOMAIN its = 1..Len(its)
  BY LeaderFacts
<1>2. /\ e \in b..Len(its)
      /\ \A j \in (b + 1)..e : j \notin Leaders(its)
      /\ e = Len(its) \/ e + 1 \in Leaders(its)
  BY EndFacts
<1>3. k \in DOMAIN its /\ k <= Len(its)
  BY <1>1, <1>2
<1>4. CASE k # e
  <2>1. k + 1 \in (b + 1)..e /\ k + 1 \in 2..Len(its)
    BY <1>1, <1>2, <1>4
  <2>2. k + 1 \notin Leaders(its)
    BY <2>1, <1>2
  <2>3. its[k].op \notin {"bra", "ret"}
    <3>1. (k + 1) - 1 = k
      BY <1>1
    <3> QED BY <2>1, <2>2, <3>1 DEF Leaders
  <2>4. Follows(k, its) = {k + 1}
    BY <2>3 DEF Follows
  <2>5. k + 1 # Len(its) + 1
    BY <2>1, <1>1
  <2> QED BY <2>4, <2>5, <1>4
<1>5. CASE k = e
  <2> DEFINE Targets == {n \in DOMAIN its : its[k].op = "bra" /\ its[n].op = "label"
                                             /\ its[n].lbl = its[k].lbl}
             Ahead == IF its[k].op = "ret" THEN {Len(its) + 1}
                      ELSE IF its[k].op = "bra" /\ ~ its[k].guard THEN {} ELSE {k + 1}
  <2>1. Follows(k, its) = Targets \cup Ahead
    BY DEF Follows
  <2>2. Targets = IF its[k].op = "bra" THEN {LabelAt(its[k].lbl, its)} ELSE {}
    <3>1. CASE its[k].op = "bra"
      BY <3>1, <1>3, LabelFacts DEF Positions
    <3>2. CASE its[k].op # "bra"
      BY <3>2
    <3> QED BY <3>1, <3>2
  <2>3. Len(its) + 1 \notin Targets
    BY <1>1
  <2>4. Ahead \ {Len(its) + 1} =
          IF k < Len(its) /\ FallsThrough(its[k]) THEN {k + 1} ELSE {}
    <3>1. k + 1 = Len(its) + 1 <=> ~ (k < Len(its))
      BY <1>1, <1>3
    <3> QED BY <3>1 DEF FallsThrough
  <2>5. Successors(b, its) = Targets \cup (Ahead \ {Len(its) + 1})
    BY <2>2, <2>4, <1>5 DEF Successors
  <2> HIDE DEF Targets, Ahead
  <2> QED BY <2>1, <2>3, <2>5, <1>5
<1> QED BY <1>4, <1>5

-----------------------------------------------------------------------------
(* Executing an item (Ptx).                                                *)

Shape(s) == /\ s = [reg |-> s.reg, mem |-> s.mem, seen |-> s.seen]
            /\ DOMAIN s.reg = Reg

(* What c knows is so.                                                     *)
HoldsIn(c, s) == \A r \in Reg : c[r] # <<>> => s.reg[r] = c[r][2]

(* The register an item writes, fma included, and what it leaves in each   *)
(* field of a state.                                                       *)
Writes(i) == IF i.op \in PureOp \cup {"ld", "fma"} THEN i.dst ELSE NoReg
NewReg(i, s) ==
    IF i.op \in PureOp \cup {"ld", "fma"}
    THEN [s.reg EXCEPT ![i.dst] = IF i.op = "ld" THEN s.mem[Vals(i.srcs, s)[1]]
                                  ELSE Result(i.op, i.ty, Vals(i.srcs, s))]
    ELSE s.reg
NewMem(i, s) ==
    IF i.op = "st" THEN [s.mem EXCEPT ![Vals(i.srcs, s)[1]] = Vals(i.srcs, s)[2]]
    ELSE s.mem
NewSeen(i, s) ==
    IF i.op \in {"st", "setp"} THEN Append(s.seen, Vals(i.srcs, s)) ELSE s.seen

(* Updates of a state, field by field.                                     *)
LEMMA UpdateReg ==
  ASSUME NEW s, Shape(s), NEW d, NEW x
  PROVE  [s EXCEPT !.reg[d] = x]
           = [reg |-> [s.reg EXCEPT ![d] = x], mem |-> s.mem, seen |-> s.seen]
<1>1. [s EXCEPT !.reg[d] = x] = [s EXCEPT !.reg = [s.reg EXCEPT ![d] = x]]
  OBVIOUS
<1>2. \A y : [s EXCEPT !.reg = y] = [reg |-> y, mem |-> s.mem, seen |-> s.seen]
  BY DEF Shape
<1> QED BY ONLY <1>1, <1>2

(* What the outside sees is a field of its own.                            *)
LEMMA UpdateSeen ==
  ASSUME NEW s, NEW r, NEW m, NEW z, s = [reg |-> r, mem |-> m, seen |-> z], NEW x
  PROVE  [s EXCEPT !.seen = x] = [reg |-> r, mem |-> m, seen |-> x]
OBVIOUS

(* A store changes one word and shows.                                     *)
LEMMA UpdateStore ==
  ASSUME NEW s, Shape(s), NEW a, NEW x, NEW v
  PROVE  [s EXCEPT !.mem[a] = x, !.seen = Append(@, v)]
           = [reg |-> s.reg, mem |-> [s.mem EXCEPT ![a] = x], seen |-> Append(s.seen, v)]
<1> DEFINE t == [s EXCEPT !.mem[a] = x]
<1>1. t = [reg |-> s.reg, mem |-> [s.mem EXCEPT ![a] = x], seen |-> s.seen]
  <2>1. t = [s EXCEPT !.mem = [s.mem EXCEPT ![a] = x]]
    OBVIOUS
  <2>2. \A y : [s EXCEPT !.mem = y] = [reg |-> s.reg, mem |-> y, seen |-> s.seen]
    BY DEF Shape
  <2> QED BY ONLY <2>1, <2>2
<1>2. [s EXCEPT !.mem[a] = x, !.seen = Append(@, v)] = [t EXCEPT !.seen = Append(s.seen, v)]
  OBVIOUS
<1>3. \A y : [t EXCEPT !.seen = y]
                = [reg |-> s.reg, mem |-> [s.mem EXCEPT ![a] = x], seen |-> y]
  <2> HIDE DEF t
  <2> QED BY <1>1, UpdateSeen
<1> HIDE DEF t
<1> QED BY ONLY <1>2, <1>3

(* Exec, field by field.                                                   *)
LEMMA ExecFields ==
  ASSUME NEW i, i.op \in Op, NEW s, Shape(s)
  PROVE  Exec(i, s) = [reg |-> NewReg(i, s), mem |-> NewMem(i, s), seen |-> NewSeen(i, s)]
<1> DEFINE v == Vals(i.srcs, s)
           t == Exec(i, s)
<1>0. s = [reg |-> s.reg, mem |-> s.mem, seen |-> s.seen]
  BY DEF Shape
<1>1. CASE i.op \in {"label", "bra", "ret"}
  <2>1. t = s
    BY <1>1 DEF Exec
  <2> QED BY <2>1, <1>0, <1>1 DEF NewReg, NewMem, NewSeen, PureOp
<1>2. CASE i.op = "setp"
  <2>1. t = [s EXCEPT !.seen = Append(@, v)]
    BY <1>2 DEF Exec
  <2>2. \A x : [s EXCEPT !.seen = x] = [reg |-> s.reg, mem |-> s.mem, seen |-> x]
    BY <1>0, UpdateSeen
  <2>3. t = [reg |-> s.reg, mem |-> s.mem, seen |-> Append(s.seen, v)]
    <3> HIDE DEF v, t
    <3> QED BY <2>1, <2>2
  <2> QED BY <2>3, <1>2 DEF NewReg, NewMem, NewSeen, PureOp
<1>3. CASE i.op = "st"
  <2>1. t = [s EXCEPT !.mem[v[1]] = v[2], !.seen = Append(@, v)]
    BY <1>3 DEF Exec
  <2>2. \A a, x, y : [s EXCEPT !.mem[a] = x, !.seen = Append(@, y)]
           = [reg |-> s.reg, mem |-> [s.mem EXCEPT ![a] = x], seen |-> Append(s.seen, y)]
    BY UpdateStore
  <2>3. t = [reg |-> s.reg, mem |-> [s.mem EXCEPT ![v[1]] = v[2]], seen |-> Append(s.seen, v)]
    <3> HIDE DEF v, t
    <3> QED BY <2>1, <2>2
  <2> QED BY <2>3, <1>3 DEF NewReg, NewMem, NewSeen, PureOp
<1>4. CASE i.op \in PureOp \cup {"ld", "fma"}
  <2> DEFINE x == IF i.op = "ld" THEN s.mem[v[1]] ELSE Result(i.op, i.ty, v)
  <2>1. t = [s EXCEPT !.reg[i.dst] = x]
    BY <1>4 DEF Exec, PureOp
  <2>2. t = [reg |-> [s.reg EXCEPT ![i.dst] = x], mem |-> s.mem, seen |-> s.seen]
    <3> HIDE DEF x, t
    <3> QED BY <2>1, UpdateReg
  <2>3. NewReg(i, s) = [s.reg EXCEPT ![i.dst] = x]
    BY <1>4 DEF NewReg
  <2>4. NewMem(i, s) = s.mem /\ NewSeen(i, s) = s.seen
    BY <1>4 DEF NewMem, NewSeen, PureOp
  <2> HIDE DEF x, t
  <2> QED BY <2>2, <2>3, <2>4 DEF t
<1> QED BY <1>1, <1>2, <1>3, <1>4 DEF Op

(* A known operand has the value the lane reads.                           *)
LEMMA KnownSound ==
  ASSUME NEW c, NEW s, HoldsIn(c, s), NEW o \in Operand, NEW ty, Known(o, ty, c) # {}
  PROVE  Known(o, ty, c) = {Val(o, s)}
<1>1. CASE o[1] = "reg"
  <2>1. o[2] \in Reg
    BY <1>1 DEF Operand
  <2>2. c[o[2]] # <<>> /\ Known(o, ty, c) = {c[o[2]][2]}
    BY <1>1 DEF Known
  <2>3. Val(o, s) = c[o[2]][2]
    BY <1>1, <2>1, <2>2 DEF HoldsIn, Val
  <2> QED BY <2>2, <2>3
<1>2. CASE o[1] # "reg"
  <2>1. o[1] \in {"int", "float"}
    BY <1>2 DEF Operand
  <2> QED BY <2>1 DEF Known, Val
<1> QED BY <1>1, <1>2

=============================================================================
