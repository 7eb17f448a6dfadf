---------------------------- MODULE GlobalCpProofs ----------------------------
(***************************************************************************)
(* Proofs about GlobalCp, for every kernel in which the pass sees all that *)
(* happens, and for any bound on the number of rounds.                     *)
(*                                                                         *)
(* The argument.  The iteration starts from knowing nothing, and a visit   *)
(* only ever adds to what is known: at any moment, converged or not, what  *)
(* is recorded for the end of a block follows from what is recorded for    *)
(* the ends of its predecessors (Founded).  That is all that soundness     *)
(* needs.  A lane in which the facts at an item hold makes, with the item, *)
(* the facts at the next one hold (ItemKeepsFacts, ArrivalKeepsFacts); and *)
(* an item rewritten with facts that hold does what it did (SameEffect).   *)
(*                                                                         *)
(* How many rounds are enough (RoundsInv): since nothing is ever forgotten,*)
(* every round that changes anything learns a fact for some register at    *)
(* the end of some block, and there are only so many to learn.             *)
(***************************************************************************)
EXTENDS GlobalCp, CfgProofs

(* The pass sees every write, and nothing leads back to the first item: no *)
(* definition is guarded or made by fma.                                   *)
InView(its) ==
    /\ \A k \in DOMAIN its : /\ its[k].op # "fma"
                             /\ its[k].guard => Dest(its[k]) = NoReg
    /\ \A k \in DOMAIN its : 1 \notin Follows(k, its)

Accepted(its) ==
    /\ its \in Seq(Item) /\ its # <<>> /\ ~ Malformed(its)
    /\ \A k \in DOMAIN its :
          its[k].op \in PureOp \cup {"ld", "fma"} => its[k].dst \in Reg

(* What the pass knows of every register, if only nothing: <<>>.           *)
OfRegisters(c) == c = [r \in Reg |-> c[r]]

(* What c knows, d knows too.                                              *)
Below(c, d) == \A r \in Reg : c[r] # <<>> => d[r] = c[r]

(* The facts along a block, from what is known at its start: before item k *)
(* they stand at k - 1.                                                    *)
Chain(its, b, entry) ==
    CHOOSE A : A = [k \in (b - 1)..EndOf(b, its) |->
                       IF k = b - 1 THEN entry ELSE Transfer(A[k - 1], its[k])]

(* EntryConstants, for any kernel and any facts at the ends.               *)
EntryOf(its, ends, b) ==
    [r \in Reg |->
        LET agreed == {ends[p][r] : p \in Graph(its).pred[b]}
        IN  IF Cardinality(agreed) = 1 THEN CHOOSE c \in agreed : TRUE ELSE <<>>]
ExitOf(its, ends, b) == Chain(its, b, EntryOf(its, ends, b))[EndOf(b, its)]

(* What the pass knows before item k.                                      *)
FactsAt(its, ends, k) ==
    Chain(its, BlockOf(k, its), EntryOf(its, ends, BlockOf(k, its)))[k - 1]

Outcome(its, ends, k) ==
    IF Foldable(its[k]) THEN Rewritten(its[k], FactsAt(its, ends, k)) ELSE its[k]

-----------------------------------------------------------------------------
(* The inductive invariant.                                                *)

Founded == \A b \in Blocks : Below(constsOut[b], ExitOf(items, constsOut, b))

FlowInv ==
    /\ DOMAIN constsOut = Blocks
    /\ \A b \in Blocks : OfRegisters(constsOut[b])
    /\ Founded
    /\ at \in Blocks \cup {Past}

ApplyInv ==
    /\ idx \in 1..Past
    /\ \E S : kept \in Seq(S)
    /\ Len(kept) = idx - 1
    /\ \A k \in 1..(idx - 1) : kept[k] = Outcome(items, constsOut, k)
    /\ idx # Past /\ idx \notin Blocks => local = FactsAt(items, constsOut, idx)

RunInv ==
    /\ Shape(src)
    /\ out = src
    /\ pc \in 1..Past
    /\ pc # Past => HoldsIn(FactsAt(items, constsOut, pc), src)

IInv ==
    /\ items \in Inputs
    /\ phase \in {"flow", "apply", "run", "halted"}
    /\ FlowInv
    /\ phase = "flow" => idx = 1 /\ kept = <<>>
    /\ ApplyInv
    /\ phase \in {"flow", "apply"} => pc = 1
    /\ phase \in {"run", "halted"} => idx = Past
    /\ RunInv

-----------------------------------------------------------------------------
(* Facts along a block.                                                    *)

(* Every kernel that comes in is one build_cfg accepts.                    *)
LEMMA InputFacts ==
  ASSUME NEW its \in Inputs
  PROVE  Accepted(its)
BY InputsAssumption DEF Accepted

(* The blocks of such a kernel.                                            *)
LEMMA AcceptedFacts ==
  ASSUME NEW its, Accepted(its)
  PROVE  /\ Len(its) \in Nat \ {0} /\ DOMAIN its = 1..Len(its)
         /\ 1 \in Leaders(its) /\ Leaders(its) \subseteq 1..Len(its)
         /\ IsFiniteSet(Leaders(its))
BY LeaderFacts DEF Accepted

(* The recursive function that follows a block exists.                     *)
LEMMA ChainFacts ==
  ASSUME NEW its, Accepted(its), NEW b \in Leaders(its), NEW entry
  PROVE  LET A == Chain(its, b, entry)
         IN  /\ A[b - 1] = entry
             /\ \A k \in b..EndOf(b, its) : A[k] = Transfer(A[k - 1], its[k])
<1> DEFINE e == EndOf(b, its)
           Body(g, m) == [k \in (b - 1)..m |->
                             IF k = b - 1 THEN entry ELSE Transfer(g[k - 1], its[k])]
           Missing == {m \in Nat : b - 1 <= m /\ m <= e /\ ~ \E g : g = Body(g, m)}
<1>1. b \in Nat \ {0} /\ e \in Nat /\ b <= e
  BY AcceptedFacts, EndFacts DEF Accepted
<1> HIDE DEF e
<1>2. Missing = {}
  <2> SUFFICES ASSUME Missing # {} PROVE FALSE
    OBVIOUS
  <2>1. PICK m \in Missing : \A k \in Missing : m <= k
    <3>1. Missing \subseteq Nat
      OBVIOUS
    <3> HIDE DEF Missing
    <3> QED BY <3>1, LeastNumber
  <2>2. m \in Nat /\ b - 1 <= m /\ m <= e /\ ~ \E g : g = Body(g, m)
    OBVIOUS
  <2>3. m # b - 1
    <3> DEFINE h == [k \in (b - 1)..(b - 1) |-> entry]
    <3>1. h = Body(h, b - 1)
      BY <1>1
    <3> HIDE DEF h, Body
    <3> QED BY <3>1, <2>2
  <2>4. PICK g : g = Body(g, m - 1)
    <3>1. m - 1 \in Nat /\ b - 1 <= m - 1 /\ m - 1 <= e /\ m - 1 < m
      BY <2>2, <2>3, <1>1
    <3>2. m - 1 \notin Missing
      <4> HIDE DEF Missing
      <4> QED BY <3>1, <2>1, <2>2
    <3> HIDE DEF Body
    <3> QED BY <3>1, <3>2
  <2> DEFINE h == [k \in (b - 1)..m |->
                      IF k < m THEN g[k] ELSE Transfer(g[m - 1], its[m])]
  <2>5. \A k \in (b - 1)..m : h[k] = Body(h, m)[k]
    <3> SUFFICES ASSUME NEW k \in (b - 1)..m PROVE h[k] = Body(h, m)[k]
      OBVIOUS
    <3>1. CASE k = b - 1
      <4>1. k \in (b - 1)..(m - 1) /\ k < m
        BY <3>1, <2>2, <2>3, <1>1
      <4>2. g[k] = entry
        BY <3>1, <4>1, <2>4
      <4> QED BY <3>1, <4>1, <4>2
    <3>2. CASE k # b - 1 /\ k < m
      <4>1. k \in (b - 1)..(m - 1) /\ k - 1 \in (b - 1)..m /\ k - 1 < m
        BY <3>2, <2>2, <1>1
      <4>2. g[k] = Transfer(g[k - 1], its[k])
        BY <4>1, <3>2, <2>4
      <4>3. h[k] = g[k] /\ h[k - 1] = g[k - 1]
        BY <4>1, <3>2
      <4>4. Body(h, m)[k] = Transfer(h[k - 1], its[k])
        <5> HIDE DEF h
        <5> QED BY <3>2
      <4> HIDE DEF h, Body
      <4> QED BY <4>2, <4>3, <4>4
    <3>3. CASE k # b - 1 /\ k = m
      <4>1. m - 1 \in (b - 1)..m /\ m - 1 < m
        BY <2>2, <2>3, <1>1
      <4>2. h[m - 1] = g[m - 1] /\ h[m] = Transfer(g[m - 1], its[m])
        BY <4>1, <2>2
      <4>3. Body(h, m)[k] = Transfer(h[k - 1], its[k])
        <5> HIDE DEF h
        <5> QED BY <3>3
      <4> HIDE DEF h, Body
      <4> QED BY <3>3, <4>2, <4>3
    <3> QED BY <3>1, <3>2, <3>3, <2>2, <1>1
  <2>6. h = Body(h, m)
    <3>1. h = [k \in (b - 1)..m |-> h[k]]
      OBVIOUS
    <3>2. Body(h, m) = [k \in (b - 1)..m |-> Body(h, m)[k]]
      OBVIOUS
    <3> HIDE DEF h, Body
    <3> QED BY <3>1, <3>2, <2>5
  <2> HIDE DEF h, Body
  <2> QED BY <2>6, <2>2
<1>3. \E g : g = Body(g, e)
  <2> HIDE DEF Body
  <2>1. e \notin Missing
    BY <1>2
  <2> QED BY <2>1, <1>1
<1> DEFINE A == Chain(its, b, entry)
<1>4. A = Body(A, e)
  BY <1>3 DEF Chain, e
<1> HIDE DEF A
<1>5. A[b - 1] = entry
  BY <1>4, <1>1
<1>6. \A k \in b..e : A[k] = Transfer(A[k - 1], its[k])
  <2> TAKE k \in b..e
  <2>1. k \in (b - 1)..e /\ k # b - 1
    BY <1>1
  <2> QED BY <2>1, <1>4
<1> QED BY <1>5, <1>6 DEF A, e

(* An item adds no register and loses none.                                *)
LEMMA TransferDomain ==
  ASSUME NEW c, OfRegisters(c), NEW i
  PROVE  OfRegisters(Transfer(c, i))
<1> DEFINE t == [c EXCEPT ![Dest(i)] = IF Foldable(i) THEN FoldedResult(i, c) ELSE <<>>]
<1>1. t = [r \in Reg |-> t[r]]
  BY DEF OfRegisters
<1>2. Transfer(c, i) = c \/ Transfer(c, i) = t
  BY DEF Transfer
<1> HIDE DEF t
<1> QED BY <1>1, <1>2 DEF OfRegisters

(* All along a block something is known of every register, if only         *)
(* nothing.                                                                *)
LEMMA ChainDomain ==
  ASSUME NEW its, Accepted(its), NEW b \in Leaders(its), NEW entry, OfRegisters(entry)
  PROVE  \A k \in (b - 1)..EndOf(b, its) : OfRegisters(Chain(its, b, entry)[k])
<1> DEFINE A == Chain(its, b, entry)
           Bad == {k \in (b - 1)..EndOf(b, its) : ~ OfRegisters(A[k])}
<1>1. b \in Nat \ {0} /\ EndOf(b, its) \in Nat /\ b <= EndOf(b, its)
  BY AcceptedFacts, EndFacts DEF Accepted
<1>2. A[b - 1] = entry /\ \A k \in b..EndOf(b, its) : A[k] = Transfer(A[k - 1], its[k])
  BY ChainFacts
<1> HIDE DEF A
<1> SUFFICES ASSUME Bad # {} PROVE FALSE
  BY DEF A
<1>3. PICK m \in Bad : \A k \in Bad : m <= k
  <2>1. Bad \subseteq Nat
    BY <1>1
  <2> HIDE DEF Bad
  <2> QED BY <2>1, LeastNumber
<1>4. m # b - 1
  BY <1>2
<1>5. /\ m \in b..EndOf(b, its) /\ m - 1 \in (b - 1)..EndOf(b, its)
      /\ m - 1 \notin Bad
  <2>1. m \in (b - 1)..EndOf(b, its)
    OBVIOUS
  <2>2. m \in b..EndOf(b, its) /\ m - 1 \in (b - 1)..EndOf(b, its) /\ m - 1 < m
    BY <2>1, <1>1, <1>4
  <2> HIDE DEF Bad
  <2> QED BY <2>2, <1>1, <1>3
<1> QED BY <1>2, <1>5, TransferDomain

(* Facts start with what is known on entry, and every item passes them on. *)
LEMMA FactsAlong ==
  ASSUME NEW its, Accepted(its), NEW ends, NEW k \in DOMAIN its
  PROVE  /\ k \in Leaders(its) => FactsAt(its, ends, k) = EntryOf(its, ends, k)
         /\ k + 1 \in DOMAIN its /\ k + 1 \notin Leaders(its) =>
               FactsAt(its, ends, k + 1) = Transfer(FactsAt(its, ends, k), its[k])
         /\ k = EndOf(BlockOf(k, its), its) =>
               ExitOf(its, ends, BlockOf(k, its)) = Transfer(FactsAt(its, ends, k), its[k])
         /\ OfRegisters(FactsAt(its, ends, k))
<1> DEFINE b == BlockOf(k, its)
           A == Chain(its, b, EntryOf(its, ends, b))
<1>1. /\ b \in Leaders(its) /\ k \in b..EndOf(b, its)
      /\ k \in Leaders(its) => b = k
      /\ k + 1 \in DOMAIN its /\ k + 1 \notin Leaders(its) =>
            BlockOf(k + 1, its) = b /\ k # EndOf(b, its)
      /\ DOMAIN its = 1..Len(its) /\ Len(its) \in Nat
      /\ b \in Nat \ {0} /\ EndOf(b, its) \in Nat
  BY BlockOfFacts, AcceptedFacts, EndFacts DEF Accepted
<1>2. /\ A[b - 1] = EntryOf(its, ends, b)
      /\ \A n \in b..EndOf(b, its) : A[n] = Transfer(A[n - 1], its[n])
  BY SMTT(60), <1>1, ChainFacts
<1>3. FactsAt(its, ends, k) = A[k - 1]
  BY DEF FactsAt
<1>4. A[k] = Transfer(A[k - 1], its[k])
  BY <1>1, <1>2
<1>5. k + 1 \in DOMAIN its /\ k + 1 \notin Leaders(its) =>
          FactsAt(its, ends, k + 1) = A[k]
  <2>1. (k + 1) - 1 = k
    BY <1>1
  <2> QED BY <2>1, <1>1 DEF FactsAt
<1>6. k = EndOf(b, its) => ExitOf(its, ends, b) = A[k]
  BY DEF ExitOf
<1>7. k \in Leaders(its) => FactsAt(its, ends, k) = EntryOf(its, ends, k)
  BY <1>1, <1>2, <1>3
<1>8. OfRegisters(A[k - 1])
  <2>1. k - 1 \in (b - 1)..EndOf(b, its)
    BY <1>1
  <2>2. OfRegisters(EntryOf(its, ends, b))
    BY DEF EntryOf, OfRegisters
  <2> QED BY <2>1, <2>2, <1>1, ChainDomain
<1> QED BY <1>3, <1>4, <1>5, <1>6, <1>7, <1>8

-----------------------------------------------------------------------------
(* To know more is to conclude more.                                       *)

(* An operand that is known stays known, with the value it has.            *)
LEMMA KnownMonotone ==
  ASSUME NEW c, NEW d, Below(c, d), NEW o \in Operand, NEW ty, Known(o, ty, c) # {}
  PROVE  Known(o, ty, d) = Known(o, ty, c)
<1>1. CASE o[1] = "reg"
  <2>1. o[2] \in Reg
    BY <1>1 DEF Operand
  <2>2. c[o[2]] # <<>>
    BY <1>1 DEF Known
  <2>3. d[o[2]] = c[o[2]]
    BY <2>1, <2>2 DEF Below
  <2> QED BY <1>1, <2>3 DEF Known
<1>2. CASE o[1] # "reg"
  <2>1. o[1] \in {"int", "float"}
    BY <1>2 DEF Operand
  <2> QED BY <2>1 DEF Known
<1> QED BY <1>1, <1>2

(* And so does a result.                                                   *)
LEMMA FoldMonotone ==
  ASSUME NEW c, NEW d, Below(c, d), NEW i \in Item, FoldedResult(i, c) # <<>>
  PROVE  FoldedResult(i, d) = FoldedResult(i, c)
<1>1. i.srcs \in Seq(Operand)
  BY DEF Item
<1>2. /\ \A k \in DOMAIN i.srcs : Known(i.srcs[k], i.ty, c) # {}
      /\ \/ i.op \in {"mov", "and"}
         \/ i.op \in {"add", "mul"} /\ i.ty = "u32"
  BY DEF FoldedResult
<1>3. \A k \in DOMAIN i.srcs : i.srcs[k] \in Operand
  BY <1>1
<1>4. \A k \in DOMAIN i.srcs : Known(i.srcs[k], i.ty, d) = Known(i.srcs[k], i.ty, c)
  BY <1>2, <1>3, KnownMonotone
<1> DEFINE known(f) == [k \in DOMAIN i.srcs |-> Known(i.srcs[k], i.ty, f)]
           Folded(all) ==
               IF /\ \A k \in DOMAIN i.srcs : all[k] # {}
                  /\ \/ i.op \in {"mov", "and"}
                     \/ i.op \in {"add", "mul"} /\ i.ty = "u32"
               THEN LET v == [k \in DOMAIN i.srcs |-> CHOOSE w \in all[k] : TRUE]
                    IN  <<i.ty, CASE i.op = "mov" -> v[1]
                                  [] i.op = "add" -> (v[1] + v[2]) % W
                                  [] i.op = "mul" -> (v[1] * v[2]) % W
                                  [] i.op = "and" -> And(v[1], v[2])>>
               ELSE <<>>
<1>5. known(d) = known(c)
  BY <1>4
<1>6. FoldedResult(i, c) = Folded(known(c)) /\ FoldedResult(i, d) = Folded(known(d))
  BY Zenon DEF FoldedResult
<1> HIDE DEF Folded, known
<1> QED BY <1>5, <1>6

(* An item leaves no less known when more was known before it.             *)
LEMMA TransferMonotone ==
  ASSUME NEW c, NEW d, OfRegisters(c), OfRegisters(d), Below(c, d), NEW i \in Item
  PROVE  Below(Transfer(c, i), Transfer(d, i))
<1>1. CASE i.guard \/ Dest(i) = NoReg
  BY <1>1 DEF Transfer
<1>2. CASE ~ (i.guard \/ Dest(i) = NoReg)
  <2>1. FoldedResult(i, c) # <<>> => FoldedResult(i, d) = FoldedResult(i, c)
    BY FoldMonotone
  <2> DEFINE x == IF Foldable(i) THEN FoldedResult(i, c) ELSE <<>>
             y == IF Foldable(i) THEN FoldedResult(i, d) ELSE <<>>
  <2>2. x # <<>> => y = x
    BY <2>1
  <2>3. Transfer(c, i) = [c EXCEPT ![Dest(i)] = x] /\ Transfer(d, i) = [d EXCEPT ![Dest(i)] = y]
    BY <1>2 DEF Transfer
  <2> HIDE DEF x, y
  <2>4. DOMAIN c = Reg /\ DOMAIN d = Reg
    BY DEF OfRegisters
  <2> QED BY <2>2, <2>3, <2>4 DEF Below
<1> QED BY <1>1, <1>2

(* Nor does a block.                                                       *)
LEMMA ChainMonotone ==
  ASSUME NEW its, Accepted(its), NEW b \in Leaders(its), NEW c, NEW d,
         OfRegisters(c), OfRegisters(d), Below(c, d)
  PROVE  Below(Chain(its, b, c)[EndOf(b, its)], Chain(its, b, d)[EndOf(b, its)])
<1> DEFINE A == Chain(its, b, c)
           B == Chain(its, b, d)
           e == EndOf(b, its)
           Bad == {k \in (b - 1)..e : ~ Below(A[k], B[k])}
<1>1. /\ b \in Nat \ {0} /\ e \in Nat /\ b <= e
      /\ \A k \in b..e : its[k] \in Item
  <2>1. /\ Len(its) \in Nat /\ DOMAIN its = 1..Len(its)
        /\ b \in 1..Len(its) /\ e \in b..Len(its)
    BY AcceptedFacts, EndFacts DEF Accepted
  <2>2. \A k \in 1..Len(its) : its[k] \in Item
    BY <2>1 DEF Accepted
  <2> QED BY <2>1, <2>2
<1>2. /\ A[b - 1] = c /\ \A k \in b..e : A[k] = Transfer(A[k - 1], its[k])
      /\ B[b - 1] = d /\ \A k \in b..e : B[k] = Transfer(B[k - 1], its[k])
  BY ChainFacts
<1>3. \A k \in (b - 1)..e : OfRegisters(A[k]) /\ OfRegisters(B[k])
  BY ChainDomain
<1> HIDE DEF A, B, e
<1>4. Bad = {}
  <2> SUFFICES ASSUME Bad # {} PROVE FALSE
    OBVIOUS
  <2>1. PICK m \in Bad : \A k \in Bad : m <= k
    <3>1. Bad \subseteq Nat
      BY <1>1
    <3> HIDE DEF Bad
    <3> QED BY <3>1, LeastNumber
  <2>2. m \in (b - 1)..e /\ ~ Below(A[m], B[m]) /\ m # b - 1
    BY <1>2
  <2>3. m \in b..e /\ m - 1 \in (b - 1)..e /\ m - 1 < m
    BY <2>2, <1>1
  <2>4. Below(A[m - 1], B[m - 1])
    <3>1. m - 1 \notin Bad
      <4> HIDE DEF Bad
      <4> QED BY <2>1, <2>2, <2>3, <1>1
    <3> QED BY <3>1, <2>3
  <2> QED BY <2>2, <2>3, <2>4, <1>1, <1>2, <1>3, TransferMonotone
<1>5. e \in (b - 1)..e
  BY <1>1
<1> QED BY <1>4, <1>5 DEF A, B, e

-----------------------------------------------------------------------------
(* Where control meets.                                                    *)

(* What is known on entry all predecessors agree on, and there is one.     *)
LEMMA EntryAgrees ==
  ASSUME NEW its, Accepted(its), NEW b \in Leaders(its), NEW ends, NEW r \in Reg,
         EntryOf(its, ends, b)[r] # <<>>
  PROVE  /\ Graph(its).pred[b] # {}
         /\ \A p \in Graph(its).pred[b] : ends[p][r] = EntryOf(its, ends, b)[r]
<1> DEFINE P == Graph(its).pred[b]
           agreed == {ends[p][r] : p \in P}
           f == [p \in P |-> ends[p][r]]
<1>1. Cardinality(agreed) = 1 /\ EntryOf(its, ends, b)[r] = CHOOSE c \in agreed : TRUE
  BY DEF EntryOf
<1>2. IsFiniteSet(P)
  <2>1. P \in SUBSET Leaders(its)
    BY GraphFacts DEF Accepted
  <2>2. IsFiniteSet(Leaders(its))
    BY AcceptedFacts
  <2> QED BY <2>1, <2>2, FS_Subset
<1>3. IsFiniteSet(agreed)
  <2>1. f \in Surjection(P, agreed)
    BY DEF Surjection
  <2> HIDE DEF f, P, agreed
  <2> QED BY <1>2, <2>1, FS_Surjection
<1>4. PICK x : agreed = {x}
  <2> HIDE DEF agreed
  <2> QED BY <1>1, <1>3, FS_Singleton
<1> QED BY <1>1, <1>4

(* When more is known at the ends of blocks, no less is known where        *)
(* control meets.                                                          *)
LEMMA EntryMonotone ==
  ASSUME NEW its, Accepted(its), NEW b \in Leaders(its), NEW X, NEW Y,
         \A p \in Leaders(its) : Below(X[p], Y[p])
  PROVE  Below(EntryOf(its, X, b), EntryOf(its, Y, b))
<1> SUFFICES ASSUME NEW r \in Reg, EntryOf(its, X, b)[r] # <<>>
             PROVE  EntryOf(its, Y, b)[r] = EntryOf(its, X, b)[r]
  BY DEF Below
<1> DEFINE P == Graph(its).pred[b]
           c == EntryOf(its, X, b)[r]
           agreed == {Y[p][r] : p \in P}
<1>1. P # {} /\ \A p \in P : X[p][r] = c
  BY EntryAgrees
<1>2. P \subseteq Leaders(its)
  BY GraphFacts DEF Accepted
<1>3. \A p \in P : Y[p][r] = c
  BY <1>1, <1>2 DEF Below
<1> HIDE DEF c, P
<1>4. agreed = {c}
  BY <1>1, <1>3
<1>5. Cardinality(agreed) = 1
  BY <1>4, FS_Singleton
<1>6. (CHOOSE x \in agreed : TRUE) = c
  BY <1>4
<1>7. EntryOf(its, Y, b)[r] = c
  BY <1>5, <1>6 DEF EntryOf, P
<1> QED BY <1>7 DEF c

(* Nothing is known on entry to the kernel.                                *)
LEMMA NothingKnownFirst ==
  ASSUME NEW its, Accepted(its), InView(its), NEW ends, NEW r \in Reg
  PROVE  FactsAt(its, ends, 1)[r] = <<>>
<1>1. 1 \in Leaders(its) /\ 1 \in DOMAIN its
  BY AcceptedFacts
<1>2. Graph(its).pred[1] = {}
  <2> SUFFICES ASSUME NEW p \in Graph(its).pred[1] PROVE FALSE
    OBVIOUS
  <2>1. p \in Leaders(its) /\ 1 \in Successors(p, its)
    <3>1. p \in Leaders(its) /\ 1 \in Graph(its).succ[p]
      BY <1>1, GraphFacts DEF Accepted
    <3> QED BY <3>1, GraphFacts DEF Accepted
  <2>2. /\ EndOf(p, its) \in p..Len(its) /\ p \in 1..Len(its)
        /\ DOMAIN its = 1..Len(its) /\ Len(its) \in Nat
    BY <2>1, EndFacts, AcceptedFacts DEF Accepted
  <2>3. EndOf(p, its) \in p..EndOf(p, its)
    BY <2>2
  <2>4. 1 \in Follows(EndOf(p, its), its)
    BY <2>1, <2>3, FollowsFacts DEF Accepted
  <2> QED BY <2>2, <2>4 DEF InView
<1>3. EntryOf(its, ends, 1)[r] = <<>>
  BY <1>1, <1>2, EntryAgrees
<1> QED BY <1>1, <1>3, FactsAlong

(* Facts that hold at the end of a block hold on entry to what follows it. *)
LEMMA ArrivalKeepsFacts ==
  ASSUME NEW its, Accepted(its), NEW ends, NEW s, NEW k \in DOMAIN its,
         NEW n \in Follows(k, its), n # Len(its) + 1,
         \A b \in Leaders(its) : Below(ends[b], ExitOf(its, ends, b)),
         HoldsIn(Transfer(FactsAt(its, ends, k), its[k]), s)
  PROVE  n \in DOMAIN its /\ HoldsIn(FactsAt(its, ends, n), s)
<1> DEFINE b == BlockOf(k, its)
<1>1. /\ b \in Leaders(its) /\ k \in b..EndOf(b, its)
      /\ DOMAIN its = 1..Len(its) /\ Len(its) \in Nat
      /\ k + 1 \in DOMAIN its /\ k + 1 \notin Leaders(its) => k # EndOf(b, its)
  BY BlockOfFacts, AcceptedFacts DEF Accepted
<1>2. /\ EndOf(b, its) \in b..Len(its)
      /\ \A j \in (b + 1)..EndOf(b, its) : j \notin Leaders(its)
      /\ b \in 1..Len(its)
  BY <1>1, EndFacts, AcceptedFacts DEF Accepted
<1>3. n \in IF k = EndOf(b, its) THEN Successors(b, its) ELSE {k + 1}
  BY <1>1, FollowsFacts DEF Accepted
<1>4. CASE k # EndOf(b, its)
  <2>1. n = k + 1 /\ n \in (b + 1)..EndOf(b, its) /\ n \in DOMAIN its
    BY <1>1, <1>2, <1>3, <1>4
  <2>2. FactsAt(its, ends, n) = Transfer(FactsAt(its, ends, k), its[k])
    BY <2>1, <1>2, FactsAlong
  <2> QED BY <2>1, <2>2
<1>5. CASE k = EndOf(b, its)
  <2>1. n \in Leaders(its) /\ b \in Graph(its).pred[n]
    BY ZenonT(60), <1>1, <1>3, <1>5, GraphFacts DEF Accepted
  <2>2. n \in DOMAIN its
    BY <2>1, AcceptedFacts
  <2>3. HoldsIn(ExitOf(its, ends, b), s)
    BY <1>5, FactsAlong
  <2>4. HoldsIn(ends[b], s)
    BY <2>3, <1>1 DEF HoldsIn, Below
  <2>5. HoldsIn(EntryOf(its, ends, n), s)
    <3> SUFFICES ASSUME NEW r \in Reg, EntryOf(its, ends, n)[r] # <<>>
                 PROVE  s.reg[r] = EntryOf(its, ends, n)[r][2]
      BY DEF HoldsIn
    <3>1. ends[b][r] = EntryOf(its, ends, n)[r]
      BY <2>1, EntryAgrees
    <3> QED BY <3>1, <2>4 DEF HoldsIn
  <2> QED BY <2>1, <2>2, <2>5, FactsAlong
<1> QED BY <1>4, <1>5

-----------------------------------------------------------------------------
(* Executing an item.                                                      *)

(* A state without what it shows.                                          *)
LEMMA ForgetfulFacts ==
  ASSUME NEW s, NEW r, NEW m, NEW z, s = [reg |-> r, mem |-> m, seen |-> z], DOMAIN r = Reg
  PROVE  Shape(Forgetful(s)) /\ Forgetful(s).reg = r
<1>1. Forgetful(s) = [reg |-> r, mem |-> m, seen |-> <<>>]
  BY UpdateSeen DEF Forgetful
<1> QED BY <1>1 DEF Shape

(* An item changes no register but the one the pass takes it to define,    *)
(* fma apart, and a pure one gets its result.                              *)
LEMMA ExecFacts ==
  ASSUME NEW i \in Item, i.op # "fma", NEW s, Shape(s),
         i.op \in PureOp \cup {"ld"} => i.dst \in Reg
  PROVE  /\ Shape(Forgetful(Exec(i, s)))
         /\ \A r \in Reg : r # Dest(i) => Forgetful(Exec(i, s)).reg[r] = s.reg[r]
         /\ i.op \in PureOp =>
               Forgetful(Exec(i, s)).reg[i.dst] = Result(i.op, i.ty, Vals(i.srcs, s))
<1> DEFINE v == Vals(i.srcs, s)
           t == Exec(i, s)
           q == NewReg(i, s)
<1>1. t = [reg |-> q, mem |-> NewMem(i, s), seen |-> NewSeen(i, s)]
  BY ExecFields DEF Item
<1>2. DOMAIN q = Reg
  BY DEF NewReg, Shape
<1>3. Shape(Forgetful(t)) /\ Forgetful(t).reg = q
  <2> HIDE DEF t, q
  <2> QED BY <1>1, <1>2, ForgetfulFacts
<1>4. \A r \in Reg : r # Dest(i) => q[r] = s.reg[r]
  BY DEF NewReg, Writes, Dest, PureOp, Shape
<1>5. i.op \in PureOp => q[i.dst] = Result(i.op, i.ty, v)
  BY DEF NewReg, Writes, PureOp, Shape
<1> HIDE DEF t, q, v
<1> QED BY <1>3, <1>4, <1>5 DEF t, v

-----------------------------------------------------------------------------
(* What is known is what the lane has.                                     *)

(* A result that is folded is the result.                                  *)
LEMMA FoldSound ==
  ASSUME NEW c, NEW s, HoldsIn(c, s), NEW i \in Item, FoldedResult(i, c) # <<>>
  PROVE  FoldedResult(i, c)[2] = Result(i.op, i.ty, Vals(i.srcs, s))
<1> DEFINE Folded(all) ==
               IF /\ \A k \in DOMAIN i.srcs : all[k] # {}
                  /\ \/ i.op \in {"mov", "and"}
                     \/ i.op \in {"add", "mul"} /\ i.ty = "u32"
               THEN LET u == [k \in DOMAIN i.srcs |-> CHOOSE w \in all[k] : TRUE]
                    IN  <<i.ty, CASE i.op = "mov" -> u[1]
                                  [] i.op = "add" -> (u[1] + u[2]) % W
                                  [] i.op = "mul" -> (u[1] * u[2]) % W
                                  [] i.op = "and" -> And(u[1], u[2])>>
               ELSE <<>>
           known == [k \in DOMAIN i.srcs |-> Known(i.srcs[k], i.ty, c)]
           v == [k \in DOMAIN i.srcs |-> CHOOSE w \in known[k] : TRUE]
           x == CASE i.op = "mov" -> v[1]
                  [] i.op = "add" -> (v[1] + v[2]) % W
                  [] i.op = "mul" -> (v[1] * v[2]) % W
                  [] i.op = "and" -> And(v[1], v[2])
<1>0. FoldedResult(i, c) = Folded(known)
  BY Zenon DEF FoldedResult
<1>1. /\ \A k \in DOMAIN i.srcs : known[k] # {}
      /\ \/ i.op \in {"mov", "and"}
         \/ i.op \in {"add", "mul"} /\ i.ty = "u32"
      /\ FoldedResult(i, c) = <<i.ty, x>>
  <2> HIDE DEF known
  <2> QED BY <1>0
<1>2. \A k \in DOMAIN i.srcs : i.srcs[k] \in Operand
  BY DEF Item
<1>3. \A k \in DOMAIN i.srcs : known[k] = {Val(i.srcs[k], s)}
  BY <1>1, <1>2, KnownSound
<1>4. v = Vals(i.srcs, s)
  <2>1. \A k \in DOMAIN i.srcs : (CHOOSE w \in known[k] : TRUE) = Val(i.srcs[k], s)
    <3> HIDE DEF known
    <3> QED BY <1>3
  <2> HIDE DEF known
  <2> QED BY <2>1 DEF Vals
<1> HIDE DEF v
<1>5. x = Result(i.op, i.ty, v)
  <2>1. CASE i.op = "mov"
    BY <2>1 DEF Result
  <2>2. CASE i.op = "and"
    BY <2>2 DEF Result
  <2>3. CASE i.op = "add" /\ i.ty = "u32"
    BY <2>3 DEF Result
  <2>4. CASE i.op = "mul" /\ i.ty = "u32"
    BY <2>4 DEF Result
  <2> QED BY <1>1, <2>1, <2>2, <2>3, <2>4
<1>6. FoldedResult(i, c)[2] = x
  <2> HIDE DEF x
  <2> QED BY <1>1
<1> HIDE DEF x
<1> QED BY <1>4, <1>5, <1>6

(* With the item, the facts at it become the facts after it.               *)
LEMMA ItemKeepsFacts ==
  ASSUME NEW c, OfRegisters(c), NEW s, Shape(s), HoldsIn(c, s),
         NEW i \in Item, i.op # "fma", i.guard => Dest(i) = NoReg,
         i.op \in PureOp \cup {"ld"} => i.dst \in Reg
  PROVE  HoldsIn(Transfer(c, i), Forgetful(Exec(i, s)))
<1> DEFINE u == Forgetful(Exec(i, s))
<1>1. /\ \A r \in Reg : r # Dest(i) => u.reg[r] = s.reg[r]
      /\ i.op \in PureOp => u.reg[i.dst] = Result(i.op, i.ty, Vals(i.srcs, s))
  BY ExecFacts
<1> HIDE DEF u
<1>2. CASE Dest(i) = NoReg
  <2>1. Transfer(c, i) = c /\ \A r \in Reg : r # Dest(i)
    BY <1>2, PtxAssumption DEF Transfer
  <2>2. HoldsIn(c, u)
    BY <2>1, <1>1 DEF HoldsIn
  <2> QED BY <2>1, <2>2 DEF u
<1>3. CASE Dest(i) # NoReg
  <2>1. Dest(i) = i.dst /\ i.dst \in Reg /\ ~ i.guard
    BY <1>3 DEF Dest
  <2> DEFINE x == IF Foldable(i) THEN FoldedResult(i, c) ELSE <<>>
  <2>2. Transfer(c, i) = [c EXCEPT ![i.dst] = x]
    BY <1>3, <2>1 DEF Transfer
  <2>3. x # <<>> => u.reg[i.dst] = x[2]
    BY <1>1, FoldSound DEF Foldable
  <2> HIDE DEF x
  <2>4. HoldsIn([c EXCEPT ![i.dst] = x], u)
    <3>1. DOMAIN c = Reg
      BY DEF OfRegisters
    <3> QED BY <1>1, <2>1, <2>3, <3>1 DEF HoldsIn
  <2> QED BY <2>2, <2>4 DEF u
<1> QED BY <1>2, <1>3

(* An item rewritten with facts that hold does what it did.                *)
LEMMA SameEffect ==
  ASSUME NEW c, NEW s, HoldsIn(c, s), NEW i \in Item, i.op \in PureOp
  PROVE  Exec(Rewritten(i, c), s) = Exec(i, s)
<1> DEFINE sources == [k \in DOMAIN i.srcs |->
               IF Known(i.srcs[k], i.ty, c) = {} THEN i.srcs[k]
               ELSE Immediate(CHOOSE w \in Known(i.srcs[k], i.ty, c) : TRUE, i.ty)]
           result == FoldedResult(i, c)
           moved == [i EXCEPT !.op = "mov", !.srcs = <<Immediate(result[2], i.ty)>>]
           eased == [i EXCEPT !.srcs = sources]
<1>1. Rewritten(i, c) = IF i.op = "and" /\ result # <<>> THEN moved ELSE eased
  BY Zenon DEF Rewritten
<1>2. \A w : Val(Immediate(w, i.ty), s) = w
  BY DEF Val, Immediate, F, I
<1>3. \A k \in DOMAIN i.srcs : i.srcs[k] \in Operand
  BY DEF Item
<1>4. ASSUME NEW j, j.op \in PureOp
      PROVE  Exec(j, s) = [s EXCEPT !.reg[j.dst] = Result(j.op, j.ty, Vals(j.srcs, s))]
  BY <1>4 DEF Exec, PureOp
<1>5. CASE i.op = "and" /\ result # <<>>
  <2> DEFINE o == Immediate(result[2], i.ty)
  <2>1. /\ moved.op = "mov" /\ moved.srcs = <<o>>
        /\ moved.ty = i.ty /\ moved.dst = i.dst
    BY DEF Item
  <2>2. Vals(<<o>>, s)[1] = result[2]
    <3> HIDE DEF result
    <3>1. Val(o, s) = result[2]
      BY <1>2
    <3> HIDE DEF o
    <3> QED BY <3>1 DEF Vals
  <2>3. result[2] = Result(i.op, i.ty, Vals(i.srcs, s))
    BY <1>5, FoldSound
  <2>4. Result("mov", i.ty, Vals(<<o>>, s)) = result[2]
    <3> HIDE DEF o, result
    <3> QED BY <2>2 DEF Result
  <2> HIDE DEF moved, o, result
  <2>5. Exec(moved, s) = [s EXCEPT !.reg[i.dst] = result[2]]
    <3>1. moved.op \in PureOp
      BY <2>1 DEF PureOp
    <3> QED BY <3>1, <1>4, <2>1, <2>4
  <2>6. Exec(i, s) = [s EXCEPT !.reg[i.dst] = result[2]]
    BY <1>4, <2>3
  <2>7. Rewritten(i, c) = moved
    BY <1>1, <1>5
  <2> QED BY <2>5, <2>6, <2>7
<1>6. CASE ~ (i.op = "and" /\ result # <<>>)
  <2>1. /\ eased.op = i.op /\ eased.srcs = sources
        /\ eased.ty = i.ty /\ eased.dst = i.dst
    BY DEF Item
  <2>2. \A k \in DOMAIN i.srcs : Val(sources[k], s) = Val(i.srcs[k], s)
    <3> TAKE k \in DOMAIN i.srcs
    <3>1. CASE Known(i.srcs[k], i.ty, c) = {}
      BY <3>1
    <3>2. CASE Known(i.srcs[k], i.ty, c) # {}
      <4>1. Known(i.srcs[k], i.ty, c) = {Val(i.srcs[k], s)}
        BY <3>2, <1>3, KnownSound
      <4>2. (CHOOSE w \in Known(i.srcs[k], i.ty, c) : TRUE) = Val(i.srcs[k], s)
        BY <4>1
      <4>3. sources[k] = Immediate(CHOOSE w \in Known(i.srcs[k], i.ty, c) : TRUE, i.ty)
        BY <3>2
      <4> HIDE DEF sources
      <4> QED BY <4>2, <4>3, <1>2
    <3> QED BY <3>1, <3>2
  <2>3. Vals(sources, s) = Vals(i.srcs, s)
    <3>1. DOMAIN sources = DOMAIN i.srcs
      OBVIOUS
    <3> HIDE DEF sources
    <3> QED BY <3>1, <2>2 DEF Vals
  <2>4. Rewritten(i, c) = eased
    BY <1>1, <1>6
  <2> HIDE DEF eased, sources
  <2>5. Exec(eased, s) = [s EXCEPT !.reg[i.dst] = Result(i.op, i.ty, Vals(i.srcs, s))]
    <3>1. eased.op \in PureOp
      BY <2>1
    <3> QED BY <3>1, <1>4, <2>1, <2>3
  <2> QED BY <1>4, <2>4, <2>5
<1> QED BY <1>5, <1>6

-----------------------------------------------------------------------------
(* The invariant is inductive.                                             *)

(* What the model computes is what is computed for any kernel.             *)
LEMMA Unfolded ==
  /\ \A b : EntryConstants(b) = EntryOf(items, constsOut, b)
  /\ \A b : ExitConstants(b) = ExitOf(items, constsOut, b)
<1>1. ASSUME NEW b PROVE EntryConstants(b) = EntryOf(items, constsOut, b)
  BY Zenon DEF EntryConstants, EntryOf
<1>2. ASSUME NEW b PROVE ExitConstants(b) = ExitOf(items, constsOut, b)
  BY Zenon, <1>1 DEF ExitConstants, ExitOf, Chain
<1> QED BY <1>1, <1>2

(* To know no less is a preorder.                                          *)
LEMMA BelowFacts ==
  /\ \A c : Below(c, c)
  /\ \A c, d, e : Below(c, d) /\ Below(d, e) => Below(c, e)
BY DEF Below

(* Before the first round nothing is recorded, and nothing is known at the *)
(* first item.                                                             *)
LEMMA InitHolds ==
  Init /\ InView(items) => IInv
<1> SUFFICES ASSUME Init, InView(items) PROVE IInv
  OBVIOUS
<1> USE DEF Init
<1>1. Accepted(items)
  BY InputFacts
<1>2. Len(items) \in Nat \ {0} /\ 1 \in Leaders(items)
  BY <1>1, AcceptedFacts
<1>3. FlowInv
  <2>1. \A b \in Blocks : constsOut[b] = NoConstants
    BY DEF Blocks
  <2>2. Founded
    BY <2>1 DEF Founded, Below, NoConstants
  <2>3. OfRegisters(NoConstants)
    BY DEF OfRegisters, NoConstants
  <2> QED BY <1>2, <2>1, <2>2, <2>3 DEF FlowInv, Blocks
<1>4. ApplyInv
  <2>1. kept \in Seq({})
    OBVIOUS
  <2> QED BY <1>2, <2>1 DEF ApplyInv, Past, Blocks
<1>5. RunInv
  <2>1. Shape(src)
    BY StartsAssumption DEF Shape, State
  <2>2. HoldsIn(FactsAt(items, constsOut, 1), src)
    BY <1>1, NothingKnownFirst DEF HoldsIn
  <2> QED BY <1>2, <2>1, <2>2 DEF RunInv, Past
<1> QED BY <1>3, <1>4, <1>5 DEF IInv

(* Recording what a block passes on only adds to what is recorded.         *)
LEMMA VisitStep ==
  ASSUME IInv, InView(items), Visit
  PROVE  IInv'
<1> USE DEF IInv
<1> DEFINE X == constsOut
           Y == constsOut'
<1>1. /\ Accepted(items) /\ at \in Blocks /\ Blocks' = Blocks /\ Past' = Past
      /\ items' = items /\ phase' = phase /\ phase = "flow"
      /\ idx' = 1 /\ kept' = <<>> /\ local' = local
      /\ pc' = 1 /\ src' = src /\ out' = out
      /\ idx = 1 /\ kept = <<>> /\ pc = 1
  BY InputFacts DEF Visit, apply, run, Blocks, Past, FlowInv
<1>2. /\ Len(items) \in Nat \ {0} /\ 1 \in Blocks /\ Blocks \subseteq 1..Len(items)
      /\ \A b \in Blocks : EndOf(b, items) \in b..Len(items)
      /\ \A b \in Blocks : EndOf(b, items) = Len(items) \/ EndOf(b, items) + 1 \in Blocks
  BY <1>1, AcceptedFacts, EndFacts DEF Blocks, Accepted
<1>3. Y = [X EXCEPT ![at] = ExitOf(items, X, at)]
  BY Unfolded DEF Visit
<1>4. /\ DOMAIN Y = Blocks
      /\ Y[at] = ExitOf(items, X, at)
      /\ \A b \in Blocks : b # at => Y[b] = X[b]
  BY <1>1, <1>3 DEF FlowInv
<1> HIDE DEF Y
<1>5. ASSUME NEW b \in Blocks, NEW Z
      PROVE  /\ OfRegisters(EntryOf(items, Z, b))
             /\ OfRegisters(ExitOf(items, Z, b))
  <2>1. OfRegisters(EntryOf(items, Z, b))
    BY DEF EntryOf, OfRegisters
  <2>2. EndOf(b, items) \in (b - 1)..EndOf(b, items)
    BY <1>2
  <2> QED BY <2>1, <2>2, <1>1, ChainDomain DEF ExitOf, Blocks
<1>6. \A b \in Blocks : Below(X[b], ExitOf(items, X, b))
  BY DEF FlowInv, Founded
<1>7. \A b \in Blocks : Below(X[b], Y[b])
  BY <1>4, <1>6, BelowFacts
<1>8. ASSUME NEW b \in Blocks
      PROVE  Below(ExitOf(items, X, b), ExitOf(items, Y, b))
  <2>1. Below(EntryOf(items, X, b), EntryOf(items, Y, b))
    BY <1>1, <1>7, EntryMonotone DEF Blocks
  <2> QED BY <2>1, <1>1, <1>5, ChainMonotone DEF ExitOf, Blocks
<1>9. \A b \in Blocks : Below(Y[b], ExitOf(items, Y, b))
  BY <1>4, <1>6, <1>8, BelowFacts
<1>10. FlowInv'
  <2>1. \A b \in Blocks : OfRegisters(Y[b])
    BY <1>4, <1>5 DEF FlowInv
  <2>2. at' \in Blocks \cup {Past}
    BY <1>1, <1>2 DEF Visit, Past
  <2> QED BY <1>1, <1>4, <1>9, <2>1, <2>2 DEF FlowInv, Founded, Y
<1>11. ApplyInv'
  <2>1. kept' \in Seq({})
    BY <1>1
  <2> QED BY <1>1, <1>2, <2>1 DEF ApplyInv, Past
<1>12. RunInv'
  <2>1. HoldsIn(FactsAt(items, constsOut', 1), src)
    BY <1>1, NothingKnownFirst DEF HoldsIn
  <2>2. Shape(src) /\ out = src
    BY DEF RunInv
  <2> QED BY <1>1, <1>2, <2>1, <2>2 DEF RunInv, Past
<1> QED BY <1>1, <1>10, <1>11, <1>12

(* Rewriting one item, with the facts at it.                               *)
LEMMA RewriteStep ==
  ASSUME IInv, InView(items), Rewrite
  PROVE  IInv'
<1> USE DEF IInv
<1> DEFINE i == items[idx]
           c == FactsAt(items, constsOut, idx)
<1>1. /\ Accepted(items) /\ Blocks' = Blocks /\ Past' = Past
      /\ items' = items /\ phase' = "apply" /\ phase = "apply"
      /\ constsOut' = constsOut /\ at' = at
      /\ idx' = idx + 1 /\ pc' = pc /\ src' = src /\ out' = out /\ pc = 1
  BY InputFacts DEF Rewrite, flow, run, Blocks, Past
<1>2. Len(items) \in Nat \ {0} /\ DOMAIN items = 1..Len(items)
  BY <1>1, AcceptedFacts
<1>3. idx \in DOMAIN items /\ idx \in Nat /\ idx + 1 \in 1..Past
  BY <1>2 DEF Rewrite, ApplyInv, Past
<1>4. c = IF idx \in Blocks THEN EntryConstants(idx) ELSE local
  <2>1. idx \in Blocks => c = EntryConstants(idx)
    BY <1>1, <1>3, FactsAlong, Unfolded DEF Blocks
  <2>2. idx \notin Blocks => c = local
    BY DEF ApplyInv, Rewrite
  <2> QED BY <2>1, <2>2
<1> HIDE DEF c
<1>5. kept' = Append(kept, Outcome(items, constsOut, idx))
  BY <1>4 DEF Rewrite, Outcome, c
<1>6. local' = Transfer(c, i)
  <2>1. i.guard => Dest(i) = NoReg
    BY <1>3 DEF InView
  <2> QED BY <2>1, <1>4 DEF Rewrite, Transfer
<1>7. ApplyInv'
  <2> DEFINE x == Outcome(items, constsOut, idx)
  <2> HIDE DEF x
  <2>1. PICK S : kept \in Seq(S)
    BY DEF ApplyInv
  <2>2. Len(kept) = idx - 1 /\ \A k \in 1..(idx - 1) : kept[k] = Outcome(items, constsOut, k)
    BY DEF ApplyInv
  <2>3. kept \in Seq(S \cup {x})
    BY <2>1
  <2>4. /\ kept' \in Seq(S \cup {x}) /\ Len(kept') = idx
        /\ \A k \in 1..(idx - 1) : kept'[k] = kept[k]
        /\ kept'[idx] = x
    BY <1>3, <1>5, <2>2, <2>3 DEF x
  <2>5. \A k \in 1..idx : kept'[k] = Outcome(items, constsOut, k)
    <3> TAKE k \in 1..idx
    <3>1. CASE k = idx
      BY <3>1, <2>4 DEF x
    <3>2. CASE k # idx
      <4>1. k \in 1..(idx - 1)
        BY <3>2, <1>3
      <4> QED BY <4>1, <2>2, <2>4
    <3> QED BY <3>1, <3>2
  <2>6. idx + 1 # Past /\ idx + 1 \notin Blocks =>
            local' = FactsAt(items, constsOut, idx + 1)
    <3> SUFFICES ASSUME idx + 1 # Past, idx + 1 \notin Blocks
                 PROVE  local' = FactsAt(items, constsOut, idx + 1)
      OBVIOUS
    <3>1. idx + 1 \in DOMAIN items
      BY <1>2, <1>3 DEF Past
    <3> QED BY <3>1, <1>1, <1>3, <1>6, FactsAlong DEF Blocks, c
  <2>7. (idx + 1) - 1 = idx
    BY <1>3
  <2> QED BY <1>1, <1>3, <2>4, <2>5, <2>6, <2>7 DEF ApplyInv
<1>8. FlowInv'
  BY <1>1 DEF FlowInv, Founded
<1>9. RunInv'
  BY <1>1 DEF RunInv
<1> QED BY <1>1, <1>7, <1>8, <1>9

(* One item in both lanes.                                                 *)
LEMMA ExecuteStep ==
  ASSUME IInv, InView(items), Execute
  PROVE  IInv'
<1> USE DEF IInv
<1> DEFINE i == items[pc]
           c == FactsAt(items, constsOut, pc)
<1>1. /\ Accepted(items) /\ Blocks' = Blocks /\ Past' = Past
      /\ items' = items /\ phase' = "run" /\ phase = "run"
      /\ constsOut' = constsOut /\ at' = at
      /\ idx' = idx /\ kept' = kept /\ local' = local /\ idx = Past
  BY InputFacts DEF Execute, flow, apply, Blocks, Past
<1>2. Len(items) \in Nat \ {0} /\ DOMAIN items = 1..Len(items)
  BY <1>1, AcceptedFacts
<1>3. pc \in DOMAIN items /\ pc # Past /\ pc \in 1..(Past - 1)
  BY <1>2 DEF Execute, RunInv, Past
<1>4. Shape(src) /\ out = src /\ HoldsIn(c, src) /\ OfRegisters(c)
  BY <1>1, <1>3, FactsAlong DEF RunInv
<1>5. /\ i \in Item /\ i.op # "fma" /\ (i.guard => Dest(i) = NoReg)
      /\ i.op \in PureOp \cup {"ld"} => i.dst \in Reg
  BY <1>1, <1>2, <1>3 DEF InView, Accepted
<1>6. kept[pc] = Outcome(items, constsOut, pc)
  BY <1>1, <1>3 DEF ApplyInv
<1>7. kept[pc] = IF Foldable(i) THEN Rewritten(i, c) ELSE i
  BY <1>6 DEF Outcome
<1> HIDE DEF i, c
<1>8. Exec(kept[pc], out) = Exec(i, src)
  BY <1>4, <1>5, <1>7, SameEffect DEF Foldable
<1>9. Shape(src') /\ out' = src' /\ HoldsIn(Transfer(c, i), src')
  <2>1. CASE src' = Forgetful(Exec(i, src)) /\ out' = Forgetful(Exec(kept[pc], out))
    <3>1. Shape(src')
      BY <2>1, <1>4, <1>5, ExecFacts
    <3>2. HoldsIn(Transfer(c, i), src')
      BY <2>1, <1>4, <1>5, ItemKeepsFacts
    <3> QED BY <2>1, <3>1, <3>2, <1>8
  <2>2. CASE i.guard /\ UNCHANGED <<src, out>>
    <3>1. Transfer(c, i) = c
      BY <2>2, <1>5 DEF Transfer
    <3> QED BY <3>1, <2>2, <1>4
  <2> QED BY <2>1, <2>2 DEF Execute, i
<1>10. pc' \in Follows(pc, items)
  BY DEF Execute
<1>11. pc' # Past => pc' \in DOMAIN items /\ HoldsIn(FactsAt(items, constsOut, pc'), src')
  <2> SUFFICES ASSUME pc' # Past
               PROVE  pc' \in DOMAIN items /\ HoldsIn(FactsAt(items, constsOut, pc'), src')
    OBVIOUS
  <2>1. \A b \in Leaders(items) : Below(constsOut[b], ExitOf(items, constsOut, b))
    BY DEF FlowInv, Founded, Blocks
  <2>2. HoldsIn(Transfer(FactsAt(items, constsOut, pc), items[pc]), src')
    BY <1>9 DEF c, i
  <2> HIDE DEF IInv
  <2> QED BY <2>1, <2>2, <1>1, <1>3, <1>10, ArrivalKeepsFacts DEF Past
<1>12. RunInv'
  <2>1. pc' \in 1..Past
    BY <1>2, <1>11 DEF Past
  <2> QED BY <2>1, <1>1, <1>9, <1>11 DEF RunInv
<1>13. FlowInv'
  BY <1>1 DEF FlowInv, Founded
<1>14. ApplyInv'
  BY <1>1 DEF ApplyInv
<1> QED BY <1>1, <1>12, <1>13, <1>14

(* The steps between the phases.                                           *)
LEMMA OtherSteps ==
  ASSUME IInv, InView(items), NextRound \/ FlowEnds \/ Rewrote \/ Halt \/ UNCHANGED vars
  PROVE  IInv'
<1> USE DEF IInv
<1>1. /\ items' = items /\ constsOut' = constsOut
      /\ idx' = idx /\ kept' = kept /\ local' = local
      /\ pc' = pc /\ src' = src /\ out' = out
      /\ Blocks' = Blocks /\ Past' = Past /\ (at' = at \/ at' = 1)
  BY DEF NextRound, FlowEnds, Rewrote, Halt, vars, flow, apply, run, Blocks, Past
<1>2. 1 \in Blocks
  BY InputFacts, AcceptedFacts DEF Blocks
<1>3. FlowInv'
  BY <1>1, <1>2 DEF FlowInv, Founded
<1>4. ApplyInv' /\ RunInv'
  BY <1>1 DEF ApplyInv, RunInv
<1>5. /\ phase' \in {"flow", "apply", "run", "halted"}
      /\ phase' = "flow" => phase = "flow"
      /\ phase' \in {"flow", "apply"} => phase \in {"flow", "apply"}
      /\ phase' \in {"run", "halted"} => idx = Past
  BY DEF NextRound, FlowEnds, Rewrote, Halt, vars
<1> QED BY <1>1, <1>3, <1>4, <1>5

(* At any time, in every kernel the pass has in view: what is recorded for *)
(* the end of a block follows from what is recorded for its predecessors,  *)
(* what has been rewritten was rewritten with the facts at it, and the     *)
(* facts at the item to execute next hold in both lanes, which agree       *)
(* (global_cp.py 52-246).                                                  *)
THEOREM Invariant == Spec => [](items \in Inputs /\ (InView(items) => IInv))
<1> DEFINE V == items \in Inputs /\ (InView(items) => IInv)
<1>1. Init => V
  BY InitHolds DEF Init
<1>2. V /\ [Next]_vars => V'
  <2> SUFFICES ASSUME V, [Next]_vars PROVE V'
    OBVIOUS
  <2>1. items' = items
    BY DEF Next, Visit, NextRound, FlowEnds, Rewrite, Rewrote, Execute, Halt, vars
  <2>2. ASSUME InView(items) PROVE IInv'
    <3>1. IInv
      BY <2>2
    <3> HIDE DEF V
    <3> QED BY <2>2, <3>1, VisitStep, RewriteStep, ExecuteStep, OtherSteps DEF Next
  <2> QED BY <2>1, <2>2
<1> QED BY <1>1, <1>2, PTL DEF Spec

(* Wherever control arrives at a block, by whatever path, the constants    *)
(* taken for granted there are in their registers, at whatever round the   *)
(* iteration stopped (global_cp.py 71-104, 147-170).                       *)
THEOREM EntryConstantsHoldHolds == Spec => [](InView(items) => EntryConstantsHold)
<1>1. ASSUME items \in Inputs, InView(items), IInv PROVE EntryConstantsHold
  <2> SUFFICES ASSUME phase = "run", pc \in Blocks,
                      NEW r \in Reg, EntryConstants(pc)[r] # <<>>
               PROVE  src.reg[r] = EntryConstants(pc)[r][2]
    BY DEF EntryConstantsHold
  <2>1. Accepted(items) /\ pc \in DOMAIN items /\ pc # Past
    <3>1. Accepted(items)
      BY <1>1, InputFacts
    <3> QED BY <3>1, AcceptedFacts DEF Blocks, Past
  <2>2. HoldsIn(FactsAt(items, constsOut, pc), src)
    BY <1>1, <2>1 DEF IInv, RunInv
  <2>3. FactsAt(items, constsOut, pc) = EntryConstants(pc)
    BY <2>1, FactsAlong, Unfolded DEF Blocks
  <2> QED BY <2>2, <2>3 DEF HoldsIn
<1> QED BY <1>1, Invariant, PTL

(* No rewriting is ever noticed: the lane that executes the rewritten      *)
(* items is always in the state of the one that executes the items as they *)
(* were (global_cp.py 106-137, 173-246).                                   *)
THEOREM SameStateHolds == Spec => [](InView(items) => SameState)
<1>1. ASSUME items \in Inputs, InView(items), IInv PROVE SameState
  BY <1>1 DEF IInv, RunInv, SameState
<1> QED BY <1>1, Invariant, PTL

-----------------------------------------------------------------------------
(* The rounds.  A block that was visited without change since the round    *)
(* began still follows from its predecessors, and a round that changes     *)
(* anything makes something known that was not.                            *)

Learned == {c \in Blocks \X Reg : constsOut[c[1]][c[2]] # <<>>}

RoundsInv ==
    /\ constsOut = [b \in Blocks |-> constsOut[b]]
    /\ round \in 1..MaxRounds /\ changed \in BOOLEAN
    /\ ~ changed => \A b \in Blocks :
           phase # "flow" \/ b < at => constsOut[b] = ExitConstants(b)
    /\ phase # "flow" => ~ changed \/ round = MaxRounds
    /\ IsFiniteSet(Reg) =>
           round <= Cardinality(Learned) + (IF changed THEN 0 ELSE 1)

(* What was learned is finite, and a block that knows more than before has *)
(* learned something.                                                      *)
LEMMA LearnedFacts ==
  ASSUME IsFiniteSet(Reg), IsFiniteSet(Blocks)
  PROVE  /\ Cardinality(Learned) \in Nat
         /\ Cardinality(Blocks \X Reg) \in Nat
         /\ Cardinality(Learned) <= Cardinality(Blocks \X Reg)
<1>1. IsFiniteSet(Blocks \X Reg)
  BY FS_Product
<1>2. Learned \subseteq Blocks \X Reg
  BY DEF Learned
<1> QED BY <1>1, <1>2, FS_Subset, FS_CardinalityType

(* What a block passes on depends on the kernel and what is recorded.      *)
LEMMA SameExit ==
  ASSUME items' = items, constsOut' = constsOut
  PROVE  \A b : (ExitConstants(b))' = ExitConstants(b)
<1>1. ASSUME NEW b PROVE (ExitConstants(b))' = ExitConstants(b)
  <2>1. (EntryConstants(b))' = EntryConstants(b)
    BY DEF EntryConstants
  <2> QED BY <2>1 DEF ExitConstants
<1> QED BY <1>1

(* Before the first round nothing has been visited.                        *)
LEMMA RoundsInit == Init => RoundsInv
<1> SUFFICES ASSUME Init PROVE RoundsInv
  OBVIOUS
<1>1. /\ phase = "flow" /\ round = 1 /\ at = 1 /\ changed = FALSE
      /\ constsOut = [b \in Blocks |-> NoConstants] /\ Accepted(items)
  BY InputFacts DEF Init, Blocks
<1>2. Blocks \subseteq Nat \ {0} /\ IsFiniteSet(Blocks)
  BY <1>1, AcceptedFacts DEF Blocks
<1>3. IsFiniteSet(Reg) => Cardinality(Learned) \in Nat
  BY <1>2, LearnedFacts
<1>4. \A b \in Blocks : ~ (b < at)
  BY <1>1, <1>2
<1>5. constsOut = [b \in Blocks |-> constsOut[b]]
  BY <1>1
<1>6. round \in 1..MaxRounds /\ changed = FALSE /\ phase = "flow" /\ round = 1
  BY <1>1, RoundsAssumption
<1>7. IsFiniteSet(Reg) => round <= Cardinality(Learned) + (IF changed THEN 0 ELSE 1)
  BY <1>3, <1>6
<1> QED BY <1>4, <1>5, <1>6, <1>7 DEF RoundsInv

(* A visit changes what is recorded for its block, and then something is   *)
(* known that was not, or it changes nothing.                              *)
LEMMA VisitRounds ==
  ASSUME IInv, InView(items), RoundsInv, Visit
  PROVE  RoundsInv'
<1> DEFINE X == constsOut
           Y == constsOut'
<1>1. /\ Accepted(items) /\ at \in Blocks /\ Blocks' = Blocks /\ phase = "flow"
      /\ items' = items /\ phase' = phase /\ round' = round
      /\ changed' = (changed \/ Y[at] # X[at])
      /\ at' = EndOf(at, items) + 1
  BY InputFacts DEF IInv, FlowInv, Visit, apply, run, Blocks, Past
<1>2. Blocks \subseteq Nat \ {0} /\ IsFiniteSet(Blocks)
  BY <1>1, AcceptedFacts DEF Blocks
<1>3. X = [b \in Blocks |-> X[b]] /\ Y = [X EXCEPT ![at] = ExitOf(items, X, at)]
  BY Unfolded DEF Visit, RoundsInv
<1>4. /\ Y = [b \in Blocks |-> Y[b]] /\ Y[at] = ExitOf(items, X, at)
      /\ \A b \in Blocks : b # at => Y[b] = X[b]
  BY <1>1, <1>3
<1> HIDE DEF X, Y
<1>5. Y[at] = X[at] => Y = X
  BY <1>3, <1>4
<1>6. ~ changed' => \A b \in Blocks : b < at' => Y[b] = (ExitConstants(b))'
  <2> SUFFICES ASSUME ~ changed', NEW b \in Blocks, b < at'
               PROVE  Y[b] = (ExitConstants(b))'
    OBVIOUS
  <2>1. ~ changed /\ Y = X
    BY <1>1, <1>5 DEF RoundsInv
  <2>2. (ExitConstants(b))' = ExitConstants(b)
    BY <1>1, <2>1, SameExit DEF X, Y
  <2>3. b <= at
    <3>1. EndOf(at, items) \in at..Len(items) /\ Len(items) \in Nat
          /\ \A k \in (at + 1)..EndOf(at, items) : k \notin Blocks
      BY <1>1, EndFacts, AcceptedFacts DEF Accepted, Blocks
    <3> QED BY <1>1, <1>2, <3>1
  <2>4. CASE b = at
    BY <1>4, <2>1, <2>2, <2>4, Unfolded DEF X
  <2>5. CASE b # at
    <3>1. b < at
      BY <1>1, <1>2, <2>3, <2>5
    <3> QED BY <1>1, <2>1, <2>2, <3>1 DEF RoundsInv, X
  <2> QED BY <2>4, <2>5
<1>7. ASSUME IsFiniteSet(Reg)
      PROVE  round <= Cardinality(Learned') + (IF changed' THEN 0 ELSE 1)
  <2>1. /\ IsFiniteSet(Blocks \X Reg) /\ Learned \subseteq Blocks \X Reg
        /\ Learned' \subseteq Blocks \X Reg
    BY <1>1, <1>2, <1>7, FS_Product DEF Learned
  <2>2. Below(X[at], Y[at]) /\ OfRegisters(X[at]) /\ OfRegisters(Y[at])
    <3>1. Below(X[at], ExitOf(items, X, at)) /\ OfRegisters(X[at])
      BY <1>1 DEF IInv, FlowInv, Founded, X
    <3>2. OfRegisters(Y[at])
      <4>1. IInv'
        BY VisitStep
      <4> QED BY <1>1, <4>1 DEF IInv, FlowInv, Y
    <3> QED BY <1>4, <3>1, <3>2
  <2>3. Learned \subseteq Learned'
    <3> SUFFICES ASSUME NEW b \in Blocks, NEW r \in Reg, X[b][r] # <<>>
                 PROVE  Y[b][r] # <<>>
      BY <1>1 DEF Learned, X, Y
    <3> QED BY <1>4, <2>2 DEF Below
  <2>4. /\ Cardinality(Learned) \in Nat /\ Cardinality(Learned') \in Nat
        /\ IsFiniteSet(Learned) /\ IsFiniteSet(Learned')
        /\ Cardinality(Learned) <= Cardinality(Learned')
        /\ Cardinality(Learned) = Cardinality(Learned') => Learned = Learned'
    BY <2>1, <2>3, FS_Subset, FS_CardinalityType
  <2>5. CASE Y[at] # X[at]
    <3>1. PICK r \in Reg : Y[at][r] # X[at][r]
      BY <2>2, <2>5 DEF OfRegisters
    <3>2. X[at][r] = <<>> /\ Y[at][r] # <<>>
      BY <2>2, <3>1 DEF Below
    <3>3. <<at, r>> \in Learned' /\ <<at, r>> \notin Learned
      BY <1>1, <3>2 DEF Learned, X, Y
    <3>4. Cardinality(Learned) < Cardinality(Learned')
      BY <2>4, <3>3
    <3> QED BY <1>1, <1>7, <2>4, <2>5, <3>4 DEF RoundsInv
  <2>6. CASE Y[at] = X[at]
    BY <1>1, <1>7, <2>4, <2>6 DEF RoundsInv
  <2> QED BY <2>5, <2>6
<1>8. changed' \in BOOLEAN /\ round' \in 1..MaxRounds
  BY <1>1 DEF RoundsInv
<1> QED BY <1>1, <1>4, <1>6, <1>7, <1>8 DEF RoundsInv, Y

(* The other steps record nothing.  A round begins only after one that has *)
(* changed something, and the last has not, unless it was the last allowed.*)
LEMMA OtherRounds ==
  ASSUME IInv, RoundsInv, NextRound \/ FlowEnds \/ Rewrite \/ Rewrote \/ Execute \/ Halt
                          \/ UNCHANGED vars
  PROVE  RoundsInv'
<1>1. /\ items' = items /\ constsOut' = constsOut /\ Blocks' = Blocks
      /\ Learned' = Learned
      /\ \A b : (ExitConstants(b))' = ExitConstants(b)
  <2>1. items' = items /\ constsOut' = constsOut
    BY DEF NextRound, FlowEnds, Rewrite, Rewrote, Execute, Halt, vars, flow
  <2> QED BY <2>1, SameExit DEF Blocks, Learned
<1>2. /\ Accepted(items) /\ Blocks \subseteq 1..Len(items) /\ Len(items) \in Nat
      /\ IsFiniteSet(Blocks)
  BY InputFacts, AcceptedFacts DEF IInv, Blocks
<1>3. CASE NextRound
  <2>1. /\ phase' = phase /\ phase = "flow" /\ changed /\ round < MaxRounds
        /\ round' = round + 1 /\ at' = 1 /\ ~ changed' /\ changed' \in BOOLEAN
    BY <1>3 DEF NextRound
  <2>2. \A b \in Blocks : ~ (b < at')
    BY <1>2, <2>1
  <2>3. IsFiniteSet(Reg) => Cardinality(Learned) \in Nat
    BY <1>2, LearnedFacts
  <2> QED BY <1>1, <2>1, <2>2, <2>3, RoundsAssumption DEF RoundsInv
<1>4. CASE FlowEnds
  <2>1. /\ phase = "flow" /\ phase' = "apply" /\ at = Past
        /\ ~ changed \/ round = MaxRounds
        /\ round' = round /\ changed' = changed
    BY <1>4 DEF FlowEnds, flow
  <2>2. \A b \in Blocks : b < at
    BY <1>2, <2>1 DEF Past
  <2> QED BY <1>1, <2>1, <2>2 DEF RoundsInv
<1>5. CASE Rewrite \/ Rewrote \/ Execute \/ Halt \/ UNCHANGED vars
  <2>1. /\ round' = round /\ changed' = changed /\ at' = at
        /\ phase' = "flow" <=> phase = "flow"
    BY <1>5 DEF Rewrite, Rewrote, Execute, Halt, vars, flow
  <2> QED BY <1>1, <2>1 DEF RoundsInv
<1> QED BY <1>3, <1>4, <1>5

(* For the kernels the pass has in view: what the rounds have done so far. *)
THEOREM RoundsInvariant == Spec => [](InView(items) => RoundsInv)
<1> DEFINE V == items \in Inputs /\ (InView(items) => IInv)
           U == InView(items) => RoundsInv
<1>1. Init => U
  BY RoundsInit
<1>2. V /\ U /\ [Next]_vars => U'
  <2> SUFFICES ASSUME V, U, [Next]_vars PROVE U'
    OBVIOUS
  <2>1. items' = items
    BY DEF Next, Visit, NextRound, FlowEnds, Rewrite, Rewrote, Execute, Halt, vars
  <2>2. ASSUME InView(items) PROVE RoundsInv'
    <3>1. IInv /\ RoundsInv
      BY <2>2
    <3> HIDE DEF V, U
    <3> QED BY <2>2, <3>1, VisitRounds, OtherRounds DEF Next
  <2> QED BY <2>1, <2>2
<1> QED BY <1>1, <1>2, Invariant, PTL DEF Spec

(* When the iteration ends with a round to spare, or with one that changed *)
(* nothing, another would change nothing.  And when more rounds are allowed*)
(* than there are facts to learn, one for each register at each block, it  *)
(* always ends so (global_cp.py 66-104).                                   *)
THEOREM ConvergedHolds ==
    Spec => [](InView(items)
                 /\ (\/ ~ changed
                     \/ round < MaxRounds
                     \/ IsFiniteSet(Reg) /\ Cardinality(Blocks \X Reg) < MaxRounds)
               => Converged)
<1>1. ASSUME items \in Inputs, RoundsInv,
             \/ ~ changed
             \/ round < MaxRounds
             \/ IsFiniteSet(Reg) /\ Cardinality(Blocks \X Reg) < MaxRounds
      PROVE  Converged
  <2> SUFFICES ASSUME phase # "flow" PROVE ~ changed
    BY <1>1 DEF RoundsInv, Converged
  <2> SUFFICES ASSUME changed, IsFiniteSet(Reg), Cardinality(Blocks \X Reg) < MaxRounds,
                      round = MaxRounds
               PROVE  FALSE
    BY <1>1, RoundsAssumption DEF RoundsInv
  <2>1. IsFiniteSet(Blocks)
    BY <1>1, InputFacts, AcceptedFacts DEF Blocks
  <2> QED BY <1>1, <2>1, LearnedFacts, RoundsAssumption DEF RoundsInv
<1> QED BY <1>1, RoundsInvariant, Invariant, PTL

=============================================================================
