-------------------------- MODULE LinearScanProofs --------------------------
(***************************************************************************)
(* Proofs about LinearScan, for every number of registers and every sorted *)
(* sequence of intervals.                                                  *)
(*                                                                         *)
(* The argument.  Until the fallback runs, the free list and the active    *)
(* entries share no register and together hold all of 1..MaxGpr (Apart,    *)
(* Whole), and every register that an interval still needs has an active   *)
(* entry with the interval's last use (Covered).  A register taken from    *)
(* the free list therefore belongs to no interval that overlaps the new    *)
(* one.                                                                    *)
(***************************************************************************)
EXTENDS LinearScan, SequenceTheorems, FiniteSetTheorems, TLAPS

Inj(s) == \A i, j \in DOMAIN s : s[i] = s[j] => i = j
Elems(s) == {s[k] : k \in DOMAIN s}
OnePhys(s) == \A i, j \in DOMAIN s : s[i].phys = s[j].phys => i = j
Phys(s) == {s[k].phys : k \in DOMAIN s}

EntrySet == [last : Nat, phys : 0..MaxGpr]

-----------------------------------------------------------------------------
(* The inductive invariant.                                                *)

TInv == Sorted(intervals) /\ TypeOK

Apart == /\ Inj(free)
         /\ OnePhys(active)
         /\ OnePhys(still)
         /\ Elems(free) \cap Phys(active) = {}
         /\ Elems(free) \cap Phys(still) = {}
         /\ Phys(active) \cap Phys(still) = {}

Whole == Elems(free) \cup Phys(active) \cup Phys(still) = 1..MaxGpr

(* An interval that has its registers keeps an entry for each until it     *)
(* ends.                                                                   *)
Covered == \A u \in 1..(v - 1) : \A p \in Regs(u) :
    \/ [last |-> intervals[u].last, phys |-> p] \in Elems(active) \cup Elems(still)
    \/ \A w \in Vregs : w >= v => intervals[u].last < intervals[w].first

(* An entry belongs to an interval that was given its register.            *)
Owned == \A e \in Elems(active) \cup Elems(still) :
    \E u \in 1..(v - 1) : e.phys \in Regs(u) /\ e.last = intervals[u].last

StillLive == v \in Vregs => \A e \in Elems(still) : e.last >= intervals[v].first

Ahead == \A u \in Vregs : u >= v => mapping[u] = None

Unshared == \A t, u \in Vregs :
    t # u /\ Overlap(intervals[t], intervals[u]) => Regs(t) \cap Regs(u) = {}

Within == \A u \in Vregs : Regs(u) \subseteq 1..MaxGpr

Full == \A u \in 1..(v - 1) :
    ~ intervals[u].pair /\ mapping[u] = None => Taken(u) = 1..MaxGpr

Pooled == Apart /\ Whole /\ Covered /\ Owned /\ StillLive /\ Unshared
            /\ Within /\ Full

IInv == /\ TInv
        /\ Ahead
        /\ PairsAligned
        /\ ~ fellBack => Pooled

-----------------------------------------------------------------------------
(* Facts about lists.                                                      *)

(* Taking the first element of a sequence.                                 *)
LEMMA TailFacts ==
  ASSUME NEW S, NEW s \in Seq(S), s # <<>>
  PROVE  /\ Head(s) \in S /\ Tail(s) \in Seq(S)
         /\ Head(s) = s[1] /\ 1 \in DOMAIN s
         /\ Len(Tail(s)) = Len(s) - 1
         /\ \A k \in DOMAIN Tail(s) : k + 1 \in DOMAIN s /\ Tail(s)[k] = s[k + 1]
         /\ Elems(s) = {Head(s)} \cup Elems(Tail(s))
<1>1. /\ Head(s) \in S /\ Tail(s) \in Seq(S) /\ Head(s) = s[1]
      /\ Len(Tail(s)) = Len(s) - 1 /\ Len(s) \in Nat /\ Len(s) > 0
      /\ DOMAIN s = 1..Len(s) /\ DOMAIN Tail(s) = 1..(Len(s) - 1)
      /\ \A k \in 1..(Len(s) - 1) : Tail(s)[k] = s[k + 1]
  BY HeadTailProperties, EmptySeq
<1>2. \A x \in Elems(s) : x \in {Head(s)} \cup Elems(Tail(s))
  <2> SUFFICES ASSUME NEW k \in 1..Len(s), k # 1
               PROVE  s[k] \in Elems(Tail(s))
    BY <1>1 DEF Elems
  <2>1. k - 1 \in 1..(Len(s) - 1) /\ Tail(s)[k - 1] = s[k]
    BY <1>1
  <2> QED BY <1>1, <2>1 DEF Elems
<1>3. \A x \in {Head(s)} \cup Elems(Tail(s)) : x \in Elems(s)
  BY <1>1 DEF Elems
<1> QED BY <1>1, <1>2, <1>3

(* Adding an element at the end.                                           *)
LEMMA AppendFacts ==
  ASSUME NEW S, NEW s \in Seq(S), NEW x \in S
  PROVE  /\ Append(s, x) \in Seq(S)
         /\ DOMAIN Append(s, x) = 1..(Len(s) + 1)
         /\ DOMAIN s = 1..Len(s) /\ Len(s) \in Nat
         /\ \A k \in 1..Len(s) : Append(s, x)[k] = s[k]
         /\ Append(s, x)[Len(s) + 1] = x
         /\ Elems(Append(s, x)) = Elems(s) \cup {x}
<1>1. /\ Append(s, x) \in Seq(S)
      /\ DOMAIN Append(s, x) = 1..(Len(s) + 1)
      /\ DOMAIN s = 1..Len(s) /\ Len(s) \in Nat
      /\ \A k \in 1..Len(s) : Append(s, x)[k] = s[k]
      /\ Append(s, x)[Len(s) + 1] = x
  OBVIOUS
<1>2. \A y \in Elems(Append(s, x)) : y \in Elems(s) \cup {x}
  BY <1>1 DEF Elems
<1>3. \A y \in Elems(s) \cup {x} : y \in Elems(Append(s, x))
  BY <1>1 DEF Elems
<1> QED BY <1>1, <1>2, <1>3

(* One sequence after another.                                             *)
LEMMA ConcatFacts ==
  ASSUME NEW S, NEW s \in Seq(S), NEW t \in Seq(S)
  PROVE  /\ s \o t \in Seq(S)
         /\ DOMAIN (s \o t) = 1..(Len(s) + Len(t))
         /\ DOMAIN s = 1..Len(s) /\ DOMAIN t = 1..Len(t)
         /\ Len(s) \in Nat /\ Len(t) \in Nat
         /\ \A k \in 1..Len(s) : (s \o t)[k] = s[k]
         /\ \A k \in 1..Len(t) : (s \o t)[Len(s) + k] = t[k]
         /\ Elems(s \o t) = Elems(s) \cup Elems(t)
<1>1. /\ s \o t \in Seq(S)
      /\ DOMAIN (s \o t) = 1..(Len(s) + Len(t))
      /\ DOMAIN s = 1..Len(s) /\ DOMAIN t = 1..Len(t)
      /\ Len(s) \in Nat /\ Len(t) \in Nat
      /\ \A k \in 1..(Len(s) + Len(t)) :
           (s \o t)[k] = IF k <= Len(s) THEN s[k] ELSE t[k - Len(s)]
  BY ConcatProperties
<1>2. \A k \in 1..Len(t) : (s \o t)[Len(s) + k] = t[k]
  BY <1>1
<1>3. \A k \in 1..Len(s) : (s \o t)[k] = s[k]
  BY <1>1
<1>4. \A y \in Elems(s \o t) : y \in Elems(s) \cup Elems(t)
  <2> SUFFICES ASSUME NEW k \in 1..(Len(s) + Len(t))
               PROVE  (s \o t)[k] \in Elems(s) \cup Elems(t)
    BY <1>1 DEF Elems
  <2>1. CASE k <= Len(s)
    BY <2>1, <1>1 DEF Elems
  <2>2. CASE k > Len(s)
    <3>1. k - Len(s) \in 1..Len(t) /\ (s \o t)[k] = t[k - Len(s)]
      BY <2>2, <1>1
    <3> QED BY <3>1, <1>1 DEF Elems
  <2> QED BY <2>1, <2>2, <1>1
<1>5. \A k \in DOMAIN s : s[k] \in Elems(s \o t)
  BY <1>1, <1>3 DEF Elems
<1>6. \A k \in DOMAIN t : t[k] \in Elems(s \o t)
  <2> TAKE k \in DOMAIN t
  <2>1. Len(s) + k \in DOMAIN (s \o t) /\ (s \o t)[Len(s) + k] = t[k]
    BY <1>1, <1>2
  <2> QED BY <2>1 DEF Elems
<1> QED BY SMTT(60), <1>1, <1>2, <1>3, <1>4, <1>5, <1>6 DEF Elems

(* Dropping one position of a list.                                        *)
LEMMA DropFacts ==
  ASSUME NEW S, NEW s \in Seq(S), NEW i \in 1..Len(s)
  PROVE  /\ Drop(s, i) \in Seq(S)
         /\ Len(Drop(s, i)) = Len(s) - 1
         /\ \A k \in 1..(Len(s) - 1) :
              Drop(s, i)[k] = IF k < i THEN s[k] ELSE s[k + 1]
         /\ Inj(s) => Inj(Drop(s, i)) /\ Elems(Drop(s, i)) = Elems(s) \ {s[i]}
<1> DEFINE a == SubSeq(s, 1, i - 1)
           b == SubSeq(s, i + 1, Len(s))
<1>0. Len(s) \in Nat /\ DOMAIN s = 1..Len(s) /\ \A k \in 1..Len(s) : s[k] \in S
  OBVIOUS
<1>1. a \in Seq(S) /\ Len(a) = i - 1 /\ \A k \in 1..(i - 1) : a[k] = s[k]
  <2>1. 1 \in 1..(Len(s) + 1) /\ i - 1 \in 0..Len(s)
    BY <1>0
  <2>2. \A k \in 1..(i - 1) : 1 + k - 1 = k
    BY <1>0
  <2> QED BY <2>1, <2>2, <1>0, SubSeqProperties
<1>2. b \in Seq(S) /\ Len(b) = Len(s) - i /\ \A k \in 1..(Len(s) - i) : b[k] = s[i + k]
  <2>1. i + 1 \in Int /\ Len(s) \in Int /\ \A k \in (i + 1)..Len(s) : s[k] \in S
    BY <1>0
  <2>2. /\ b \in Seq(S)
        /\ Len(b) = IF i + 1 <= Len(s) THEN Len(s) - (i + 1) + 1 ELSE 0
        /\ \A k \in 1..(Len(s) - (i + 1) + 1) : b[k] = s[i + 1 + k - 1]
    BY <2>1, SubSeqProperties
  <2>3. /\ Len(s) - (i + 1) + 1 = Len(s) - i
        /\ (IF i + 1 <= Len(s) THEN Len(s) - i ELSE 0) = Len(s) - i
    <3>1. \A n \in Nat : \A m \in 1..n :
             /\ n - (m + 1) + 1 = n - m
             /\ (IF m + 1 <= n THEN n - m ELSE 0) = n - m
      BY SMTT(60)
    <3> QED BY <3>1, <1>0
  <2>5. b \in Seq(S) /\ Len(b) = Len(s) - i
    BY <2>2, <2>3
  <2>4. \A k \in 1..(Len(s) - i) : i + 1 + k - 1 = i + k
    BY <1>0
  <2>6. \A k \in 1..(Len(s) - i) : b[k] = s[i + k]
    <3> HIDE DEF b
    <3> SUFFICES ASSUME NEW k \in 1..(Len(s) - i) PROVE b[k] = s[i + k]
      BY SMTT(60)
    <3>1. b[k] = s[i + 1 + k - 1]
      BY <2>2, <2>3
    <3> QED BY <3>1, <2>4
  <2> QED BY <2>5, <2>6
<1>3. Drop(s, i) = a \o b
  BY DEF Drop
<1> HIDE DEF a, b
<1>4. /\ a \o b \in Seq(S) /\ DOMAIN (a \o b) = 1..(Len(s) - 1)
      /\ Len(a \o b) = Len(s) - 1
      /\ \A k \in 1..(i - 1) : (a \o b)[k] = a[k]
      /\ \A k \in 1..(Len(s) - i) : (a \o b)[(i - 1) + k] = b[k]
  <2>1. Len(a) + Len(b) = Len(s) - 1
    BY <1>0, <1>1, <1>2
  <2>2. /\ a \o b \in Seq(S) /\ DOMAIN (a \o b) = 1..(Len(a) + Len(b))
        /\ \A k \in 1..Len(a) : (a \o b)[k] = a[k]
        /\ \A k \in 1..Len(b) : (a \o b)[Len(a) + k] = b[k]
    <3>1. a \in Seq(S) /\ b \in Seq(S)
      BY <1>1, <1>2
    <3> QED BY <3>1, ConcatFacts
  <2>3. Len(a \o b) = Len(a) + Len(b)
    BY <1>1, <1>2, ConcatProperties
  <2> QED BY <2>1, <2>2, <2>3, <1>1, <1>2
<1>5. \A k \in 1..(Len(s) - 1) :
        Drop(s, i)[k] = IF k < i THEN s[k] ELSE s[k + 1]
  <2> TAKE k \in 1..(Len(s) - 1)
  <2>1. CASE k < i
    <3>1. k \in 1..(i - 1)
      BY <2>1, <1>0
    <3> QED BY <3>1, <2>1, <1>1, <1>3, <1>4
  <2>2. CASE ~ (k < i)
    <3> DEFINE m == k - (i - 1)
    <3>1. m \in 1..(Len(s) - i) /\ i + m = k + 1 /\ (i - 1) + m = k
      BY <2>2, <1>0
    <3> HIDE DEF m
    <3>2. (a \o b)[k] = b[m] /\ b[m] = s[k + 1]
      BY <3>1, <1>2, <1>4
    <3> QED BY <3>2, <2>2, <1>3
  <2> QED BY <2>1, <2>2
<1>6. ASSUME Inj(s)
      PROVE  Inj(Drop(s, i)) /\ Elems(Drop(s, i)) = Elems(s) \ {s[i]}
  <2>1. DOMAIN Drop(s, i) = 1..(Len(s) - 1)
    BY <1>3, <1>4
  <2>2. Inj(Drop(s, i))
    <3> DEFINE at(k) == IF k < i THEN k ELSE k + 1
    <3> SUFFICES ASSUME NEW k \in 1..(Len(s) - 1), NEW l \in 1..(Len(s) - 1),
                        Drop(s, i)[k] = Drop(s, i)[l]
                 PROVE  k = l
      BY <2>1 DEF Inj
    <3>1. /\ at(k) \in DOMAIN s /\ at(l) \in DOMAIN s
          /\ at(k) = at(l) => k = l
      BY <1>0
    <3>2. Drop(s, i)[k] = s[at(k)] /\ Drop(s, i)[l] = s[at(l)]
      BY <1>5
    <3> HIDE DEF at
    <3> QED BY <3>1, <3>2, <1>6 DEF Inj
  <2>3. \A x \in Elems(Drop(s, i)) : x \in Elems(s) \ {s[i]}
    BY <1>0, <1>5, <1>6, <2>1 DEF Inj, Elems
  <2>4. ASSUME NEW k \in 1..Len(s), k # i
        PROVE  s[k] \in Elems(Drop(s, i))
    <3>1. CASE k < i
      BY SMTT(60), <3>1, <1>0, <1>5, <2>1 DEF Elems
    <3>2. CASE k > i
      <4>1. k - 1 \in 1..(Len(s) - 1) /\ Drop(s, i)[k - 1] = s[k]
        BY <3>2, <1>0, <1>5
      <4> QED BY <4>1, <2>1 DEF Elems
    <3> QED BY <3>1, <3>2, <2>4, <1>0
  <2> QED BY <1>0, <2>2, <2>3, <2>4 DEF Elems
<1> QED BY SMTT(60), <1>3, <1>4, <1>5, <1>6

(* The same facts, for lists without duplicates.                           *)
LEMMA AppendInj ==
  ASSUME NEW S, NEW s \in Seq(S), NEW x \in S, Inj(s), x \notin Elems(s)
  PROVE  Inj(Append(s, x))
<1>1. /\ DOMAIN Append(s, x) = 1..(Len(s) + 1)
      /\ DOMAIN s = 1..Len(s) /\ Len(s) \in Nat
      /\ \A k \in 1..Len(s) : Append(s, x)[k] = s[k]
      /\ Append(s, x)[Len(s) + 1] = x
  BY AppendFacts
<1>2. \A k \in 1..Len(s) : s[k] # x
  BY <1>1 DEF Elems
<1>3. \A i, j \in 1..Len(s) : s[i] = s[j] => i = j
  BY <1>1 DEF Inj
<1> QED BY <1>1, <1>2, <1>3 DEF Inj

(* Taking the last element.                                                *)
LEMMA FrontFacts ==
  ASSUME NEW S, NEW s \in Seq(S), s # <<>>
  PROVE  /\ Front(s) \in Seq(S) /\ Back(s) \in S /\ Back(s) \in Elems(s)
         /\ Inj(s) => Inj(Front(s)) /\ Elems(Front(s)) = Elems(s) \ {Back(s)}
<1>1. Len(s) \in Nat /\ Len(s) > 0 /\ DOMAIN s = 1..Len(s)
      /\ \A k \in 1..Len(s) : s[k] \in S
  BY EmptySeq
<1>2. \A k \in 1..(Len(s) - 1) : s[k] \in S
  BY <1>1
<1>3. /\ Front(s) \in Seq(S)
      /\ Len(Front(s)) = IF 1 <= Len(s) - 1 THEN Len(s) - 1 - 1 + 1 ELSE 0
      /\ \A k \in 1..(Len(s) - 1 - 1 + 1) : Front(s)[k] = s[1 + k - 1]
  <2>1. 1 \in Int /\ Len(s) - 1 \in Int
    BY <1>1
  <2> QED BY <1>2, <2>1, SubSeqProperties DEF Front
<1>4. Len(Front(s)) = Len(s) - 1 /\ DOMAIN Front(s) = 1..(Len(s) - 1)
  <2>1. Len(s) - 1 - 1 + 1 = Len(s) - 1
        /\ (IF 1 <= Len(s) - 1 THEN Len(s) - 1 ELSE 0) = Len(s) - 1
    BY SMTT(60), <1>1
  <2>2. Len(Front(s)) = Len(s) - 1
    BY <1>3, <2>1
  <2> QED BY <2>2, <1>3
<1>5. \A k \in 1..(Len(s) - 1) : Front(s)[k] = s[k]
  <2> TAKE k \in 1..(Len(s) - 1)
  <2>1. k \in 1..(Len(s) - 1 - 1 + 1) /\ 1 + k - 1 = k
    BY <1>1
  <2> QED BY <2>1, <1>3
<1>6. Back(s) \in S /\ Back(s) \in Elems(s) /\ Back(s) = s[Len(s)] /\ Len(s) \in 1..Len(s)
  BY <1>1 DEF Back, Elems
<1>7. ASSUME Inj(s)
      PROVE  Inj(Front(s)) /\ Elems(Front(s)) = Elems(s) \ {Back(s)}
  <2>1. Inj(Front(s))
    BY <1>1, <1>4, <1>5, <1>7 DEF Inj
  <2>2. \A x \in Elems(Front(s)) : x \in Elems(s) \ {Back(s)}
    BY <1>1, <1>4, <1>5, <1>6, <1>7 DEF Inj, Elems
  <2>3. \A x \in Elems(s) \ {Back(s)} : x \in Elems(Front(s))
    BY <1>1, <1>4, <1>5, <1>6 DEF Elems
  <2> QED BY <2>1, <2>2, <2>3
<1> QED BY <1>3, <1>6, <1>7

(* Taking two elements, the later one first.                               *)
LEMMA DropTwoFacts ==
  ASSUME NEW S, NEW s \in Seq(S), NEW i \in 1..Len(s), NEW j \in 1..Len(s),
         j < i, Inj(s)
  PROVE  /\ Drop(Drop(s, i), j) \in Seq(S)
         /\ Inj(Drop(Drop(s, i), j))
         /\ Elems(Drop(Drop(s, i), j)) = Elems(s) \ {s[i], s[j]}
<1> DEFINE t == Drop(s, i)
<1>1. /\ t \in Seq(S) /\ Len(t) = Len(s) - 1
      /\ \A k \in 1..(Len(s) - 1) : t[k] = IF k < i THEN s[k] ELSE s[k + 1]
      /\ Inj(t) /\ Elems(t) = Elems(s) \ {s[i]}
  BY DropFacts
<1>2. Len(s) \in Nat
  OBVIOUS
<1> HIDE DEF t
<1>3. j \in 1..(Len(s) - 1)
  BY <1>2
<1>4. j \in 1..Len(t) /\ t[j] = s[j]
  BY <1>1, <1>3
<1>5. /\ Drop(t, j) \in Seq(S) /\ Inj(Drop(t, j))
      /\ Elems(Drop(t, j)) = Elems(t) \ {t[j]}
  <2>1. t \in Seq(S) /\ j \in 1..Len(t)
    BY <1>1, <1>4
  <2>2. /\ Drop(t, j) \in Seq(S)
        /\ Inj(t) => Inj(Drop(t, j)) /\ Elems(Drop(t, j)) = Elems(t) \ {t[j]}
    BY <2>1, DropFacts
  <2> QED BY <2>2, <1>1
<1>6. Elems(Drop(t, j)) = Elems(s) \ {s[i], s[j]}
  BY <1>1, <1>4, <1>5
<1> QED BY <1>5, <1>6 DEF t

(* And for lists of entries.                                               *)
LEMMA TailPhys ==
  ASSUME NEW s \in Seq(EntrySet), s # <<>>, OnePhys(s)
  PROVE  /\ Phys(s) = {Head(s).phys} \cup Phys(Tail(s))
         /\ Head(s).phys \notin Phys(Tail(s))
         /\ OnePhys(Tail(s))
<1>1. /\ Head(s) \in EntrySet /\ Tail(s) \in Seq(EntrySet)
      /\ Head(s) = s[1] /\ 1 \in DOMAIN s
      /\ \A k \in DOMAIN Tail(s) : k + 1 \in DOMAIN s /\ Tail(s)[k] = s[k + 1]
      /\ Elems(s) = {Head(s)} \cup Elems(Tail(s))
  BY TailFacts
<1>2. DOMAIN Tail(s) = 1..Len(Tail(s)) /\ Len(Tail(s)) \in Nat
  BY <1>1
<1> HIDE DEF Elems
<1>3. Phys(s) = {e.phys : e \in Elems(s)} /\ Phys(Tail(s)) = {e.phys : e \in Elems(Tail(s))}
  BY DEF Phys, Elems
<1>4. Phys(s) = {Head(s).phys} \cup Phys(Tail(s))
  <2>1. Elems(s) = {Head(s)} \cup Elems(Tail(s))
    BY <1>1
  <2> QED BY <2>1, <1>3, Zenon
<1>5. \A k \in DOMAIN Tail(s) : Tail(s)[k].phys # Head(s).phys
  <2> TAKE k \in DOMAIN Tail(s)
  <2>1. k + 1 \in DOMAIN s /\ Tail(s)[k] = s[k + 1] /\ k + 1 # 1
    BY <1>1, <1>2
  <2> QED BY <2>1, <1>1 DEF OnePhys
<1>6. OnePhys(Tail(s))
  <2> SUFFICES ASSUME NEW i \in DOMAIN Tail(s), NEW j \in DOMAIN Tail(s),
                      Tail(s)[i].phys = Tail(s)[j].phys
               PROVE  i = j
    BY DEF OnePhys
  <2>1. i + 1 = j + 1
    BY <1>1 DEF OnePhys
  <2> QED BY <2>1, <1>2
<1> QED BY <1>4, <1>5, <1>6 DEF Phys

(* An entry in a register that no other entry has.                         *)
LEMMA AppendPhys ==
  ASSUME NEW s \in Seq(EntrySet), NEW e \in EntrySet, OnePhys(s),
         e.phys \notin Phys(s)
  PROVE  OnePhys(Append(s, e)) /\ Phys(Append(s, e)) = Phys(s) \cup {e.phys}
<1>1. /\ DOMAIN Append(s, e) = 1..(Len(s) + 1)
      /\ DOMAIN s = 1..Len(s) /\ Len(s) \in Nat
      /\ \A k \in 1..Len(s) : Append(s, e)[k] = s[k]
      /\ Append(s, e)[Len(s) + 1] = e
      /\ Elems(Append(s, e)) = Elems(s) \cup {e}
  BY AppendFacts
<1>2. Phys(Append(s, e)) = {x.phys : x \in Elems(s) \cup {e}}
      /\ Phys(s) = {x.phys : x \in Elems(s)}
  BY <1>1 DEF Phys, Elems
<1>3. \A k \in 1..Len(s) : s[k].phys # e.phys
  BY <1>1 DEF Phys
<1>4. \A i, j \in 1..Len(s) : s[i].phys = s[j].phys => i = j
  BY <1>1 DEF OnePhys
<1>5. OnePhys(Append(s, e))
  BY <1>1, <1>3, <1>4 DEF OnePhys
<1> QED BY <1>2, <1>5

(* Lists of entries that share no register.                                *)
LEMMA ConcatPhys ==
  ASSUME NEW s \in Seq(EntrySet), NEW t \in Seq(EntrySet),
         OnePhys(s), OnePhys(t), Phys(s) \cap Phys(t) = {}
  PROVE  OnePhys(s \o t) /\ Phys(s \o t) = Phys(s) \cup Phys(t)
<1>1. /\ DOMAIN (s \o t) = 1..(Len(s) + Len(t))
      /\ DOMAIN s = 1..Len(s) /\ DOMAIN t = 1..Len(t)
      /\ Len(s) \in Nat /\ Len(t) \in Nat
      /\ \A k \in 1..Len(s) : (s \o t)[k] = s[k]
      /\ \A k \in 1..Len(t) : (s \o t)[Len(s) + k] = t[k]
      /\ Elems(s \o t) = Elems(s) \cup Elems(t)
  BY ConcatFacts
<1>2. /\ Phys(s \o t) = {x.phys : x \in Elems(s) \cup Elems(t)}
      /\ Phys(s) = {x.phys : x \in Elems(s)}
      /\ Phys(t) = {x.phys : x \in Elems(t)}
  <2>1. Elems(s \o t) = Elems(s) \cup Elems(t)
    BY <1>1
  <2>2. Phys(s \o t) = {x.phys : x \in Elems(s \o t)}
    BY DEF Phys, Elems
  <2>3. Phys(s) = {x.phys : x \in Elems(s)} /\ Phys(t) = {x.phys : x \in Elems(t)}
    BY DEF Phys, Elems
  <2> QED BY <2>1, <2>2, <2>3
<1>3. \A i \in 1..(Len(s) + Len(t)) :
        i > Len(s) => i - Len(s) \in 1..Len(t) /\ (s \o t)[i] = t[i - Len(s)]
  <2> SUFFICES ASSUME NEW i \in 1..(Len(s) + Len(t)), i > Len(s)
               PROVE  i - Len(s) \in 1..Len(t) /\ (s \o t)[i] = t[i - Len(s)]
    OBVIOUS
  <2>1. i - Len(s) \in 1..Len(t) /\ Len(s) + (i - Len(s)) = i
    BY <1>1
  <2> QED BY <2>1, <1>1
<1>4. \A k \in 1..Len(s), m \in 1..Len(t) : s[k].phys # t[m].phys
  BY <1>1 DEF Phys
<1>5. ASSUME NEW i \in 1..(Len(s) + Len(t)), NEW j \in 1..(Len(s) + Len(t)),
             (s \o t)[i].phys = (s \o t)[j].phys
      PROVE  i = j
  <2>1. CASE i <= Len(s) /\ j <= Len(s)
    BY <2>1, <1>1, <1>5 DEF OnePhys
  <2>2. CASE i > Len(s) /\ j > Len(s)
    <3>1. i - Len(s) = j - Len(s)
      BY SMTT(60), <2>2, <1>1, <1>3, <1>5 DEF OnePhys
    <3> QED BY <3>1, <1>1
  <2>3. CASE i <= Len(s) /\ j > Len(s)
    BY <2>3, <1>1, <1>3, <1>4, <1>5
  <2>4. CASE i > Len(s) /\ j <= Len(s)
    BY <2>4, <1>1, <1>3, <1>4, <1>5
  <2> QED BY <2>1, <2>2, <2>3, <2>4, <1>1
<1>6. OnePhys(s \o t)
  BY <1>1, <1>5 DEF OnePhys
<1> QED BY <1>2, <1>6

-----------------------------------------------------------------------------
(* What the assumption on the inputs says of the intervals of a run.       *)
LEMMA IntervalFacts ==
  ASSUME Sorted(intervals)
  PROVE  /\ Len(intervals) \in Nat
         /\ \A u \in Vregs : /\ intervals[u].first \in Nat
                             /\ intervals[u].last \in Nat
                             /\ intervals[u].pair \in BOOLEAN
                             /\ intervals[u].first <= intervals[u].last
         /\ \A t, u \in Vregs : t < u => intervals[t].first < intervals[u].first
<1>1. intervals \in Seq(Interval)
  BY DEF Sorted
<1>2. Len(intervals) \in Nat /\ \A u \in Vregs : intervals[u] \in Interval
  BY <1>1 DEF Vregs
<1>3. \A u \in Vregs : intervals[u].first <= intervals[u].last
  BY DEF Sorted, Vregs
<1>4. \A t, u \in Vregs : t < u => intervals[t].first < intervals[u].first
  BY DEF Sorted, Vregs
<1> QED BY <1>2, <1>3, <1>4 DEF Interval

(* Before the first interval all registers are free.                       *)
Fresh == /\ Sorted(intervals) /\ v = 1
         /\ free = [k \in 1..MaxGpr |-> MaxGpr + 1 - k]
         /\ active = <<>> /\ still = <<>>
         /\ mapping = [u \in Vregs |-> None]
         /\ fellBack = FALSE
LEMMA FreshIInv == Fresh => IInv
<1> SUFFICES ASSUME Fresh PROVE IInv
  OBVIOUS
<1> USE MaxGprAssumption
<1>1. Len(intervals) \in Nat /\ Sorted(intervals) /\ fellBack = FALSE
  BY IntervalFacts DEF Fresh
<1>2. /\ active = <<>> /\ still = <<>> /\ v = 1
      /\ mapping = [u \in Vregs |-> None]
      /\ \A u \in Vregs : mapping[u] = None /\ Regs(u) = {}
  BY DEF Fresh, Regs
<1>3. /\ free \in [1..MaxGpr -> 0..MaxGpr] /\ DOMAIN free = 1..MaxGpr
      /\ \A k \in 1..MaxGpr : free[k] = MaxGpr + 1 - k
  BY DEF Fresh
<1>4. free \in Seq(0..MaxGpr)
  BY <1>3
<1>5. <<>> \in Seq([last : Nat, phys : 0..MaxGpr])
  OBVIOUS
<1>6. TInv
  <2>1. v \in 1..(Len(intervals) + 1)
    BY <1>1, <1>2
  <2>2. mapping \in [Vregs -> (0..MaxGpr) \cup {None}]
    BY <1>2
  <2> QED BY <2>1, <2>2, <1>1, <1>2, <1>4, <1>5 DEF TInv, TypeOK
<1>7. Elems(free) = 1..MaxGpr
  <2>1. \A p \in 1..MaxGpr : MaxGpr + 1 - p \in 1..MaxGpr
                              /\ free[MaxGpr + 1 - p] = p
    BY <1>3
  <2>2. \A p \in 1..MaxGpr : p \in Elems(free)
    BY <2>1, <1>3 DEF Elems
  <2>3. \A k \in 1..MaxGpr : free[k] \in 1..MaxGpr
    BY <1>3
  <2> QED BY <2>2, <2>3, <1>3 DEF Elems
<1>8. Inj(free)
  BY <1>3 DEF Inj
<1>9. /\ Elems(active) = {} /\ Elems(still) = {}
      /\ Phys(active) = {} /\ Phys(still) = {}
      /\ OnePhys(active) /\ OnePhys(still)
  BY <1>2 DEF Elems, Phys, OnePhys
<1>10. Apart /\ Whole
  BY <1>7, <1>8, <1>9 DEF Apart, Whole
<1>11. Covered /\ Owned /\ StillLive /\ Full
  BY <1>2, <1>9 DEF Covered, Owned, StillLive, Full
<1>12. Ahead /\ PairsAligned /\ Unshared /\ Within
  BY <1>2 DEF Ahead, PairsAligned, Unshared, Within
<1> QED BY <1>6, <1>10, <1>11, <1>12 DEF IInv, Pooled

(* So the scan starts as the invariant says.                               *)
LEMMA InitIInv == Init => IInv
BY FreshIInv, InputsAssumption DEF Init, Fresh

(* What is said of the mapping alone.                                      *)
LEMMA SameMapping ==
  ASSUME Unshared, Within, Full, intervals' = intervals, v' = v,
         mapping' = mapping
  PROVE  Unshared' /\ Within' /\ Full'
<1>1. Vregs' = Vregs
  BY DEF Vregs
<1>2. \A u : Regs(u)' = Regs(u)
  BY DEF Regs
<1>3. \A u : Taken(u)' = Taken(u)
  <2> TAKE u
  <2>1. Taken(u)' = UNION {Regs(t)' : t \in {x \in Vregs' :
                      x < u /\ Overlap(intervals'[x], intervals'[u])}}
    BY DEF Taken
  <2>2. \A x : Overlap(intervals'[x], intervals'[u]) = Overlap(intervals[x], intervals[u])
    OBVIOUS
  <2> QED BY <2>1, <2>2, <1>1, <1>2 DEF Taken
<1>4. Unshared'
  BY <1>1, <1>2 DEF Unshared
<1>5. Within'
  BY <1>1, <1>2 DEF Within
<1>6. Full'
  BY <1>3 DEF Full
<1> QED BY <1>4, <1>5, <1>6

(* Expiring an entry moves its register to the free list.                  *)
LEMMA ExpireStep == IInv /\ Expire => IInv'
<1> SUFFICES ASSUME IInv, Expire PROVE IInv'
  OBVIOUS
<1> DEFINE h == Head(active)
<1>1. /\ v \in Vregs /\ active # <<>> /\ h.last < intervals[v].first
      /\ free' = Append(free, h.phys) /\ active' = Tail(active)
      /\ intervals' = intervals /\ v' = v /\ still' = still
      /\ mapping' = mapping /\ fellBack' = fellBack
  BY DEF Expire
<1>2. /\ Sorted(intervals) /\ free \in Seq(0..MaxGpr)
      /\ active \in Seq(EntrySet) /\ still \in Seq(EntrySet) /\ TypeOK
  BY DEF IInv, TInv, TypeOK, EntrySet
<1>3. /\ h \in EntrySet /\ Tail(active) \in Seq(EntrySet)
      /\ Elems(active) = {h} \cup Elems(Tail(active))
  BY <1>1, <1>2, TailFacts
<1>4. /\ h.phys \in 0..MaxGpr /\ h.last \in Nat
      /\ Append(free, h.phys) \in Seq(0..MaxGpr)
      /\ Elems(Append(free, h.phys)) = Elems(free) \cup {h.phys}
  <2>1. h.phys \in 0..MaxGpr /\ h.last \in Nat
    BY <1>3 DEF EntrySet
  <2>2. free \in Seq(0..MaxGpr)
    BY <1>2
  <2>3. /\ Append(free, h.phys) \in Seq(0..MaxGpr)
        /\ Elems(Append(free, h.phys)) = Elems(free) \cup {h.phys}
    <3> DEFINE Rs == 0..MaxGpr
               p == h.phys
    <3>1. p \in Rs /\ free \in Seq(Rs)
      BY <2>1, <2>2
    <3> HIDE DEF Rs, p
    <3>2. Append(free, p) \in Seq(Rs) /\ Elems(Append(free, p)) = Elems(free) \cup {p}
      BY <3>1, AppendFacts
    <3> QED BY <3>2 DEF Rs, p
  <2> QED BY <2>1, <2>3
<1> HIDE DEF h
<1>5. TInv' /\ Ahead' /\ PairsAligned'
  <2>1. TypeOK'
    BY <1>1, <1>2, <1>3, <1>4 DEF TypeOK, EntrySet, Vregs
  <2> QED BY <2>1, <1>1, <1>2 DEF IInv, TInv, Ahead, PairsAligned, Vregs
<1>6. ASSUME ~ fellBack
      PROVE  Pooled'
  <2>1. Apart /\ Whole /\ Covered /\ Owned /\ StillLive /\ Unshared /\ Within /\ Full
    BY <1>6 DEF IInv, Pooled
  <2>2. /\ Phys(active) = {h.phys} \cup Phys(Tail(active))
        /\ h.phys \notin Phys(Tail(active)) /\ OnePhys(Tail(active))
    BY <2>1, <1>1, <1>2, TailPhys DEF Apart, h
  <2>3. h.phys \notin Elems(free) /\ h.phys \notin Phys(still)
    BY <2>1, <2>2 DEF Apart
  <2>4. Inj(Append(free, h.phys))
    BY <2>1, <2>3, <1>2, <1>4, AppendInj DEF Apart
  <2>5. Apart'
    BY <2>1, <2>2, <2>3, <2>4, <1>1, <1>4 DEF Apart
  <2>6. Whole'
    BY <2>1, <2>2, <1>1, <1>4 DEF Whole
  <2>8. Unshared' /\ Within' /\ Full'
    BY <2>1, <1>1, SameMapping
  <2>9. Owned' /\ StillLive'
    BY ZenonT(60), <2>1, <1>1, <1>3 DEF Owned, StillLive, Regs, Vregs
  <2>10. Covered'
    <3>1. v \in 1..Len(intervals) /\ Len(intervals) \in Nat
          /\ \A w \in Vregs : intervals[w].first \in Nat
          /\ \A t, u \in Vregs : t < u => intervals[t].first < intervals[u].first
      BY <1>1, <1>2, IntervalFacts DEF Vregs
    <3> SUFFICES ASSUME NEW u \in 1..(v - 1), NEW p \in Regs(u)
                 PROVE  \/ [last |-> intervals[u].last, phys |-> p]
                              \in Elems(active') \cup Elems(still)
                        \/ \A w \in Vregs : w >= v =>
                              intervals[u].last < intervals[w].first
      BY <1>1 DEF Covered, Regs, Vregs
    <3>2. CASE [last |-> intervals[u].last, phys |-> p] = h
      <4>1. intervals[u].last = h.last
        BY <3>2
      <4>2. \A w \in Vregs : w >= v => intervals[v].first <= intervals[w].first
        BY <3>1 DEF Vregs
      <4>3. \A w \in Vregs : w >= v => h.last < intervals[w].first
        BY SMTT(60), <4>2, <3>1, <1>1, <1>4
      <4> QED BY <4>1, <4>3
    <3>3. CASE [last |-> intervals[u].last, phys |-> p] # h
      BY <3>3, <2>1, <1>1, <1>3 DEF Covered
    <3> QED BY <3>2, <3>3
  <2> QED BY <2>5, <2>6, <2>8, <2>9, <2>10 DEF Pooled
<1> QED BY <1>1, <1>5, <1>6 DEF IInv

(* Keeping an entry only moves it.                                         *)
LEMMA KeepStep == IInv /\ Keep => IInv'
<1> SUFFICES ASSUME IInv, Keep PROVE IInv'
  OBVIOUS
<1> DEFINE h == Head(active)
<1>1. /\ v \in Vregs /\ active # <<>> /\ h.last >= intervals[v].first
      /\ still' = Append(still, h) /\ active' = Tail(active)
      /\ intervals' = intervals /\ v' = v /\ free' = free
      /\ mapping' = mapping /\ fellBack' = fellBack
  BY DEF Keep
<1>2. /\ Sorted(intervals) /\ free \in Seq(0..MaxGpr)
      /\ active \in Seq(EntrySet) /\ still \in Seq(EntrySet) /\ TypeOK
  BY DEF IInv, TInv, TypeOK, EntrySet
<1>3. /\ h \in EntrySet /\ Tail(active) \in Seq(EntrySet)
      /\ Elems(active) = {h} \cup Elems(Tail(active))
  BY <1>1, <1>2, TailFacts
<1>4. /\ Append(still, h) \in Seq(EntrySet)
      /\ Elems(Append(still, h)) = Elems(still) \cup {h}
  BY <1>2, <1>3, AppendFacts
<1> HIDE DEF h
<1>5. TInv' /\ Ahead' /\ PairsAligned'
  <2>1. TypeOK'
    BY <1>1, <1>2, <1>3, <1>4 DEF TypeOK, EntrySet, Vregs
  <2> QED BY <2>1, <1>1, <1>2 DEF IInv, TInv, Ahead, PairsAligned, Vregs
<1>6. ASSUME ~ fellBack
      PROVE  Pooled'
  <2>1. Apart /\ Whole /\ Covered /\ Owned /\ StillLive /\ Unshared /\ Within /\ Full
    BY <1>6 DEF IInv, Pooled
  <2>2. /\ Phys(active) = {h.phys} \cup Phys(Tail(active))
        /\ h.phys \notin Phys(Tail(active)) /\ OnePhys(Tail(active))
    BY <2>1, <1>1, <1>2, TailPhys DEF Apart, h
  <2>3. h.phys \notin Elems(free) /\ h.phys \notin Phys(still)
    BY <2>1, <2>2 DEF Apart
  <2>4. OnePhys(Append(still, h)) /\ Phys(Append(still, h)) = Phys(still) \cup {h.phys}
    BY <2>1, <2>3, <1>2, <1>3, AppendPhys DEF Apart
  <2>5. Apart'
    BY <2>1, <2>2, <2>3, <2>4, <1>1 DEF Apart
  <2>6. Whole'
    BY <2>1, <2>2, <2>4, <1>1 DEF Whole
  <2>7. Unshared' /\ Within' /\ Full'
    BY <2>1, <1>1, SameMapping
  <2>8. StillLive'
    BY <2>1, <1>1, <1>4 DEF StillLive, Vregs
  <2>9. Elems(active') \cup Elems(still') = Elems(active) \cup Elems(still)
    BY <1>1, <1>3, <1>4
  <2>10. Covered' /\ Owned'
    BY ZenonT(60), <2>1, <2>9, <1>1 DEF Covered, Owned, Regs, Vregs
  <2> QED BY <2>5, <2>6, <2>7, <2>8, <2>10 DEF Pooled
<1> QED BY <1>1, <1>5, <1>6 DEF IInv

-----------------------------------------------------------------------------
(* The steps that assign.  What the interval at v occupies once it has     *)
(* been given base.                                                        *)
Given(base) == IF base = None THEN {}
               ELSE IF intervals[v].pair THEN {base, base + 1} ELSE {base}

(* An aligned base, or none at all.                                        *)
RoomFor(base) == \/ base = None
              \/ /\ base \in 0..MaxGpr
                 /\ intervals[v].pair => base % 2 = 0 /\ base \in 1..(MaxGpr - 1)

(* Whatever it takes, the step keeps the types and the alignment.          *)
LEMMA AdvanceTyped ==
  ASSUME TInv, Ahead, PairsAligned, v \in Vregs, fellBack' \in BOOLEAN,
         NEW base, NEW list \in Seq(0..MaxGpr), NEW taken \in Seq(EntrySet),
         RoomFor(base), Advance(base, list, taken)
  PROVE  TInv' /\ Ahead' /\ PairsAligned'
<1>1. /\ mapping' = [mapping EXCEPT ![v] = base]
      /\ free' = list /\ active' = still \o taken /\ still' = <<>>
      /\ v' = v + 1 /\ intervals' = intervals
  BY DEF Advance
<1>2. /\ Sorted(intervals) /\ Len(intervals) \in Nat /\ v \in 1..Len(intervals)
      /\ still \in Seq(EntrySet) /\ mapping \in [Vregs -> (0..MaxGpr) \cup {None}]
  BY IntervalFacts DEF TInv, TypeOK, EntrySet, Vregs
<1>3. base \in (0..MaxGpr) \cup {None}
  BY DEF RoomFor
<1>4. still \o taken \in Seq(EntrySet) /\ <<>> \in Seq(EntrySet)
  BY <1>2, ConcatProperties
<1>5. Vregs' = Vregs /\ v' \in 1..(Len(intervals) + 1)
  BY <1>1, <1>2 DEF Vregs
<1>6. mapping' \in [Vregs -> (0..MaxGpr) \cup {None}]
  BY <1>1, <1>2, <1>3
<1>7. TInv'
  BY <1>1, <1>2, <1>4, <1>5, <1>6 DEF TInv, TypeOK, EntrySet
<1>8. Ahead'
  <2> SUFFICES ASSUME NEW u \in Vregs, u >= v + 1
               PROVE  mapping'[u] = None
    BY <1>1, <1>5 DEF Ahead
  <2>1. u # v /\ u >= v
    BY <1>2 DEF Vregs
  <2> QED BY <2>1, <1>1, <1>2 DEF Ahead
<1>9. PairsAligned'
  <2> SUFFICES ASSUME NEW u \in Vregs, intervals[u].pair, mapping'[u] # None
               PROVE  mapping'[u] % 2 = 0 /\ mapping'[u] \in 1..(MaxGpr - 1)
    BY <1>1, <1>5 DEF PairsAligned
  <2>1. CASE u = v
    BY <2>1, <1>1, <1>2 DEF RoomFor
  <2>2. CASE u # v
    BY <2>2, <1>1, <1>2 DEF PairsAligned
  <2> QED BY <2>1, <2>2
<1> QED BY <1>7, <1>8, <1>9

(* A step that takes registers off the free list, and no more than that,   *)
(* keeps the pool in order.                                                *)
LEMMA AdvancePooled ==
  ASSUME TInv, Ahead, Pooled, v \in Vregs, active = <<>>,
         NEW base, NEW list \in Seq(0..MaxGpr), NEW taken \in Seq(EntrySet),
         Advance(base, list, taken),
         Given(base) \subseteq Elems(free),
         Inj(list), Elems(list) = Elems(free) \ Given(base),
         OnePhys(taken), Elems(taken) = {Entry(p) : p \in Given(base)},
         ~ intervals[v].pair /\ base = None => Elems(free) = {}
  PROVE  Pooled'
<1> DEFINE G == Given(base)
<1>0. PICK n : n = v
  OBVIOUS
<1>1. /\ mapping' = [mapping EXCEPT ![v] = base]
      /\ free' = list /\ active' = still \o taken /\ still' = <<>>
      /\ v' = v + 1 /\ intervals' = intervals
  BY DEF Advance
<1>2. /\ Len(intervals) \in Nat /\ v \in 1..Len(intervals)
      /\ \A u \in Vregs : /\ intervals[u].first \in Nat
                          /\ intervals[u].last \in Nat
                          /\ intervals[u].first <= intervals[u].last
      /\ \A t, u \in Vregs : t < u => intervals[t].first < intervals[u].first
  BY IntervalFacts DEF TInv, Vregs
<1>3. still \in Seq(EntrySet) /\ mapping \in [Vregs -> (0..MaxGpr) \cup {None}]
  BY DEF TInv, TypeOK, EntrySet
<1>4. Apart /\ Whole /\ Covered /\ Owned /\ StillLive /\ Unshared /\ Within /\ Full
  BY DEF Pooled
<1>5. /\ Elems(active) = {} /\ Phys(active) = {}
      /\ Elems(still') = {} /\ Phys(still') = {} /\ OnePhys(still')
  BY <1>1 DEF Elems, Phys, OnePhys
<1>6. Phys(taken) = G /\ \A e \in Elems(taken) : e.last = intervals[v].last
  <2>1. Phys(taken) = {e.phys : e \in Elems(taken)}
    BY DEF Phys, Elems
  <2>2. \A p : Entry(p).phys = p /\ Entry(p).last = intervals[v].last
    BY DEF Entry
  <2> HIDE DEF G
  <2>3. Elems(taken) = {Entry(p) : p \in G}
    BY DEF G
  <2>4. \A e \in Elems(taken) : e.phys \in G /\ e.last = intervals[v].last
    BY <2>2, <2>3
  <2>5. \A p \in G : Entry(p) \in Elems(taken)
    BY <2>3
  <2>6. \A p \in G : p \in Phys(taken)
    <3> TAKE p \in G
    <3>1. PICK e \in Elems(taken) : e.phys = p
      BY <2>2, <2>5
    <3> QED BY <3>1, <2>1
  <2> QED BY <2>1, <2>4, <2>6
<1>7. /\ OnePhys(still \o taken)
      /\ Phys(still \o taken) = Phys(still) \cup G
      /\ Elems(still \o taken) = Elems(still) \cup Elems(taken)
  <2>1. Phys(still) \cap Phys(taken) = {}
    BY <1>4, <1>6 DEF Apart
  <2>2. Elems(still \o taken) = Elems(still) \cup Elems(taken)
    BY <1>3, ConcatFacts
  <2> QED BY <2>1, <2>2, <1>3, <1>4, <1>6, ConcatPhys DEF Apart
<1>8. Vregs' = Vregs /\ Regs(n)' = G /\ v \notin 1..(v - 1)
  BY <1>0, <1>1, <1>2, <1>3 DEF Vregs, Regs, Given
<1>9. \A u \in Vregs : u # v => Regs(u)' = Regs(u)
  BY <1>1, <1>3 DEF Regs
<1>10. \A u \in 1..(v - 1) : u \in Vregs /\ u # v /\ Regs(u)' = Regs(u)
  BY <1>2, <1>9 DEF Vregs
<1>11. \A u \in 1..(v' - 1) : u = v \/ u \in 1..(v - 1)
  BY <1>1, <1>2
<1> HIDE DEF G
<1>12. G \subseteq Elems(free) /\ Elems(list) = Elems(free) \ G
  BY DEF G
<1>13. Apart' /\ Whole'
  BY <1>1, <1>4, <1>5, <1>7, <1>12 DEF Apart, Whole
<1>14. StillLive'
  BY <1>5 DEF StillLive
<1>15. Within'
  <2>1. G \subseteq 1..MaxGpr
    BY <1>4, <1>12 DEF Whole
  <2> QED BY <2>1, <1>0, <1>4, <1>8, <1>9 DEF Within
<1>16. Covered'
  <2> SUFFICES ASSUME NEW u \in 1..(v' - 1), NEW p \in Regs(u)'
               PROVE  \/ [last |-> intervals[u].last, phys |-> p] \in Elems(active')
                      \/ \A w \in Vregs : w >= v + 1 =>
                            intervals[u].last < intervals[w].first
    BY <1>1, <1>8 DEF Covered
  <2>1. CASE u = v
    <3>1. Entry(p) \in Elems(taken)
      BY <2>1, <1>0, <1>8 DEF G
    <3> QED BY <3>1, <2>1, <1>1, <1>7 DEF Entry
  <2>2. CASE u \in 1..(v - 1)
    <3>1. p \in Regs(u)
      BY <2>2, <1>10
    <3>2. \/ [last |-> intervals[u].last, phys |-> p] \in Elems(still)
          \/ \A w \in Vregs : w >= v => intervals[u].last < intervals[w].first
      BY <3>1, <2>2, <1>4, <1>5 DEF Covered
    <3>3. \A w \in Vregs : w >= v + 1 => w >= v
      BY <1>2 DEF Vregs
    <3> QED BY <3>2, <3>3, <1>1, <1>7
  <2> QED BY <2>1, <2>2, <1>11
<1>17. Owned'
  <2> SUFFICES ASSUME NEW e \in Elems(still) \cup Elems(taken)
               PROVE  \E u \in 1..(v' - 1) :
                        e.phys \in Regs(u)' /\ e.last = intervals[u].last
    BY <1>1, <1>5, <1>7 DEF Owned
  <2>1. CASE e \in Elems(still)
    <3>1. PICK u \in 1..(v - 1) : e.phys \in Regs(u) /\ e.last = intervals[u].last
      BY <2>1, <1>4 DEF Owned
    <3>2. u \in 1..(v' - 1)
      BY <1>1, <1>2
    <3> QED BY <3>1, <3>2, <1>10
  <2>2. CASE e \in Elems(taken)
    <3>1. e.phys \in G /\ e.last = intervals[v].last
      BY <2>2, <1>6 DEF Phys, Elems
    <3>2. v \in 1..(v' - 1)
      BY <1>1, <1>2
    <3> QED BY <3>1, <3>2, <1>0, <1>8
  <2> QED BY <2>1, <2>2
<1>18. \A t \in 1..(v - 1) :
         Overlap(intervals[t], intervals[v]) => Regs(t) \subseteq Phys(still)
  <2> SUFFICES ASSUME NEW t \in 1..(v - 1), NEW p \in Regs(t),
                      Overlap(intervals[t], intervals[v])
               PROVE  p \in Phys(still)
    OBVIOUS
  <2>1. intervals[v].first <= intervals[t].last /\ v >= v /\ v \in Vregs /\ t \in Vregs
    BY <1>2, <1>10 DEF Overlap, Vregs
  <2>2. ~ (intervals[t].last < intervals[v].first)
    BY <2>1, <1>2
  <2>3. [last |-> intervals[t].last, phys |-> p] \in Elems(still)
    BY <2>1, <2>2, <1>4, <1>5 DEF Covered
  <2> DEFINE e == [last |-> intervals[t].last, phys |-> p]
  <2>4. e \in Elems(still) /\ e.phys = p
    BY <2>3
  <2> HIDE DEF e
  <2> QED BY <2>4 DEF Elems, Phys
<1>19. Unshared'
  <2>1. \A t \in Vregs : t # v /\ Overlap(intervals[t], intervals[v])
                            => Regs(t) \cap G = {}
    <3> SUFFICES ASSUME NEW t \in Vregs, t # v, Overlap(intervals[t], intervals[v])
                 PROVE  Regs(t) \cap G = {}
      OBVIOUS
    <3>1. CASE t < v
      <4>1. t \in 1..(v - 1)
        BY <3>1, <1>2 DEF Vregs
      <4> QED BY <4>1, <1>4, <1>12, <1>18 DEF Apart
    <3>2. CASE t > v
      BY <3>2, <1>2 DEF Ahead, Regs, Vregs
    <3> QED BY <3>1, <3>2, <1>2 DEF Vregs
  <2>2. \A t, u : Overlap(intervals[t], intervals[u])
                    => Overlap(intervals[u], intervals[t])
    BY DEF Overlap
  <2> SUFFICES ASSUME NEW t \in Vregs, NEW u \in Vregs, t # u,
                      Overlap(intervals[t], intervals[u])
               PROVE  Regs(t)' \cap Regs(u)' = {}
    BY <1>1, <1>8 DEF Unshared
  <2>3. CASE t = v
    BY <2>1, <2>2, <2>3, <1>0, <1>8, <1>9
  <2>4. CASE u = v
    BY <2>1, <2>4, <1>0, <1>8, <1>9
  <2>5. CASE t # v /\ u # v
    BY <2>5, <1>4, <1>9 DEF Unshared
  <2> QED BY <2>3, <2>4, <2>5
<1>20. Full'
  <2> SUFFICES ASSUME NEW u \in 1..(v' - 1), ~ intervals[u].pair, mapping'[u] = None
               PROVE  Taken(u)' = 1..MaxGpr
    BY <1>1 DEF Full
  <2>1. u <= v /\ u \in Vregs
    BY <1>1, <1>2 DEF Vregs
  <2>2. Taken(u)' = Taken(u)
    <3> DEFINE X == {x \in Vregs : x < u /\ Overlap(intervals[x], intervals[u])}
    <3>1. Taken(u)' = UNION {Regs(t)' : t \in X}
      BY <1>1, <1>8 DEF Taken
    <3>2. Taken(u) = UNION {Regs(t) : t \in X}
      BY DEF Taken
    <3>3. \A t \in X : Regs(t)' = Regs(t)
      BY <2>1, <1>2, <1>9 DEF Vregs
    <3> HIDE DEF X
    <3> QED BY <3>1, <3>2, <3>3
  <2>3. CASE u \in 1..(v - 1)
    <3>1. mapping[u] = None
      BY <2>3, <1>1, <1>3, <1>10
    <3> QED BY <3>1, <2>2, <2>3, <1>4 DEF Full
  <2>4. CASE u = v
    <3>1. base = None /\ G = {} /\ Elems(free) = {}
      BY <2>4, <1>1, <1>3 DEF G, Given
    <3>2. Phys(still) = 1..MaxGpr
      BY <3>1, <1>4, <1>5 DEF Whole
    <3>3. \A p \in Phys(still) : p \in Taken(v)
      <4> TAKE p \in Phys(still)
      <4>1. PICK e \in Elems(still) : e.phys = p
        BY DEF Phys, Elems
      <4>2. PICK t \in 1..(v - 1) : p \in Regs(t) /\ e.last = intervals[t].last
        BY <4>1, <1>4 DEF Owned
      <4>3. e.last >= intervals[v].first
        BY <1>4 DEF StillLive
      <4>4. t \in Vregs /\ t < v /\ v \in Vregs
        BY <1>2 DEF Vregs
      <4>5. Overlap(intervals[t], intervals[v])
        <5>1. intervals[t].first < intervals[v].first
          BY <4>4, <1>2
        <5> QED BY <5>1, <4>2, <4>3, <4>4, <1>2 DEF Overlap
      <4> QED BY <4>2, <4>4, <4>5 DEF Taken
    <3>4. \A p \in Taken(v) : p \in 1..MaxGpr
      BY <1>4 DEF Taken, Within
    <3> QED BY <3>2, <3>3, <3>4, <2>2, <2>4
  <2> QED BY <2>3, <2>4, <1>11
<1> QED BY <1>13, <1>14, <1>15, <1>16, <1>17, <1>19, <1>20 DEF Pooled

-----------------------------------------------------------------------------
(* The actions that assign, one by one.                                    *)

(* The entry made for an interval is one.                                  *)
LEMMA EntryTyped ==
  ASSUME TInv, v \in Vregs, NEW p \in 0..MaxGpr
  PROVE  Entry(p) \in EntrySet
BY IntervalFacts DEF TInv, EntrySet, Entry

(* A scalar has one.                                                       *)
LEMMA OneEntry ==
  ASSUME TInv, v \in Vregs, NEW p \in 0..MaxGpr
  PROVE  /\ <<Entry(p)>> \in Seq(EntrySet)
         /\ OnePhys(<<Entry(p)>>) /\ Elems(<<Entry(p)>>) = {Entry(p)}
<1>1. Entry(p) \in EntrySet
  BY EntryTyped
<1> QED BY <1>1 DEF OnePhys, Elems

(* A pair has two, in different registers.                                 *)
LEMMA TwoEntries ==
  ASSUME TInv, v \in Vregs, NEW p \in 0..MaxGpr, NEW q \in 0..MaxGpr, p # q
  PROVE  /\ <<Entry(p), Entry(q)>> \in Seq(EntrySet)
         /\ OnePhys(<<Entry(p), Entry(q)>>)
         /\ Elems(<<Entry(p), Entry(q)>>) = {Entry(p), Entry(q)}
<1> DEFINE a == Entry(p)
           b == Entry(q)
           s == <<a, b>>
<1>1. a \in EntrySet /\ b \in EntrySet
  BY EntryTyped
<1>2. a.phys = p /\ b.phys = q
  BY DEF Entry
<1> HIDE DEF a, b
<1>3. s \in Seq(EntrySet) /\ DOMAIN s = {1, 2} /\ s[1] = a /\ s[2] = b
  BY <1>1
<1> HIDE DEF s
<1>4. OnePhys(s)
  BY <1>2, <1>3 DEF OnePhys
<1>5. Elems(s) = {a, b}
  BY <1>3 DEF Elems
<1> QED BY <1>3, <1>4, <1>5 DEF s, a, b

(* A scalar takes a register from the free list.                           *)
LEMMA AssignScalarStep == IInv /\ AssignScalar => IInv'
<1> SUFFICES ASSUME IInv, AssignScalar PROVE IInv'
  OBVIOUS
<1>1. /\ TInv /\ Ahead /\ PairsAligned /\ v \in Vregs /\ active = <<>>
      /\ ~ intervals[v].pair /\ fellBack' = fellBack /\ fellBack' \in BOOLEAN
      /\ free \in Seq(0..MaxGpr) /\ MaxGpr \in Nat
  BY MaxGprAssumption DEF IInv, AssignScalar, AtAssignment, TInv, TypeOK
<1>2. CASE free # <<>>
  <2> DEFINE p == Back(free)
             list == Front(free)
             taken == <<Entry(p)>>
             Rs == 0..MaxGpr
  <2>1. Advance(p, list, taken)
    BY <1>2 DEF AssignScalar
  <2>2. /\ list \in Seq(0..MaxGpr) /\ p \in 0..MaxGpr /\ p \in Elems(free)
        /\ Inj(free) => Inj(list) /\ Elems(list) = Elems(free) \ {p}
    <3>1. free \in Seq(Rs)
      BY <1>1
    <3> HIDE DEF Rs
    <3>2. /\ Front(free) \in Seq(Rs) /\ Back(free) \in Rs /\ Back(free) \in Elems(free)
          /\ Inj(free) => Inj(Front(free))
                            /\ Elems(Front(free)) = Elems(free) \ {Back(free)}
      BY <3>1, <1>2, FrontFacts
    <3> QED BY <3>2 DEF Rs
  <2> HIDE DEF p, list
  <2>3. taken \in Seq(EntrySet) /\ OnePhys(taken) /\ Elems(taken) = {Entry(p)}
    BY <2>2, <1>1, OneEntry
  <2>4. RoomFor(p) /\ p # None /\ Given(p) = {p}
    BY <2>2, <1>1 DEF RoomFor, Given, None
  <2> HIDE DEF taken
  <2>5. TInv' /\ Ahead' /\ PairsAligned'
    BY <2>1, <2>2, <2>3, <2>4, <1>1, AdvanceTyped
  <2>6. ASSUME ~ fellBack
        PROVE  Pooled'
    <3>1. Pooled /\ Inj(free)
      BY <2>6 DEF IInv, Pooled, Apart
    <3>2. Inj(list) /\ Elems(list) = Elems(free) \ {p}
      BY <3>1, <2>2
    <3>3. Elems(taken) = {Entry(r) : r \in Given(p)}
      BY <2>3, <2>4
    <3>4. Given(p) \subseteq Elems(free) /\ Elems(list) = Elems(free) \ Given(p)
      BY <3>2, <2>2, <2>4
    <3> QED BY <3>1, <3>2, <3>3, <3>4, <2>1, <2>2, <2>3, <2>4, <1>1, AdvancePooled
  <2> QED BY <2>5, <2>6, <1>1 DEF IInv
<1>3. CASE free = <<>>
  <2>1. Advance(None, free, <<>>)
    BY <1>3 DEF AssignScalar
  <2>2. /\ <<>> \in Seq(EntrySet) /\ OnePhys(<<>>) /\ Elems(<<>>) = {}
        /\ RoomFor(None) /\ Given(None) = {} /\ Elems(free) = {}
    BY <1>3 DEF OnePhys, Elems, RoomFor, Given
  <2>3. TInv' /\ Ahead' /\ PairsAligned'
    BY <2>1, <2>2, <1>1, AdvanceTyped
  <2>4. ASSUME ~ fellBack
        PROVE  Pooled'
    <3>1. Pooled /\ Inj(free)
      BY <2>4 DEF IInv, Pooled, Apart
    <3>2. Elems(<<>>) = {Entry(r) : r \in Given(None)}
      BY <2>2
    <3> QED BY <3>1, <3>2, <2>1, <2>2, <1>1, AdvancePooled
  <2> QED BY <2>3, <2>4, <1>1 DEF IInv
<1> QED BY <1>2, <1>3

(* No two neighbouring registers are free: the pair falls back.            *)
LEMMA NoRoomForPairStep == IInv /\ NoRoomForPair => IInv'
<1> SUFFICES ASSUME IInv, NoRoomForPair PROVE IInv'
  OBVIOUS
<1>1. /\ TInv /\ Ahead /\ PairsAligned /\ v \in Vregs /\ active = <<>>
      /\ intervals[v].pair /\ fellBack' = fellBack /\ fellBack' \in BOOLEAN
      /\ free \in Seq(0..MaxGpr) /\ Advance(None, free, <<>>)
  BY DEF IInv, NoRoomForPair, AtAssignment, TInv, TypeOK
<1>2. /\ <<>> \in Seq(EntrySet) /\ OnePhys(<<>>) /\ Elems(<<>>) = {}
      /\ RoomFor(None) /\ Given(None) = {}
  BY DEF OnePhys, Elems, RoomFor, Given
<1>3. TInv' /\ Ahead' /\ PairsAligned'
  BY <1>1, <1>2, AdvanceTyped
<1>4. ASSUME ~ fellBack
      PROVE  Pooled'
  <2>1. Pooled /\ Inj(free)
    BY <1>4 DEF IInv, Pooled, Apart
  <2>2. Elems(<<>>) = {Entry(r) : r \in Given(None)}
    BY <1>2
  <2> QED BY <2>1, <2>2, <1>1, <1>2, AdvancePooled
<1> QED BY <1>3, <1>4, <1>1 DEF IInv

(* Dropping two positions, whatever the list holds.                        *)
LEMMA DropTwoTyped ==
  ASSUME NEW S, NEW s \in Seq(S), NEW i \in 1..Len(s), NEW j \in 1..Len(s), j < i
  PROVE  Drop(Drop(s, i), j) \in Seq(S)
<1> DEFINE t == Drop(s, i)
<1>1. t \in Seq(S) /\ Len(t) = Len(s) - 1 /\ Len(s) \in Nat
  BY DropFacts
<1> HIDE DEF t
<1>2. j \in 1..Len(t)
  BY <1>1
<1>3. Drop(t, j) \in Seq(S)
  BY <1>1, <1>2, DropFacts
<1> QED BY <1>3 DEF t

(* The free list without the two registers of a pair.                      *)
LEMMA WithoutPairFacts ==
  ASSUME NEW S, free \in Seq(S), NEW i \in DOMAIN free, NEW j \in DOMAIN free,
         i # j
  PROVE  /\ WithoutPair(i, j) \in Seq(S)
         /\ Inj(free) => /\ Inj(WithoutPair(i, j))
                         /\ Elems(WithoutPair(i, j)) = Elems(free) \ {free[i], free[j]}
<1>1. DOMAIN free = 1..Len(free) /\ Len(free) \in Nat
  OBVIOUS
<1>2. CASE j < i
  <2>1. WithoutPair(i, j) = Drop(Drop(free, i), j)
    BY <1>1, <1>2 DEF WithoutPair
  <2> QED BY <2>1, <1>1, <1>2, DropTwoTyped, DropTwoFacts
<1>3. CASE i < j
  <2>1. WithoutPair(i, j) = Drop(Drop(free, j), i)
    BY <1>1, <1>3 DEF WithoutPair
  <2>2. /\ Drop(Drop(free, j), i) \in Seq(S)
        /\ Inj(free) => /\ Inj(Drop(Drop(free, j), i))
                        /\ Elems(Drop(Drop(free, j), i)) = Elems(free) \ {free[j], free[i]}
    BY SMTT(60), <1>1, <1>3, DropTwoTyped, DropTwoFacts
  <2>3. {free[j], free[i]} = {free[i], free[j]}
    OBVIOUS
  <2> QED BY <2>1, <2>2, <2>3
<1> QED BY <1>1, <1>2, <1>3

(* A pair takes two neighbouring registers.                                *)
LEMMA AssignPairStep ==
  ASSUME IInv, NEW i \in DOMAIN free, NEW j \in DOMAIN free, AssignPair(i, j)
  PROVE  IInv'
<1> DEFINE p == free[i]
           q == free[i] + 1
           list == WithoutPair(i, j)
           taken == <<Entry(p), Entry(q)>>
           Rs == 0..MaxGpr
<1>1. /\ TInv /\ Ahead /\ PairsAligned /\ v \in Vregs /\ active = <<>>
      /\ intervals[v].pair /\ fellBack' = fellBack /\ fellBack' \in BOOLEAN
      /\ free \in Seq(0..MaxGpr) /\ MaxGpr \in Nat
  BY MaxGprAssumption DEF IInv, AssignPair, AtAssignment, TInv, TypeOK
<1>2. Advance(p, list, taken)
  BY DEF AssignPair
<1>3. free[j] = q /\ p % 2 = 0 /\ p # 0
  BY DEF AssignPair, IsLast, IsFirst, PairPositions
<1>4. p \in 0..MaxGpr /\ q \in 0..MaxGpr /\ p \in 1..(MaxGpr - 1) /\ p # q
  <2>1. free[i] \in 0..MaxGpr /\ free[j] \in 0..MaxGpr
    BY <1>1
  <2> QED BY SMTT(60), <2>1, <1>1, <1>3
<1>5. p \in Elems(free) /\ q \in Elems(free) /\ i # j
  BY <1>3, <1>4 DEF Elems
<1>6. /\ list \in Seq(0..MaxGpr)
      /\ Inj(free) => Inj(list) /\ Elems(list) = Elems(free) \ {p, free[j]}
  <2>1. free \in Seq(Rs)
    BY <1>1
  <2> HIDE DEF Rs
  <2>2. /\ list \in Seq(Rs)
        /\ Inj(free) => Inj(list) /\ Elems(list) = Elems(free) \ {p, free[j]}
    BY <2>1, <1>5, WithoutPairFacts
  <2> QED BY <2>2 DEF Rs
<1>7. RoomFor(p) /\ p # None /\ Given(p) = {p, q}
  BY <1>1, <1>3, <1>4 DEF RoomFor, Given, None
<1> HIDE DEF p, q, list
<1>8. /\ taken \in Seq(EntrySet) /\ OnePhys(taken)
      /\ Elems(taken) = {Entry(p), Entry(q)}
  BY <1>1, <1>4, TwoEntries
<1> HIDE DEF taken
<1>9. TInv' /\ Ahead' /\ PairsAligned'
  BY <1>1, <1>2, <1>6, <1>7, <1>8, AdvanceTyped
<1>10. ASSUME ~ fellBack
       PROVE  Pooled'
  <2>1. Pooled /\ Inj(free)
    BY <1>10 DEF IInv, Pooled, Apart
  <2>2. Inj(list) /\ Elems(list) = Elems(free) \ {p, q}
    BY <2>1, <1>3, <1>6
  <2>3. Elems(taken) = {Entry(r) : r \in Given(p)}
    BY <1>7, <1>8
  <2>4. Given(p) \subseteq Elems(free) /\ Elems(list) = Elems(free) \ Given(p)
    BY <2>2, <1>5, <1>7
  <2> QED BY <2>1, <2>2, <2>3, <2>4, <1>1, <1>2, <1>6, <1>7, <1>8, AdvancePooled
<1> QED BY <1>1, <1>9, <1>10 DEF IInv

(* The fallback may list a register twice, but it keeps the types, and     *)
(* what it would assign is aligned.                                        *)
LEMMA FallbackStep == IInv /\ Fallback => IInv'
<1> SUFFICES ASSUME IInv, Fallback PROVE IInv'
  OBVIOUS
<1> DEFINE phys == EvenBelow(Back(free))
           rest == Front(free)
           Rs == 0..MaxGpr
<1>1. /\ TInv /\ Ahead /\ PairsAligned /\ v \in Vregs
      /\ intervals[v].pair /\ fellBack' = TRUE /\ fellBack' \in BOOLEAN
      /\ free \in Seq(Rs) /\ MaxGpr \in Nat /\ Len(free) >= 2
  BY MaxGprAssumption DEF IInv, Fallback, AtAssignment, TInv, TypeOK
<1>2. free # <<>>
  BY <1>1
<1>3. rest \in Seq(Rs) /\ Back(free) \in Rs
  <2> HIDE DEF Rs
  <2> QED BY <1>1, <1>2, FrontFacts
<1>4. phys \in Rs
  <2>1. \A p \in 0..MaxGpr : p % 2 = 1 => p - 1 \in 0..MaxGpr
    BY <1>1
  <2> HIDE DEF rest
  <2> QED BY <2>1, <1>3 DEF EvenBelow
<1>5. CASE Advance(None, Append(rest, phys), <<>>)
  <2> DEFINE list == Append(rest, phys)
  <2>1. list \in Seq(Rs)
    <3> HIDE DEF Rs, rest, phys
    <3> QED BY <1>3, <1>4, AppendFacts
  <2>2. RoomFor(None) /\ <<>> \in Seq(EntrySet)
    BY DEF RoomFor
  <2> HIDE DEF list
  <2>3. TInv' /\ Ahead' /\ PairsAligned'
    BY <2>1, <2>2, <1>1, <1>5, AdvanceTyped DEF list
  <2> QED BY <2>3, <1>1 DEF IInv
<1>6. ASSUME NEW j \in DOMAIN rest,
             IF phys > 0 /\ phys % 2 = 0 /\ phys + 1 <= MaxGpr
             THEN Advance(phys, Drop(rest, j), <<Entry(phys), Entry(phys + 1)>>)
             ELSE Advance(None, Drop(rest, j), <<>>)
      PROVE  IInv'
  <2> DEFINE list == Drop(rest, j)
  <2>1. list \in Seq(Rs)
    <3> HIDE DEF Rs, rest
    <3>1. j \in 1..Len(rest)
      BY <1>3
    <3> QED BY <3>1, <1>3, DropFacts
  <2> HIDE DEF list, phys, rest
  <2>2. CASE phys > 0 /\ phys % 2 = 0 /\ phys + 1 <= MaxGpr
    <3>1. phys + 1 \in Rs /\ phys # phys + 1 /\ RoomFor(phys)
      BY <2>2, <1>1, <1>4 DEF RoomFor
    <3>2. <<Entry(phys), Entry(phys + 1)>> \in Seq(EntrySet)
      BY <3>1, <1>1, <1>4, TwoEntries
    <3>3. Advance(phys, list, <<Entry(phys), Entry(phys + 1)>>)
      BY <2>2, <1>6 DEF list
    <3> DEFINE taken == <<Entry(phys), Entry(phys + 1)>>
    <3> HIDE DEF taken
    <3>4. TInv' /\ Ahead' /\ PairsAligned'
      BY <3>1, <3>2, <3>3, <2>1, <1>1, AdvanceTyped DEF taken
    <3> QED BY <3>4, <1>1 DEF IInv
  <2>3. CASE ~ (phys > 0 /\ phys % 2 = 0 /\ phys + 1 <= MaxGpr)
    <3>1. RoomFor(None) /\ <<>> \in Seq(EntrySet) /\ Advance(None, list, <<>>)
      BY <2>3, <1>6 DEF RoomFor, list
    <3>2. TInv' /\ Ahead' /\ PairsAligned'
      BY <3>1, <2>1, <1>1, AdvanceTyped
    <3> QED BY <3>2, <1>1 DEF IInv
  <2> QED BY <2>2, <2>3
<1> QED BY <1>5, <1>6 DEF Fallback

-----------------------------------------------------------------------------
(* The theorems.                                                           *)

(* No step breaks the invariant.                                           *)
LEMMA NextKeepsIInv == IInv /\ [Next]_vars => IInv'
<1> SUFFICES ASSUME IInv, [Next]_vars PROVE IInv'
  OBVIOUS
<1>1. CASE Expire
  BY <1>1, ExpireStep
<1>2. CASE Keep
  BY <1>2, KeepStep
<1>3. CASE AssignScalar
  BY <1>3, AssignScalarStep
<1>4. CASE \E i, j \in DOMAIN free : AssignPair(i, j)
  BY <1>4, AssignPairStep
<1>5. CASE NoRoomForPair
  BY <1>5, NoRoomForPairStep
<1>6. CASE Fallback
  BY <1>6, FallbackStep
<1>7. CASE UNCHANGED vars
  <2>1. /\ intervals' = intervals /\ v' = v /\ free' = free /\ active' = active
        /\ still' = still /\ mapping' = mapping /\ fellBack' = fellBack
    BY <1>7 DEF vars
  <2>2. TInv' /\ Ahead' /\ PairsAligned'
    BY <2>1 DEF IInv, TInv, TypeOK, Vregs, Ahead, PairsAligned
  <2>3. ASSUME ~ fellBack
        PROVE  Pooled'
    <3>1. Apart /\ Whole /\ Covered /\ Owned /\ StillLive /\ Unshared /\ Within /\ Full
      BY <2>3 DEF IInv, Pooled
    <3>2. Unshared' /\ Within' /\ Full'
      BY <3>1, <2>1, SameMapping
    <3>3. Apart' /\ Whole'
      BY <3>1, <2>1 DEF Apart, Whole
    <3>4. Covered'
      BY <3>1, <2>1 DEF Covered, Regs, Vregs
    <3>5. Owned'
      BY ZenonT(60), <3>1, <2>1 DEF Owned, Regs, Vregs
    <3>6. StillLive'
      BY <3>1, <2>1 DEF StillLive, Vregs
    <3> QED BY <3>2, <3>3, <3>4, <3>5, <3>6 DEF Pooled
  <2> QED BY <2>1, <2>2, <2>3 DEF IInv
<1> QED BY <1>1, <1>2, <1>3, <1>4, <1>5, <1>6, <1>7 DEF Next

(* The inductive invariant holds throughout: the entries are well formed,  *)
(* pairs are aligned, and until the fallback runs the free list and the    *)
(* active entries share nothing, cover 1..MaxGpr, belong to the virtual    *)
(* registers mapped to them, and keep every live one                       *)
(* (register_allocation.py 91-147).                                        *)
THEOREM Invariant == Spec => []IInv
BY InitIInv, NextKeepsIInv, PTL DEF Spec

(* The free list, the active entries and the mapping keep their types, for *)
(* every register file and every input (register_allocation.py 91-147).    *)
THEOREM TypeCorrect == Spec => []TypeOK
<1>1. IInv => TypeOK
  BY DEF IInv, TInv
<1> QED BY <1>1, Invariant, PTL

(* Until the fallback of lines 132-143 runs, virtual registers whose       *)
(* ranges overlap never share a physical register.                         *)
THEOREM SafeUntilFallbackHolds == Spec => []SafeUntilFallback
<1>1. IInv => SafeUntilFallback
  BY DEF IInv, Pooled, Unshared, SafeUntilFallback, NoOverlap
<1> QED BY <1>1, Invariant, PTL

(* A 64-bit register that is mapped has an even register above 0 and its   *)
(* partner (register_allocation.py 111-141), the fallback included.        *)
THEOREM PairsAlignedHolds == Spec => []PairsAligned
<1>1. IInv => PairsAligned
  BY DEF IInv
<1> QED BY <1>1, Invariant, PTL

(* Until the fallback runs, a 32-bit register is left unmapped only when   *)
(* intervals that overlap it hold all of 1..MaxGpr (lines 144-147).        *)
THEOREM UnmappedOnlyWhenFullHolds == Spec => []UnmappedOnlyWhenFull
<1>1. IInv => UnmappedOnlyWhenFull
  BY DEF IInv, Pooled, Full, UnmappedOnlyWhenFull
<1> QED BY <1>1, Invariant, PTL

(* Until the fallback runs, every register of 1..MaxGpr stands exactly     *)
(* once in the free list and the active entries together, and R0 never:    *)
(* nothing is lost and nothing is given out twice (lines 97-147).          *)
THEOREM ConservedHolds == Spec => []Conserved
<1>1. IInv => Conserved
  <2> SUFFICES ASSUME IInv, ~ fellBack, NEW p \in 0..MaxGpr
               PROVE  Cardinality(Owners(p)) = IF p = 0 THEN 0 ELSE 1
    BY DEF Conserved
  <2> DEFINE Free == {m \in DOMAIN free : free[m] = p}
             Active == {m \in DOMAIN active : active[m].phys = p}
             Still == {m \in DOMAIN still : still[m].phys = p}
  <2>1. Apart /\ Whole
    BY DEF IInv, Pooled
  <2>2. Owners(p) = {<<"free", k>> : k \in Free} \cup {<<"active", k>> : k \in Active}
                      \cup {<<"still", k>> : k \in Still}
    BY DEF Owners
  <2>3. CASE p = 0
    <3>1. p \notin 1..MaxGpr
      BY <2>3, MaxGprAssumption
    <3>2. Free = {} /\ Active = {} /\ Still = {}
      BY <3>1, <2>1 DEF Whole, Elems, Phys
    <3>3. Owners(p) = {}
      BY <2>2, <3>2
    <3> QED BY <3>3, <2>3, FS_EmptySet
  <2>4. CASE p # 0
    <3>1. p \in Elems(free) \cup Phys(active) \cup Phys(still)
      <4>1. p \in 1..MaxGpr
        BY <2>4, MaxGprAssumption
      <4> QED BY <4>1, <2>1 DEF Whole
    <3>2. \/ \E m : Free = {m} /\ Active = {} /\ Still = {}
          \/ \E m : Free = {} /\ Active = {m} /\ Still = {}
          \/ \E m : Free = {} /\ Active = {} /\ Still = {m}
      <4>1. CASE p \in Elems(free)
        <5>1. PICK m \in DOMAIN free : free[m] = p
          BY <4>1 DEF Elems
        <5>2. Free = {m} /\ Active = {} /\ Still = {}
          BY <5>1, <4>1, <2>1 DEF Apart, Inj, Elems, Phys
        <5> QED BY <5>2
      <4>2. CASE p \in Phys(active)
        <5>1. PICK m \in DOMAIN active : active[m].phys = p
          BY <4>2 DEF Phys
        <5>2. Free = {} /\ Active = {m} /\ Still = {}
          BY <5>1, <4>2, <2>1 DEF Apart, OnePhys, Elems, Phys
        <5> QED BY <5>2
      <4>3. CASE p \in Phys(still)
        <5>1. PICK m \in DOMAIN still : still[m].phys = p
          BY <4>3 DEF Phys
        <5>2. Free = {} /\ Active = {} /\ Still = {m}
          BY <5>1, <4>3, <2>1 DEF Apart, OnePhys, Elems, Phys
        <5> QED BY <5>2
      <4> QED BY <3>1, <4>1, <4>2, <4>3
    <3>3. \E x : Owners(p) = {x}
      <4> HIDE DEF Free, Active, Still
      <4>1. CASE \E m : Free = {m} /\ Active = {} /\ Still = {}
        <5>1. PICK m : Free = {m} /\ Active = {} /\ Still = {}
          BY <4>1
        <5>2. Owners(p) = {<<"free", m>>}
          BY <5>1, <2>2
        <5> QED BY <5>2
      <4>2. CASE \E m : Free = {} /\ Active = {m} /\ Still = {}
        <5>1. PICK m : Free = {} /\ Active = {m} /\ Still = {}
          BY <4>2
        <5>2. Owners(p) = {<<"active", m>>}
          BY <5>1, <2>2
        <5> QED BY <5>2
      <4>3. CASE \E m : Free = {} /\ Active = {} /\ Still = {m}
        <5>1. PICK m : Free = {} /\ Active = {} /\ Still = {m}
          BY <4>3
        <5>2. Owners(p) = {<<"still", m>>}
          BY <5>1, <2>2
        <5> QED BY <5>2
      <4> QED BY <3>2, <4>1, <4>2, <4>3
    <3> QED BY <3>3, <2>4, FS_Singleton
  <2> QED BY <2>3, <2>4
<1> QED BY <1>1, Invariant, PTL

=============================================================================
