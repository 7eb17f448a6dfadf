----------------------------- MODULE LinearScan -----------------------------
(***************************************************************************)
(* The linear-scan register allocator of passes/register_allocation.py,    *)
(* from the sorted intervals on: it goes through the virtual registers in  *)
(* the order of their first definition, gives back the physical registers  *)
(* of the intervals that have ended, and takes the new ones from the end   *)
(* of the free list.  A 64-bit virtual register takes an even register and *)
(* the next one; when the list holds no such pair a fallback path splits   *)
(* whatever is last.  There is no spilling: a virtual register may stay    *)
(* unmapped, and lowering then finds a register for it itself.             *)
(***************************************************************************)
EXTENDS Integers, Sequences, FiniteSets

CONSTANTS MaxGpr,      \* MAX_GPR, 239 in the code
          Inputs       \* sequences of intervals, sorted by first definition

(* pair: the name starts with %rd or %bd.  first and last are positions of *)
(* the program; the merged range of one base register (lines 59-89).       *)
Interval == [pair : BOOLEAN, first : Nat, last : Nat]

ASSUME MaxGprAssumption == MaxGpr \in Nat \ {0}

(* One instruction defines at most one register, so first is strict.       *)
Sorted(s) == /\ s \in Seq(Interval)
             /\ \A i \in 1..Len(s) : s[i].first <= s[i].last
             /\ \A i, j \in 1..Len(s) : i < j => s[i].first < s[j].first
ASSUME InputsAssumption == \A s \in Inputs : Sorted(s)

None == -1             \* not in the mapping

VARIABLES
    intervals,   \* sorted_regs
    v,           \* the interval the loop is at
    free,        \* free_list; registers are popped from its end
    active,      \* the entries of active the expiry loop has not seen
    still,       \* still_active
    mapping,     \* mapping, by position in intervals; None when absent
    fellBack     \* whether the fallback of lines 132-143 ran (not in the code)

vars == <<intervals, v, free, active, still, mapping, fellBack>>

Vregs == 1..Len(intervals)

(* What a virtual register occupies.                                       *)
Regs(u) == CASE mapping[u] = None -> {}
             [] mapping[u] # None /\ intervals[u].pair ->
                    {mapping[u], mapping[u] + 1}
             [] OTHER -> {mapping[u]}

InFree == {free[k] : k \in DOMAIN free}

InitOneTooMany ==             \* a mutant: the list starts at MAX_GPR + 1
    /\ intervals \in Inputs
    /\ v = 1
    /\ free = [k \in 1..(MaxGpr + 1) |-> MaxGpr + 2 - k]
    /\ active = <<>> /\ still = <<>>
    /\ mapping = [u \in Vregs |-> None]
    /\ fellBack = FALSE

Init == /\ intervals \in Inputs
        /\ v = 1
        /\ free = [k \in 1..MaxGpr |-> MaxGpr + 1 - k]
        /\ active = <<>>
        /\ still = <<>>
        /\ mapping = [u \in Vregs |-> None]
        /\ fellBack = FALSE

-----------------------------------------------------------------------------
(* One entry of active: given back if its range has ended, else kept.      *)

(* Mutants of Expire: a range that ends where the next one begins counts   *)
(* as ended; the register of an ended range is not given back.             *)
ExpireEarly ==
    /\ v \in Vregs
    /\ active # <<>>
    /\ Head(active).last <= intervals[v].first
    /\ free' = Append(free, Head(active).phys)
    /\ active' = Tail(active)
    /\ UNCHANGED <<intervals, v, still, mapping, fellBack>>
ExpireLoses ==
    /\ v \in Vregs
    /\ active # <<>>
    /\ Head(active).last < intervals[v].first
    /\ active' = Tail(active)
    /\ UNCHANGED <<intervals, v, free, still, mapping, fellBack>>

Expire ==
    /\ v \in Vregs
    /\ active # <<>>
    /\ Head(active).last < intervals[v].first
    /\ free' = Append(free, Head(active).phys)
    /\ active' = Tail(active)
    /\ UNCHANGED <<intervals, v, still, mapping, fellBack>>

Keep ==
    /\ v \in Vregs
    /\ active # <<>>
    /\ Head(active).last >= intervals[v].first
    /\ still' = Append(still, Head(active))
    /\ active' = Tail(active)
    /\ UNCHANGED <<intervals, v, free, mapping, fellBack>>

-----------------------------------------------------------------------------
(* Assigning registers to interval v, once all of active is looked at.     *)

Entry(p) == [last |-> intervals[v].last, phys |-> p]
Drop(s, i) == SubSeq(s, 1, i - 1) \o SubSeq(s, i + 1, Len(s))
Front(s) == SubSeq(s, 1, Len(s) - 1)
Back(s) == s[Len(s)]

AtAssignment == v \in Vregs /\ active = <<>>

(* The iteration ends: what it took becomes active, what is left is free.  *)
Advance(base, list, taken) ==
    /\ mapping' = [mapping EXCEPT ![v] = base]
    /\ free' = list
    /\ active' = still \o taken
    /\ still' = <<>>
    /\ v' = v + 1
    /\ UNCHANGED intervals

AssignScalar ==
    /\ AtAssignment
    /\ ~ intervals[v].pair
    /\ IF free # <<>>
       THEN Advance(Back(free), Front(free), <<Entry(Back(free))>>)
       ELSE Advance(None, free, <<>>)
    /\ UNCHANGED fellBack

(* Positions of the list that hold an even register whose partner is       *)
(* listed too; the scan takes the one nearest to the end.                  *)
PairPositionsOdd == {i \in DOMAIN free : free[i] + 1 \in InFree}  \* a mutant
PairPositions == {i \in DOMAIN free : free[i] % 2 = 0 /\ free[i] + 1 \in InFree}
IsLast(i, S) == i \in S /\ \A k \in S : k <= i
IsFirst(i, S) == i \in S /\ \A k \in S : i <= k

WithoutPairInOrder(i, j) ==   \* a mutant: line 116's test the other way round
    IF i > j THEN Drop(Drop(free, j), i) ELSE Drop(Drop(free, i), j)
(* The later of the two positions is popped first.                         *)
WithoutPair(i, j) == IF i > j THEN Drop(Drop(free, i), j)
                              ELSE Drop(Drop(free, j), i)

(* Were the even register R0, the pair would be given up (lines 124-125);  *)
(* R0 and R1 are never listed together, so that branch has no action here, *)
(* and Terminates would show the scan stuck if they ever were.             *)
AssignPair(i, j) ==
    /\ AtAssignment
    /\ intervals[v].pair
    /\ IsLast(i, PairPositions)
    /\ IsFirst(j, {k \in DOMAIN free : free[k] = free[i] + 1})
    /\ free[i] # 0
    /\ Advance(free[i], WithoutPair(i, j), <<Entry(free[i]), Entry(free[i] + 1)>>)
    /\ UNCHANGED fellBack

NoRoomForPair ==
    /\ AtAssignment
    /\ intervals[v].pair
    /\ PairPositions = {}
    /\ Len(free) < 2
    /\ Advance(None, free, <<>>)
    /\ UNCHANGED fellBack

(* The register popped last, or the even one below it.                     *)
EvenBelow(p) == IF p % 2 = 1 THEN p - 1 ELSE p

(* The list is long enough but holds no pair: pop a register, and if the   *)
(* partner of the even register at or below it is listed, take both; if    *)
(* not, put back the even register, whichever was popped.                  *)
Fallback ==
    /\ AtAssignment
    /\ intervals[v].pair
    /\ PairPositions = {}
    /\ Len(free) >= 2
    /\ LET phys == EvenBelow(Back(free))
           rest == Front(free)
           Partners == {k \in DOMAIN rest : rest[k] = phys + 1}
       IN  \/ /\ Partners = {}
              /\ Advance(None, Append(rest, phys), <<>>)
           \/ \E j \in DOMAIN rest :
                /\ IsFirst(j, Partners)
                /\ IF phys > 0 /\ phys % 2 = 0 /\ phys + 1 <= MaxGpr
                   THEN Advance(phys, Drop(rest, j),
                                <<Entry(phys), Entry(phys + 1)>>)
                   ELSE Advance(None, Drop(rest, j), <<>>)
    /\ fellBack' = TRUE

Next == \/ Expire
        \/ Keep
        \/ AssignScalar
        \/ \E i, j \in DOMAIN free : AssignPair(i, j)
        \/ NoRoomForPair
        \/ Fallback

Spec == Init /\ [][Next]_vars

-----------------------------------------------------------------------------
(* Properties.                                                             *)

TypeOK ==
    LET Gpr == 0..MaxGpr
        Entries == Seq([last : Nat, phys : Gpr])
    IN  /\ v \in 1..(Len(intervals) + 1)
        /\ free \in Seq(Gpr)
        /\ active \in Entries
        /\ still \in Entries
        /\ mapping \in [Vregs -> Gpr \cup {None}]
        /\ fellBack \in BOOLEAN

(* Two virtual registers whose ranges overlap never share a physical       *)
(* register: test_ra_no_physical_register_overlap, and what lowering       *)
(* relies on when it takes the mapping over (register_allocation.py        *)
(* 91-147).                                                                *)
Overlap(a, b) == a.first <= b.last /\ b.first <= a.last
NoOverlap == \A t, u \in Vregs :
    t # u /\ Overlap(intervals[t], intervals[u]) => Regs(t) \cap Regs(u) = {}

(* As long as every pair found a listed pair, that holds whatever mixture  *)
(* of scalars and pairs comes in, however the list is fragmented           *)
(* (register_allocation.py 97-131).                                        *)
SafeUntilFallback == ~ fellBack => NoOverlap

(* As long as the fallback did not run, no register is lost or listed      *)
(* twice: the free list and the active registers partition 1..MaxGpr       *)
(* (register_allocation.py 97-147).                                        *)
Owners(p) == {<<"free", k>> : k \in {m \in DOMAIN free : free[m] = p}}
       \cup {<<"active", k>> : k \in {m \in DOMAIN active : active[m].phys = p}}
       \cup {<<"still", k>> : k \in {m \in DOMAIN still : still[m].phys = p}}
Conserved == ~ fellBack =>
    \A p \in 0..MaxGpr : Cardinality(Owners(p)) = IF p = 0 THEN 0 ELSE 1

(* Every 64-bit register in the mapping starts at an even register above 0 *)
(* and ends within the file (register_allocation.py 111-141).              *)
PairsAligned == \A u \in Vregs :
    intervals[u].pair /\ mapping[u] # None =>
        /\ mapping[u] % 2 = 0
        /\ mapping[u] \in 1..(MaxGpr - 1)

(* A 32-bit register stays without a physical one only when, until the     *)
(* fallback has run, every physical register is taken by an interval that  *)
(* overlaps it (register_allocation.py 144-147).                           *)
Taken(u) == UNION {Regs(t) : t \in {x \in Vregs :
                      x < u /\ Overlap(intervals[x], intervals[u])}}
UnmappedOnlyWhenFull ==
    ~ fellBack => \A u \in 1..(v - 1) :
        ~ intervals[u].pair /\ mapping[u] = None => Taken(u) = 1..MaxGpr

=============================================================================
