--------------------------- MODULE SchedulerProofs ---------------------------
(***************************************************************************)
(* Proofs about Scheduler, for every set of well-formed blocks, and about  *)
(* ScheduleProgram, for programs of any length.                            *)
(*                                                                         *)
(* The argument.  The graph records, for an instruction, the closest       *)
(* definition of every register it names, the reads since that definition  *)
(* when it writes, and the last store when it loads (EdgeInv).  An issued  *)
(* instruction has all of these behind it; that everything farther back    *)
(* is behind it too follows because the closest one was itself issued      *)
(* after all it must follow (OrderInv).  What no edge records, a load or   *)
(* a computation before a later store, rests on the least position that    *)
(* is not issued yet: all it waits for comes earlier, so it is ready, and  *)
(* it beats every store and branch behind it (LeastIsReady).               *)
(*                                                                         *)
(* While a program is scheduled, its list is at any moment the program     *)
(* reordered by some permutation of its positions (InOrder): one that      *)
(* crosses no cut, moves no branch and no HALT, never swaps two stores and *)
(* leaves everything from the next leader on where it is.  To schedule a   *)
(* block is to compose it, on the positions of the block, with the order   *)
(* in which the block was issued, which is a permutation that issues       *)
(* stores and control in order (BarriersHold).                             *)
(***************************************************************************)
EXTENDS ScheduleProgram, FiniteSetTheorems, WellFoundedInduction, TLAPS

WritesReg(i, r) == HasDest(block[i]) /\ block[i].dest = r
ReadsReg(i, r) == r \in SourceRegs(block[i])
Kind(i) == InstKind(block[i])

(* Everything the block scheduler keeps in order.                          *)
MustPrecede(j, i) ==
    \/ \E r \in Reg : \/ WritesReg(j, r) /\ (ReadsReg(i, r) \/ WritesReg(i, r))
                      \/ ReadsReg(j, r) /\ WritesReg(i, r)
    \/ Kind(j) = "STORE" /\ Kind(i) = "LOAD"
    \/ Kind(i) \in {"STORE", "CONTROL"}

(* i waits for j, or j is issued.                                          *)
Waits(i, j) == j \in Issued \/ \E k \in DepKind : <<k, j>> \in waiting[i]

-----------------------------------------------------------------------------
(* The inductive invariant.                                                *)

LastWriteInv ==
    \A r \in Reg :
        /\ \A i \in Pos : i < idx /\ WritesReg(i, r) => i <= lastWrite[r]
        /\ lastWrite[r] # 0 => /\ lastWrite[r] < idx
                               /\ lastWrite[r] \in Pos
                               /\ WritesReg(lastWrite[r], r)

PendingInv ==
    \A r \in Reg :
        /\ \A i \in pendingReads[r] : i < idx
        /\ \A i \in Pos : i < idx /\ ReadsReg(i, r) /\ lastWrite[r] <= i
                            => i \in pendingReads[r]

LastStoreInv ==
    /\ \A i \in Pos : i < idx /\ Kind(i) = "STORE" => i <= lastStore
    /\ lastStore # 0 => /\ lastStore < idx
                        /\ lastStore \in Pos
                        /\ Kind(lastStore) = "STORE"

WaitingInv == \A i \in Pos :
    /\ \A d \in waiting[i] : d[2] < i /\ d[2] \notin Issued
    /\ i \in Issued => waiting[i] = {}

ClosestWrite(i) ==
    \A r \in Reg : ReadsReg(i, r) \/ WritesReg(i, r) =>
        \/ \A j \in Pos : j < i => ~ WritesReg(j, r)
        \/ \E c \in Pos : /\ c < i
                          /\ WritesReg(c, r)
                          /\ Waits(i, c)
                          /\ \A j \in Pos : j < i /\ WritesReg(j, r) => j <= c
ReadsSince(i) ==
    \A r \in Reg : WritesReg(i, r) =>
        \A p \in Pos : /\ p < i
                       /\ ReadsReg(p, r)
                       /\ \A j \in Pos : j < i /\ WritesReg(j, r) => j <= p
                       => Waits(i, p)
ClosestStore(i) ==
    Kind(i) = "LOAD" =>
        \/ \A j \in Pos : j < i => Kind(j) # "STORE"
        \/ \E c \in Pos : /\ c < i
                          /\ Kind(c) = "STORE"
                          /\ Waits(i, c)
                          /\ \A j \in Pos : j < i /\ Kind(j) = "STORE" => j <= c

EdgeInv == \A i \in Pos :
    i < idx => ClosestWrite(i) /\ ReadsSince(i) /\ ClosestStore(i)

ReadyInv == \A i \in Pos :
    i \in ready <=> i < idx /\ waiting[i] = {} /\ i \notin Issued

PhaseInv == /\ pc = "build" => scheduled = <<>>
            /\ pc = "issue" => idx = Len(block) + 1
            /\ pc \in {"done", "error"} => Issued = Pos

OnceInv == \A k, l \in DOMAIN scheduled : scheduled[k] = scheduled[l] => k = l

OrderInv ==
    \A k \in DOMAIN scheduled, i \in Pos :
        scheduled[k] = i => \A j \in 1..(i - 1) :
            MustPrecede(j, i) => \E m \in 1..(k - 1) : scheduled[m] = j

(* What the code relies on of a block, wherever it was cut from.           *)
Proper(b) == b \in Seq(Instruction) /\ WellFormed(b) /\ WellTyped(b)

TInv == Proper(block) /\ TypeOK

GraphInv == LastWriteInv /\ PendingInv /\ LastStoreInv /\ EdgeInv

IssueInv == WaitingInv /\ ReadyInv /\ PhaseInv /\ OnceInv /\ OrderInv

IInv == TInv /\ GraphInv /\ IssueInv

-----------------------------------------------------------------------------
(* Facts about the data.                                                   *)

(* A set of naturals that is not empty has a least element.                *)
LEMMA NatMin ==
  ASSUME NEW T \in SUBSET Nat, T # {}
  PROVE  \E x \in T : \A y \in T : x <= y
<1> DEFINE R == OpToRel(<, Nat)
<1>1. IsWellFoundedOn(R, Nat)
  BY NatLessThanWellFounded
<1>2. \A x, y \in Nat : y < x => <<y, x>> \in R
  BY DEF OpToRel
<1> HIDE DEF R
<1>3. PICK x \in T : \A y \in T : ~ (<<y, x>> \in R)
  BY <1>1, WFMin
<1>4. \A y \in T : ~ (y < x)
  BY <1>2, <1>3
<1> QED BY <1>3, <1>4

(* What the code relies on of the instructions of a block.                 *)
LEMMA BlockFacts ==
  ASSUME NEW b, Proper(b)
  PROVE  /\ b \in Seq(Instruction)
         /\ Len(b) \in Nat
         /\ \A i \in 1..Len(b) :
              /\ HasDest(b[i]) \in BOOLEAN
              /\ HasDest(b[i]) => b[i].dest \in Reg
              /\ SourceRegs(b[i]) \subseteq Reg
              /\ InstKind(b[i]) \in {"LOAD", "COMPUTE", "STORE", "CONTROL"}
              /\ i < Len(b) => InstKind(b[i]) # "CONTROL"
<1>1. b \in Seq(Instruction) /\ WellFormed(b) /\ WellTyped(b)
  BY DEF Proper
<1>2. Len(b) \in Nat
  BY <1>1
<1>3. ASSUME NEW i \in 1..Len(b)
      PROVE  /\ HasDest(b[i]) \in BOOLEAN
             /\ HasDest(b[i]) => b[i].dest \in Reg
             /\ SourceRegs(b[i]) \subseteq Reg
             /\ InstKind(b[i]) \in {"LOAD", "COMPUTE", "STORE", "CONTROL"}
             /\ i < Len(b) => InstKind(b[i]) # "CONTROL"
  <2>1. b[i] \in Instruction
    BY <1>1
  <2>2. HasDest(b[i]) => b[i].dest \in Reg
    BY <1>1 DEF WellTyped
  <2>3. SourceRegs(b[i]) \subseteq Reg
    BY <2>1, RegAssumption DEF Instruction, SourceRegs
  <2>4. i < Len(b) => InstKind(b[i]) # "CONTROL"
    BY <1>1, <1>2 DEF WellFormed
  <2>5. InstKind(b[i]) \in {"LOAD", "COMPUTE", "STORE", "CONTROL"}
    BY <2>1 DEF InstKind
  <2>6. HasDest(b[i]) \in BOOLEAN
    BY DEF HasDest
  <2> QED BY <2>2, <2>3, <2>4, <2>5, <2>6
<1> QED BY <1>1, <1>2, <1>3

-----------------------------------------------------------------------------
(* Types.                                                                  *)

(* What Build adds are dependencies on earlier positions only.             *)
LEMMA DependenceTypes ==
  ASSUME TInv, LastWriteInv, PendingInv, LastStoreInv, idx \in Pos
  PROVE  /\ Dependences(idx) \subseteq DepKind \X Pos
         /\ \A d \in Dependences(idx) : d[2] < idx
<1>1. /\ Len(block) \in Nat
      /\ HasDest(block[idx]) => block[idx].dest \in Reg
      /\ SourceRegs(block[idx]) \subseteq Reg
  BY BlockFacts DEF TInv, Pos
<1>2. \A d \in RawDeps(idx) : d \in DepKind \X Pos /\ d[2] < idx
  BY DEF RawDeps, ClosestDef, DefPos, DepKind
<1>3. \A d \in WarDeps(idx) : d \in DepKind \X Pos /\ d[2] < idx
  BY <1>1 DEF WarDeps, DepKind, TInv, TypeOK, PendingInv
<1>4. \A d \in WawDeps(idx) : d \in DepKind \X Pos /\ d[2] < idx
  BY <1>1 DEF WawDeps, DepKind, LastWriteInv
<1>5. \A d \in MemDeps(idx) : d \in DepKind \X Pos /\ d[2] < idx
  BY DEF MemDeps, DepKind, LastStoreInv
<1> QED BY <1>2, <1>3, <1>4, <1>5 DEF Dependences

(* Walking over one instruction keeps the types.                           *)
LEMMA BuildType ==
  ASSUME TInv, LastWriteInv, PendingInv, LastStoreInv, Build
  PROVE  TInv' /\ idx \in Pos /\ Pos' = Pos
<1> USE DEF TInv, TypeOK
<1>1. Len(block) \in Nat /\ idx \in Pos /\ Pos' = Pos
  BY BlockFacts DEF Build, Pos
<1>2. HasDest(block[idx]) => block[idx].dest \in Reg
  BY <1>1, BlockFacts DEF Pos
<1>3. Dependences(idx) \subseteq DepKind \X Pos
  BY <1>1, DependenceTypes
<1>4. waiting' \in [Pos -> SUBSET (DepKind \X Pos)]
  BY <1>1, <1>3 DEF Build
<1>5. pendingReads' \in [Reg -> SUBSET Pos]
  BY <1>1 DEF Build, ReadsAfter
<1>6. lastWrite' \in [Reg -> 0..Len(block)]
  BY <1>1, <1>2 DEF Build, Pos
<1>7. lastStore' \in 0..Len(block) /\ ready' \subseteq Pos
  BY <1>1 DEF Build, Pos
<1>8. idx' \in 1..(Len(block) + 1)
  BY <1>1 DEF Build, Pos
<1> QED BY <1>1, <1>4, <1>5, <1>6, <1>7, <1>8 DEF Build

(* Issuing extends the sequence, and with it the set of issued positions.  *)
LEMMA IssueType ==
  ASSUME TInv, NEW best \in Pos, Issue(best)
  PROVE  /\ TInv'
         /\ Pos' = Pos
         /\ Len(scheduled) \in Nat
         /\ Len(scheduled') = Len(scheduled) + 1
         /\ scheduled'[Len(scheduled) + 1] = best
         /\ \A k \in 1..Len(scheduled) : scheduled'[k] = scheduled[k]
         /\ DOMAIN scheduled = 1..Len(scheduled)
         /\ DOMAIN scheduled' = 1..(Len(scheduled) + 1)
         /\ Issued' = Issued \cup {best}
<1> USE DEF TInv, TypeOK
<1>1. Pos' = Pos /\ block' = block
  BY DEF Issue, Pos
<1>2. scheduled \in Seq(Pos) /\ scheduled' = Append(scheduled, best)
  BY DEF Issue
<1>3. /\ scheduled' \in Seq(Pos)
      /\ Len(scheduled) \in Nat
      /\ Len(scheduled') = Len(scheduled) + 1
      /\ scheduled'[Len(scheduled) + 1] = best
      /\ \A k \in 1..Len(scheduled) : scheduled'[k] = scheduled[k]
      /\ DOMAIN scheduled = 1..Len(scheduled)
      /\ DOMAIN scheduled' = 1..(Len(scheduled) + 1)
  BY <1>2
<1>4. Issued' = Issued \cup {best}
  <2>1. \A x \in Issued : x \in Issued'
    <3>1. \A k \in DOMAIN scheduled :
             k \in DOMAIN scheduled' /\ scheduled'[k] = scheduled[k]
      BY <1>3
    <3> HIDE DEF TInv, TypeOK
    <3> TAKE x \in Issued
    <3>2. PICK k \in DOMAIN scheduled : x = scheduled[k]
      BY DEF Issued
    <3>3. k \in DOMAIN scheduled' /\ x = scheduled'[k]
      BY <3>1, <3>2
    <3> QED BY <3>3 DEF Issued
  <2>2. best \in Issued'
    <3>1. Len(scheduled) + 1 \in DOMAIN scheduled'
      BY <1>3
    <3> HIDE DEF TInv, TypeOK
    <3> QED BY <1>3, <3>1 DEF Issued
  <2>3. \A x \in Issued' : x \in Issued \cup {best}
    BY <1>3 DEF Issued
  <2> QED BY <2>1, <2>2, <2>3
<1>5. waiting' \in [Pos -> SUBSET (DepKind \X Pos)]
  BY <1>1 DEF Issue, Without
<1>6. ready' \subseteq Pos
  BY <1>1 DEF Issue
<1> QED BY <1>1, <1>3, <1>4, <1>5, <1>6 DEF Issue

-----------------------------------------------------------------------------
(* Building preserves the invariant.                                       *)

(* And what is remembered of the instructions walked over.                 *)
LEMMA BuildGraph ==
  ASSUME IInv, Build
  PROVE  LastWriteInv' /\ PendingInv' /\ LastStoreInv'
<1> USE DEF IInv, GraphInv
<1>1. idx \in Pos /\ Pos' = Pos /\ block' = block /\ idx' = idx + 1
  BY BuildType DEF Build
<1>2. Len(block) \in Nat /\ Pos = 1..Len(block)
  BY BlockFacts DEF TInv, Pos
<1>3. HasDest(block[idx]) => block[idx].dest \in Reg
  BY <1>1, BlockFacts DEF TInv, Pos
<1>4. /\ \A i \in Pos, r \in Reg : /\ WritesReg(i, r)' = WritesReg(i, r)
                                 /\ ReadsReg(i, r)' = ReadsReg(i, r)
      /\ \A i \in Pos : Kind(i)' = Kind(i)
  BY <1>1 DEF WritesReg, ReadsReg, Kind
<1>5. \A r \in Reg : lastWrite'[r] = IF WritesReg(idx, r) THEN idx ELSE lastWrite[r]
  BY <1>3 DEF Build, TInv, TypeOK, WritesReg
<1>6. \A r \in Reg : lastWrite[r] \in Int
  BY <1>2 DEF TInv, TypeOK
<1>7. LastWriteInv'
  BY <1>1, <1>2, <1>4, <1>5, <1>6 DEF LastWriteInv
<1>8. \A r \in Reg : pendingReads'[r] =
        (IF WritesReg(idx, r) THEN {} ELSE pendingReads[r])
        \cup (IF ReadsReg(idx, r) THEN {idx} ELSE {})
  BY DEF Build, ReadsAfter, WritesReg, ReadsReg
<1>9. PendingInv'
  <2> SUFFICES ASSUME NEW r \in Reg
               PROVE  /\ \A i \in pendingReads'[r] : i < idx + 1
                      /\ \A i \in Pos : i < idx + 1 /\ ReadsReg(i, r)
                                        /\ lastWrite'[r] <= i
                                          => i \in pendingReads'[r]
    BY <1>1, <1>4 DEF PendingInv
  <2>1. pendingReads[r] \subseteq Pos
    BY DEF TInv, TypeOK
  <2>2. \A i \in pendingReads'[r] : i < idx + 1
    BY <1>1, <1>2, <1>8, <2>1 DEF PendingInv
  <2>3. ASSUME NEW i \in Pos, i < idx + 1, ReadsReg(i, r), lastWrite'[r] <= i
        PROVE  i \in pendingReads'[r]
    <3>1. CASE i = idx
      BY <3>1, <1>8, <2>3
    <3>2. CASE i < idx
      <4>1. ~ WritesReg(idx, r)
        BY <3>2, <2>3, <1>1, <1>2, <1>5
      <4> QED BY <4>1, <3>2, <2>3, <1>5, <1>8 DEF PendingInv
    <3> QED BY <3>1, <3>2, <2>3, <1>1, <1>2
  <2> QED BY <2>2, <2>3
<1>10. lastStore' = IF Kind(idx) = "STORE" THEN idx ELSE lastStore
  BY DEF Build, Kind
<1>11. lastStore \in Int
  BY <1>2 DEF TInv, TypeOK
<1>12. LastStoreInv'
  BY <1>1, <1>2, <1>4, <1>10, <1>11 DEF LastStoreInv
<1> QED BY <1>7, <1>9, <1>12

(* The edges of the instruction just built reach the closest definition,   *)
(* the reads since it, and the closest store.                              *)
LEMMA BuildEdges ==
  ASSUME IInv, Build
  PROVE  EdgeInv'
<1> USE DEF IInv, GraphInv
<1>1. idx \in Pos /\ Pos' = Pos /\ block' = block /\ idx' = idx + 1
  BY BuildType DEF Build
<1>0. PICK n \in Pos : n = idx
  BY <1>1
<1>2. Len(block) \in Nat /\ Pos = 1..Len(block)
  BY BlockFacts DEF TInv, Pos
<1>3. /\ \A i \in Pos, r \in Reg : /\ WritesReg(i, r)' = WritesReg(i, r)
                                 /\ ReadsReg(i, r)' = ReadsReg(i, r)
      /\ \A i \in Pos : Kind(i)' = Kind(i)
  BY <1>1 DEF WritesReg, ReadsReg, Kind
<1>4. Issued' = Issued
  BY DEF Build, Issued
<1>5. \A i \in Pos : i # n => waiting'[i] = waiting[i]
  BY <1>0 DEF Build, TInv, TypeOK
<1>6. waiting'[n] = Dependences(n)
  BY <1>0, <1>1 DEF Build, TInv, TypeOK
<1>7. \A i \in Pos, j \in Pos : i # n => Waits(i, j)' = Waits(i, j)
  BY <1>4, <1>5 DEF Waits
<1>8. \A j : (\E k \in DepKind : <<k, j>> \in Dependences(n)) => Waits(n, j)'
  BY <1>6 DEF Waits
<1>9. ASSUME NEW i \in Pos, i < n
      PROVE  ClosestWrite(i)' /\ ReadsSince(i)' /\ ClosestStore(i)'
  <2>1. ClosestWrite(i) /\ ReadsSince(i) /\ ClosestStore(i) /\ i # n
    BY <1>0, <1>1, <1>2, <1>9 DEF EdgeInv
  <2>2. ClosestWrite(i)'
    BY <2>1, <1>0, <1>1, <1>3, <1>7 DEF ClosestWrite
  <2>3. ReadsSince(i)'
    BY <2>1, <1>0, <1>1, <1>3, <1>7 DEF ReadsSince
  <2>4. ClosestStore(i)'
    BY <2>1, <1>0, <1>1, <1>3, <1>7 DEF ClosestStore
  <2> QED BY <2>2, <2>3, <2>4
<1>10. ClosestWrite(n)'
  <2> SUFFICES ASSUME NEW r \in Reg, ReadsReg(n, r) \/ WritesReg(n, r),
                      NEW w \in Pos, w < n, WritesReg(w, r)
               PROVE  \E c \in Pos :
                        /\ c < n
                        /\ WritesReg(c, r)
                        /\ Waits(n, c)'
                        /\ \A j \in Pos : j < n /\ WritesReg(j, r) => j <= c
    BY <1>0, <1>1, <1>3 DEF ClosestWrite
  <2> DEFINE c == lastWrite[r]
  <2>1. /\ c \in Pos /\ c < n /\ WritesReg(c, r)
        /\ \A j \in Pos : j < n /\ WritesReg(j, r) => j <= c
    BY <1>0, <1>1, <1>2 DEF LastWriteInv, TInv, TypeOK
  <2>2. CASE WritesReg(n, r)
    <3>1. <<"WAW", c>> \in Dependences(n)
      BY <2>1, <2>2, <1>0, <1>2 DEF Dependences, WawDeps, WritesReg
    <3> QED BY <3>1, <2>1, <1>8 DEF DepKind
  <2>3. CASE ReadsReg(n, r)
    <3>1. c \in ClosestDef(r, n)
      BY <1>0, <2>1 DEF ClosestDef, DefPos, WritesReg
    <3>2. <<"RAW", c>> \in Dependences(n)
      BY <2>3, <3>1 DEF Dependences, RawDeps, ReadsReg
    <3> QED BY <3>2, <2>1, <1>8 DEF DepKind
  <2> QED BY <2>2, <2>3
<1>11. ReadsSince(n)'
  <2> SUFFICES ASSUME NEW r \in Reg, WritesReg(n, r),
                      NEW p \in Pos, p < n, ReadsReg(p, r),
                      \A j \in Pos : j < n /\ WritesReg(j, r) => j <= p
               PROVE  Waits(n, p)'
    BY <1>0, <1>1, <1>3 DEF ReadsSince
  <2>1. lastWrite[r] <= p
    BY <1>0, <1>1, <1>2 DEF LastWriteInv, TInv, TypeOK
  <2>2. p \in pendingReads[r]
    BY <1>0, <2>1 DEF PendingInv
  <2>3. <<"WAR", p>> \in Dependences(n)
    BY <1>0, <2>2 DEF Dependences, WarDeps, WritesReg
  <2> QED BY <2>3, <1>8 DEF DepKind
<1>12. ClosestStore(n)'
  <2> SUFFICES ASSUME Kind(n) = "LOAD",
                      NEW s \in Pos, s < n, Kind(s) = "STORE"
               PROVE  \E c \in Pos :
                        /\ c < n
                        /\ Kind(c) = "STORE"
                        /\ Waits(n, c)'
                        /\ \A j \in Pos : j < n /\ Kind(j) = "STORE" => j <= c
    BY <1>0, <1>1, <1>3 DEF ClosestStore
  <2>1. /\ lastStore \in Pos /\ lastStore < n /\ Kind(lastStore) = "STORE"
        /\ \A j \in Pos : j < n /\ Kind(j) = "STORE" => j <= lastStore
    BY <1>0, <1>1, <1>2 DEF LastStoreInv, TInv, TypeOK
  <2>2. <<"MEM", lastStore>> \in Dependences(n)
    BY <1>0, <2>1, <1>2 DEF Dependences, MemDeps, Kind
  <2> QED BY <2>1, <2>2, <1>8 DEF DepKind
<1>13. \A i \in Pos : i < idx + 1 => i < n \/ i = n
  BY <1>0, <1>1, <1>2
<1> QED BY <1>0, <1>1, <1>9, <1>10, <1>11, <1>12, <1>13 DEF EdgeInv

(* Nothing is issued while the graph is built.                             *)
LEMMA BuildIssue ==
  ASSUME IInv, Build
  PROVE  IssueInv'
<1> USE DEF IInv, GraphInv, IssueInv
<1>1. /\ idx \in Pos /\ Pos' = Pos /\ block' = block /\ idx' = idx + 1
      /\ scheduled' = scheduled /\ pc' = pc /\ pc = "build"
  BY BuildType DEF Build
<1>2. Len(block) \in Nat /\ Pos = 1..Len(block)
  BY BlockFacts DEF TInv, Pos
<1>3. scheduled = <<>> /\ Issued = {} /\ Issued' = {}
  BY <1>1 DEF PhaseInv, Issued
<1>4. \A i \in Pos : waiting'[i] = IF i = idx THEN Dependences(idx) ELSE waiting[i]
  BY DEF Build, TInv, TypeOK
<1>5. WaitingInv'
  BY <1>1, <1>3, <1>4, DependenceTypes DEF WaitingInv
<1>6. ReadyInv'
  <2>1. idx \notin ready
    BY <1>1, <1>2 DEF ReadyInv
  <2>2. ready' = IF Dependences(idx) = {} THEN ready \cup {idx} ELSE ready
    BY DEF Build
  <2> QED BY <2>1, <2>2, <1>1, <1>2, <1>3, <1>4 DEF ReadyInv
<1>7. PhaseInv'
  BY <1>1, <1>3 DEF PhaseInv
<1>8. OnceInv' /\ OrderInv'
  BY <1>1, <1>3 DEF OnceInv, OrderInv
<1> QED BY <1>5, <1>6, <1>7, <1>8

-----------------------------------------------------------------------------
(* Issuing preserves the invariant.                                        *)

(* While something is left to issue, its least position is ready.          *)
LEMMA LeastIsReady ==
  ASSUME IInv, pc = "issue", Pos \ Issued # {}
  PROVE  \E m \in ready : m \notin Issued /\ \A j \in Pos : j \notin Issued => m <= j
<1> USE DEF IInv, IssueInv
<1>1. Len(block) \in Nat /\ Pos = 1..Len(block)
  BY BlockFacts DEF TInv, Pos
<1> DEFINE Left == Pos \ Issued
<1>2. PICK m \in Left : \A j \in Left : m <= j
  <2>1. Left \in SUBSET Nat /\ Left # {}
    BY <1>1
  <2> HIDE DEF Left
  <2> QED BY <2>1, NatMin
<1>3. waiting[m] \subseteq DepKind \X Pos
  BY <1>2 DEF TInv, TypeOK
<1>4. \A d \in waiting[m] : d[2] \in Pos /\ d[2] < m /\ d[2] \notin Issued
  BY <1>2, <1>3 DEF WaitingInv
<1>5. waiting[m] = {}
  BY <1>1, <1>2, <1>4
<1>6. m < idx
  BY <1>1, <1>2 DEF PhaseInv
<1> QED BY <1>2, <1>5, <1>6 DEF ReadyInv

(* A store or the final branch is issued when nothing before it is left.   *)
LEMMA NothingLeftBehind ==
  ASSUME IInv, NEW best \in Pos, Issue(best), Kind(best) \in {"STORE", "CONTROL"}
  PROVE  \A j \in Pos : j < best => j \in Issued
<1> SUFFICES ASSUME NEW j \in Pos, j < best, j \notin Issued
             PROVE  FALSE
  OBVIOUS
<1>1. Len(block) \in Nat /\ Pos = 1..Len(block) /\ Proper(block)
  BY BlockFacts DEF IInv, TInv, Pos
<1>2. PICK m \in ready : m \notin Issued /\ \A l \in Pos : l \notin Issued => m <= l
  BY LeastIsReady DEF Issue
<1>3. m \in Pos /\ m < best
  BY <1>1, <1>2 DEF IInv, TInv, TypeOK
<1>4. Kind(m) \in {"LOAD", "COMPUTE", "STORE"}
  <2>1. m < Len(block)
    BY <1>1, <1>3
  <2> QED BY <2>1, <1>1, <1>3, BlockFacts DEF Kind
<1>5. Before(best, m)
  BY <1>2 DEF Issue
<1>6. Priority(best) \in {best + 1, best + 999}
  BY <1>1 DEF Priority, Kind
<1>7. Priority(m) \in {0, 1, m + 1}
  BY <1>1, <1>3, <1>4 DEF Priority, Kind
<1> QED BY <1>1, <1>3, <1>5, <1>6, <1>7 DEF Before

(* An instruction that must precede an issued one is issued.               *)
LEMMA IssuedIsClosed ==
  ASSUME IInv, NEW i \in Issued, NEW j \in Pos, j < i, MustPrecede(j, i)
  PROVE  j \in Issued
<1> USE DEF IInv, IssueInv
<1>1. Len(block) \in Nat /\ Pos = 1..Len(block)
  BY BlockFacts DEF TInv, Pos
<1>2. PICK k \in DOMAIN scheduled : scheduled[k] = i
  BY DEF Issued
<1>3. scheduled \in Seq(Pos) /\ Len(scheduled) \in Nat /\ DOMAIN scheduled = 1..Len(scheduled)
  BY DEF TInv, TypeOK
<1>4. i \in Pos /\ j \in 1..(i - 1)
  BY <1>1, <1>2, <1>3
<1>5. PICK m \in 1..(k - 1) : scheduled[m] = j
  BY <1>2, <1>4 DEF OrderInv
<1> QED BY <1>2, <1>3, <1>5 DEF Issued

(* What is issued next has everything behind it that must precede it.      *)
LEMMA IssueInOrder ==
  ASSUME IInv, NEW best \in Pos, Issue(best),
         NEW j \in Pos, j < best, MustPrecede(j, best)
  PROVE  j \in Issued
<1>1. Len(block) \in Nat /\ Pos = 1..Len(block)
  BY BlockFacts DEF IInv, TInv, Pos
<1>2. best < idx /\ waiting[best] = {} /\ best \notin Issued
  BY DEF Issue, IInv, IssueInv, ReadyInv
<1>3. ClosestWrite(best) /\ ReadsSince(best) /\ ClosestStore(best)
  BY <1>2 DEF IInv, GraphInv, EdgeInv
<1>4. \A c : Waits(best, c) => c \in Issued
  BY <1>2 DEF Waits
<1>5. CASE Kind(best) \in {"STORE", "CONTROL"}
  BY <1>5, NothingLeftBehind
<1>6. CASE Kind(j) = "STORE" /\ Kind(best) = "LOAD"
  <2>1. PICK c \in Pos : /\ Kind(c) = "STORE" /\ Waits(best, c)
                         /\ \A l \in Pos : l < best /\ Kind(l) = "STORE" => l <= c
    BY <1>3, <1>6 DEF ClosestStore
  <2>2. c \in Issued /\ j <= c
    BY <2>1, <1>4, <1>6
  <2>3. CASE j = c
    BY <2>2, <2>3
  <2>4. CASE j < c
    BY <2>1, <2>2, <2>4, IssuedIsClosed DEF MustPrecede
  <2> QED BY <2>2, <2>3, <2>4, <1>1
<1>7. ASSUME NEW r \in Reg, WritesReg(j, r), ReadsReg(best, r) \/ WritesReg(best, r)
      PROVE  j \in Issued
  <2>1. PICK c \in Pos : /\ WritesReg(c, r) /\ Waits(best, c)
                         /\ \A l \in Pos : l < best /\ WritesReg(l, r) => l <= c
    BY <1>3, <1>7 DEF ClosestWrite
  <2>2. c \in Issued /\ j <= c
    BY <2>1, <1>4, <1>7
  <2>3. CASE j = c
    BY <2>2, <2>3
  <2>4. CASE j < c
    <3>1. MustPrecede(j, c)
      BY <2>1, <1>7 DEF MustPrecede
    <3> QED BY <2>2, <2>4, <3>1, IssuedIsClosed
  <2> QED BY <2>2, <2>3, <2>4, <1>1
<1>8. ASSUME NEW r \in Reg, ReadsReg(j, r), WritesReg(best, r)
      PROVE  j \in Issued
  <2>1. CASE \A l \in Pos : l < best /\ WritesReg(l, r) => l <= j
    BY <2>1, <1>3, <1>4, <1>8 DEF ReadsSince
  <2>2. CASE \E l \in Pos : l < best /\ WritesReg(l, r) /\ ~ (l <= j)
    <3>1. PICK c \in Pos : /\ WritesReg(c, r) /\ Waits(best, c)
                           /\ \A l \in Pos : l < best /\ WritesReg(l, r) => l <= c
      BY <2>2, <1>3, <1>8 DEF ClosestWrite
    <3>2. c \in Issued /\ j < c
      BY <3>1, <2>2, <1>1, <1>4
    <3>3. MustPrecede(j, c)
      BY <3>1, <1>8 DEF MustPrecede
    <3> QED BY <3>2, <3>3, IssuedIsClosed
  <2> QED BY <2>1, <2>2
<1> QED BY <1>5, <1>6, <1>7, <1>8 DEF MustPrecede

(* Issuing an instruction all earlier ones of which it must follow are     *)
(* issued.                                                                 *)
LEMMA IssuePreserves ==
  ASSUME IInv, NEW best \in Pos, Issue(best)
  PROVE  IInv'
<1> USE DEF IInv, IssueInv, GraphInv
<1>1. Len(block) \in Nat /\ Pos = 1..Len(block)
  BY BlockFacts DEF TInv, Pos
<1>2. /\ TInv' /\ Pos' = Pos /\ Issued' = Issued \cup {best}
      /\ Len(scheduled) \in Nat
      /\ DOMAIN scheduled = 1..Len(scheduled)
      /\ DOMAIN scheduled' = 1..(Len(scheduled) + 1)
      /\ scheduled'[Len(scheduled) + 1] = best
      /\ \A k \in 1..Len(scheduled) : scheduled'[k] = scheduled[k]
  BY IssueType
<1>3. /\ block' = block /\ pc = "issue" /\ pc' = pc /\ idx' = idx
      /\ lastStore' = lastStore /\ lastWrite' = lastWrite
      /\ pendingReads' = pendingReads
  BY DEF Issue
<1>4. /\ \A i \in Pos, r \in Reg : /\ WritesReg(i, r)' = WritesReg(i, r)
                                 /\ ReadsReg(i, r)' = ReadsReg(i, r)
      /\ \A i \in Pos : Kind(i)' = Kind(i)
  BY <1>3 DEF WritesReg, ReadsReg, Kind
<1>5. best \in ready /\ best < idx /\ waiting[best] = {} /\ best \notin Issued
  BY DEF Issue, ReadyInv
<1>6. \A i \in Pos : waiting'[i] = {d \in waiting[i] : d[2] # best}
  BY DEF Issue, Without
<1>7. LastWriteInv' /\ PendingInv' /\ LastStoreInv'
  <2>1. LastWriteInv'
    BY <1>2, <1>3, <1>4, <1>1 DEF LastWriteInv, TInv, TypeOK
  <2>2. PendingInv'
    BY <1>2, <1>3, <1>4 DEF PendingInv
  <2>3. LastStoreInv'
    BY <1>2, <1>3, <1>4, <1>1 DEF LastStoreInv, TInv, TypeOK
  <2> QED BY <2>1, <2>2, <2>3
<1>8. \A i, j \in Pos : Waits(i, j) => Waits(i, j)'
  BY <1>2, <1>6 DEF Waits
<1>9. EdgeInv'
  <2> SUFFICES ASSUME NEW i \in Pos, i < idx
               PROVE  ClosestWrite(i)' /\ ReadsSince(i)' /\ ClosestStore(i)'
    BY <1>2, <1>3 DEF EdgeInv
  <2>1. ClosestWrite(i) /\ ReadsSince(i) /\ ClosestStore(i)
    BY DEF EdgeInv
  <2>2. ClosestWrite(i)'
    BY <2>1, <1>2, <1>4, <1>8 DEF ClosestWrite
  <2>3. ReadsSince(i)'
    BY <2>1, <1>2, <1>4, <1>8 DEF ReadsSince
  <2>4. ClosestStore(i)'
    BY <2>1, <1>2, <1>4, <1>8 DEF ClosestStore
  <2> QED BY <2>2, <2>3, <2>4
<1>10. WaitingInv'
  BY <1>2, <1>5, <1>6 DEF WaitingInv
<1>11. ReadyInv'
  <2>1. ready' = (ready \ {best})
                 \cup {i \in Pos : waiting[i] # {} /\ waiting'[i] = {}}
    BY <1>6 DEF Issue, Without
  <2>2. ASSUME NEW i \in Pos
        PROVE  i \in ready' <=> i < idx /\ waiting'[i] = {} /\ i \notin Issued'
    <3>1. CASE i = best
      BY <3>1, <2>1, <1>2, <1>5
    <3>2. CASE i # best /\ waiting[i] = {}
      BY <3>2, <2>1, <1>2, <1>6 DEF ReadyInv
    <3>3. CASE i # best /\ waiting[i] # {}
      <4>1. i \notin Issued
        BY <3>3 DEF WaitingInv
      <4>2. i < idx
        BY <1>1, <1>3 DEF PhaseInv
      <4> QED BY <3>3, <4>1, <4>2, <2>1, <1>2 DEF ReadyInv
    <3> QED BY <3>1, <3>2, <3>3
  <2> QED BY <2>2, <1>2, <1>3 DEF ReadyInv
<1>12. PhaseInv'
  BY <1>3 DEF PhaseInv
<1>13. OnceInv'
  <2>1. \A k \in 1..Len(scheduled) : scheduled[k] # best
    BY <1>2, <1>5 DEF Issued
  <2> QED BY <2>1, <1>2 DEF OnceInv
<1>14. OrderInv'
  <2> SUFFICES ASSUME NEW k \in 1..(Len(scheduled) + 1), NEW i \in Pos,
                      scheduled'[k] = i, NEW j \in 1..(i - 1),
                      MustPrecede(j, i)'
               PROVE  \E m \in 1..(k - 1) : scheduled'[m] = j
    BY <1>2 DEF OrderInv
  <2>0. j \in Pos /\ j < i
    BY <1>1
  <2>1. MustPrecede(j, i)
    BY <2>0, <1>4 DEF MustPrecede
  <2>2. CASE k = Len(scheduled) + 1
    <3>1. j \in Issued
      BY <2>0, <2>1, <2>2, <1>2, IssueInOrder
    <3> QED BY <3>1, <2>2, <1>2 DEF Issued
  <2>3. CASE k \in 1..Len(scheduled)
    <3>1. PICK m \in 1..(k - 1) : scheduled[m] = j
      BY <2>1, <2>3, <1>2 DEF OrderInv
    <3> QED BY <3>1, <2>3, <1>2
  <2> QED BY <2>2, <2>3, <1>2
<1> QED BY <1>2, <1>7, <1>9, <1>10, <1>11, <1>12, <1>13, <1>14

(* A step that only moves pc keeps the invariant.                          *)
LEMMA OnlyPc ==
  ASSUME IInv, UNCHANGED <<block, idx, lastStore, lastWrite, pendingReads,
                           waiting, ready, scheduled>>,
         pc' \in {"build", "issue", "done", "error"}, PhaseInv'
  PROVE  IInv'
<1> USE DEF IInv, GraphInv, IssueInv
<1>1. Pos' = Pos /\ Issued' = Issued
  BY DEF Pos, Issued
<1>2. TInv'
  BY <1>1 DEF TInv, TypeOK
<1>3. GraphInv'
  BY <1>1 DEF LastWriteInv, PendingInv, LastStoreInv, EdgeInv, ClosestWrite,
              ReadsSince, ClosestStore, Waits, WritesReg, ReadsReg, Kind
<1>4. WaitingInv' /\ ReadyInv' /\ OnceInv'
  BY <1>1 DEF WaitingInv, ReadyInv, OnceInv
<1>5. OrderInv'
  BY <1>1 DEF OrderInv, MustPrecede, WritesReg, ReadsReg, Kind
<1> QED BY <1>2, <1>3, <1>4, <1>5

(* The graph is complete.                                                  *)
LEMMA BuildDonePreserves ==
  ASSUME IInv, BuildDone
  PROVE  IInv'
<1>1. idx = Len(block) + 1
  BY BlockFacts DEF BuildDone, IInv, TInv, TypeOK
<1>2. PhaseInv'
  BY <1>1 DEF BuildDone, PhaseInv
<1> QED BY <1>2, OnlyPc DEF BuildDone

(* The ready set runs empty only when everything is issued.                *)
LEMMA FinishPreserves ==
  ASSUME IInv, Finish
  PROVE  IInv'
<1>1. Issued = Pos
  <2>1. Issued \subseteq Pos
    BY DEF IInv, TInv, TypeOK, Issued
  <2>2. Pos \ Issued = {}
    BY LeastIsReady DEF Finish
  <2> QED BY <2>1, <2>2
<1>2. Pos' = Pos /\ Issued' = Issued /\ pc' \in {"done", "error"}
  BY DEF Finish, Pos, Issued
<1>3. PhaseInv'
  BY <1>1, <1>2 DEF PhaseInv
<1> QED BY <1>2, <1>3, OnlyPc DEF Finish

(* Before the first instruction nothing is known.                          *)
LEMMA InitIInv == Init => IInv
<1> SUFFICES ASSUME Init
             PROVE  IInv
  OBVIOUS
<1>1. /\ Len(block) \in Nat /\ block \in Seq(Instruction)
      /\ Pos = 1..Len(block) /\ Proper(block)
  BY BlocksAssumption, BlockFacts DEF Init, Pos, Proper
<1>4. /\ idx = 1 /\ lastStore = 0 /\ ready = {}
      /\ lastWrite = [r \in Reg |-> 0]
      /\ pendingReads = [r \in Reg |-> {}]
      /\ waiting = [i \in Pos |-> {}]
  BY DEF Init
<1>5. GraphInv
  BY <1>1, <1>4 DEF GraphInv, LastWriteInv, PendingInv, LastStoreInv, EdgeInv
<1>2. CASE Len(block) <= 2
  <2>1. scheduled = [i \in Pos |-> i] /\ pc = "done"
    BY <1>2 DEF Init
  <2>2. scheduled \in Seq(Pos) /\ DOMAIN scheduled = Pos
    BY <2>1, <1>1
  <2>3. Issued = Pos
    BY <2>1 DEF Issued
  <2>4. TInv
    BY <2>1, <2>2, <1>1, <1>4 DEF TInv, TypeOK
  <2>5. WaitingInv /\ ReadyInv /\ PhaseInv /\ OnceInv /\ OrderInv
    BY <2>1, <2>3, <1>1, <1>4 DEF WaitingInv, ReadyInv, PhaseInv, OnceInv, OrderInv
  <2> QED BY <2>4, <2>5, <1>5 DEF IInv, IssueInv
<1>3. CASE ~ (Len(block) <= 2)
  <2>1. scheduled = <<>> /\ pc = "build"
    BY <1>3 DEF Init
  <2>2. Issued = {}
    BY <2>1 DEF Issued
  <2>3. TInv
    BY <2>1, <1>1, <1>4 DEF TInv, TypeOK
  <2>4. WaitingInv /\ ReadyInv /\ PhaseInv /\ OnceInv /\ OrderInv
    BY <2>1, <2>2, <1>1, <1>4 DEF WaitingInv, ReadyInv, PhaseInv, OnceInv, OrderInv
  <2> QED BY <2>3, <2>4, <1>5 DEF IInv, IssueInv
<1> QED BY <1>2, <1>3

(* No step breaks the invariant.                                           *)
LEMMA NextIInv == IInv /\ [Next]_vars => IInv'
<1> SUFFICES ASSUME IInv, [Next]_vars
             PROVE  IInv'
  OBVIOUS
<1>1. CASE Build
  BY <1>1, BuildType, BuildGraph, BuildEdges, BuildIssue DEF IInv, GraphInv
<1>2. CASE BuildDone
  BY <1>2, BuildDonePreserves
<1>3. CASE \E best \in Pos : Issue(best)
  BY <1>3, IssuePreserves
<1>4. CASE Finish
  BY <1>4, FinishPreserves
<1>5. CASE UNCHANGED vars
  <2>1. Pos' = Pos /\ Issued' = Issued
    BY <1>5 DEF vars, Pos, Issued
  <2>2. PhaseInv'
    BY <1>5, <2>1 DEF vars, PhaseInv, IInv, IssueInv
  <2>3. pc \in {"build", "issue", "done", "error"}
    BY DEF IInv, TInv, TypeOK
  <2> QED BY <1>5, <2>2, <2>3, OnlyPc DEF vars
<1> QED BY <1>1, <1>2, <1>3, <1>4, <1>5 DEF Next

(* The invariant holds at all times.                                       *)
LEMMA Invariance == Spec => []IInv
  BY InitIInv, NextIInv, PTL DEF Spec

(* When the loop ends, every instruction has been issued once.             *)
LEMMA CompleteState == IInv => Complete
  <1> SUFFICES ASSUME IInv, pc \in {"done", "error"}
               PROVE  Issued = Pos /\ Len(scheduled) = Len(block)
    BY DEF Complete
  <1>1. Issued = Pos
    BY DEF IInv, IssueInv, PhaseInv
  <1>2. Len(block) \in Nat /\ Pos = 1..Len(block)
    BY BlockFacts DEF IInv, TInv, Pos
  <1>3. /\ scheduled \in [1..Len(scheduled) -> Pos] /\ Len(scheduled) \in Nat
        /\ DOMAIN scheduled = 1..Len(scheduled)
    BY DEF IInv, TInv, TypeOK
  <1>4. scheduled \in Bijection(1..Len(scheduled), Pos)
    <2>1. \A x, y \in 1..Len(scheduled) : scheduled[x] = scheduled[y] => x = y
      BY <1>3 DEF IInv, IssueInv, OnceInv
    <2>2. \A p \in Pos : \E x \in 1..Len(scheduled) : scheduled[x] = p
      BY <1>1, <1>3 DEF Issued
    <2> QED BY <1>3, <2>1, <2>2
          DEF Bijection, Injection, Surjection, IsInjective
  <1>5. Cardinality(Pos) = Len(scheduled)
    BY <1>3, <1>4, FS_CountingElements DEF ExistsBijection
  <1>6. Cardinality(Pos) = Len(block)
    <2>1. Cardinality(1..Len(block)) =
            IF 1 > Len(block) THEN 0 ELSE Len(block) - 1 + 1
      BY <1>2, FS_Interval, 1 \in Int, Len(block) \in Int
    <2> QED BY <1>2, <2>1
  <1> QED BY <1>1, <1>5, <1>6

-----------------------------------------------------------------------------
(* The theorems.                                                           *)

(* Every variable of the scheduler keeps its type (scheduler.py 18-125).   *)
THEOREM TypeCorrect == Spec => []TypeOK
<1>1. IInv => TypeOK
  BY DEF IInv, TInv
<1> QED BY <1>1, Invariance, PTL

(* Two instructions that reach one register as the second of a pair name   *)
(* the same first register, so the edges for that one order them as well.  *)
LEMMA AlignedIsNamed ==
  ASSUME NEW a, NEW b, HasDest(a) => a.dest \in Reg, HasDest(b) => b.dest \in Reg,
         a.srcs \subseteq Reg, b.srcs \subseteq Reg, AlignedConflict(a, b)
  PROVE  Clash(NamedWrites(a), NamedReads(a), NamedWrites(b), NamedReads(b))
<1>1. /\ NamedWrites(a) \subseteq Reg /\ NamedReads(a) \subseteq Reg
      /\ NamedWrites(b) \subseteq Reg /\ NamedReads(b) \subseteq Reg
  BY DEF NamedWrites, NamedReads
<1>2. \A r, s \in Reg : r + 1 = s + 1 => r = s
  BY RegAssumption
<1>3. /\ \A x \in SecondWrites(a) : \E r \in NamedWrites(a) : x = r + 1
      /\ \A x \in SecondReads(a) : \E r \in NamedReads(a) : x = r + 1
      /\ \A x \in SecondWrites(b) : \E r \in NamedWrites(b) : x = r + 1
      /\ \A x \in SecondReads(b) : \E r \in NamedReads(b) : x = r + 1
  BY DEF SecondWrites, SecondReads, NamedReads
<1>4. CASE Clash(SecondWrites(a), SecondReads(a), SecondWrites(b), SecondReads(b))
  <2>1. CASE SecondWrites(a) \cap SecondWrites(b) # {}
    <3>1. PICK r \in NamedWrites(a), s \in NamedWrites(b) : r + 1 = s + 1
      BY <2>1, <1>3
    <3> QED BY <3>1, <1>1, <1>2 DEF Clash
  <2>2. CASE SecondWrites(a) \cap SecondReads(b) # {}
    <3>1. PICK r \in NamedWrites(a), s \in NamedReads(b) : r + 1 = s + 1
      BY <2>2, <1>3
    <3> QED BY <3>1, <1>1, <1>2 DEF Clash
  <2>3. CASE SecondReads(a) \cap SecondWrites(b) # {}
    <3>1. PICK r \in NamedReads(a), s \in NamedWrites(b) : r + 1 = s + 1
      BY <2>3, <1>3
    <3> QED BY <3>1, <1>1, <1>2 DEF Clash
  <2> QED BY <1>4, <2>1, <2>2, <2>3 DEF Clash
<1> QED BY <1>4 DEF AlignedConflict

(* So the block scheduler keeps their order.                               *)
LEMMA AlignedPrecedes ==
  ASSUME Proper(block), NEW i \in 1..Len(block), NEW j \in 1..Len(block),
         AlignedConflict(block[j], block[i])
  PROVE  MustPrecede(j, i)
<1>1. /\ HasDest(block[i]) => block[i].dest \in Reg
      /\ HasDest(block[j]) => block[j].dest \in Reg
      /\ block[i] \in Instruction /\ block[j] \in Instruction
  BY BlockFacts
<1>2. block[i].srcs \subseteq Reg /\ block[j].srcs \subseteq Reg
  BY <1>1 DEF Instruction
<1>3. Clash(NamedWrites(block[j]), NamedReads(block[j]),
            NamedWrites(block[i]), NamedReads(block[i]))
  BY <1>1, <1>2, AlignedIsNamed
<1>4. /\ NamedReads(block[i]) \subseteq SourceRegs(block[i])
      /\ NamedReads(block[j]) \subseteq SourceRegs(block[j])
  BY DEF NamedReads, SourceRegs
<1> QED BY <1>1, <1>2, <1>3, <1>4 DEF MustPrecede, Clash, NamedWrites, WritesReg,
                                      ReadsReg

(* Two accesses of one general register of which one writes keep their     *)
(* program order, if both name it or both reach it as the second of a      *)
(* pair, for blocks of any length (scheduler.py 54-84).                    *)
THEOREM RegisterOrderHolds == Spec => []RegisterOrder
<1>1. IInv => RegisterOrder
  <2> SUFFICES ASSUME IInv, NEW k \in DOMAIN scheduled,
                      NEW j \in 1..(scheduled[k] - 1),
                      AlignedConflict(block[j], block[scheduled[k]])
               PROVE  \E m \in 1..(k - 1) : scheduled[m] = j
    BY DEF RegisterOrder, KeepsOrder
  <2>1. PICK i \in Pos : scheduled[k] = i
    BY DEF IInv, TInv, TypeOK
  <2>2. Len(block) \in Nat /\ Pos = 1..Len(block) /\ Proper(block)
    BY BlockFacts DEF IInv, TInv, Pos
  <2>3. MustPrecede(j, i)
    BY <2>1, <2>2, AlignedPrecedes
  <2> QED BY <2>1, <2>3 DEF IInv, IssueInv, OrderInv
<1> QED BY <1>1, Invariance, PTL

(* Memory accesses of which one is a store keep their program order, though*)
(* the graph holds no edge into a store (scheduler.py 86-107).             *)
THEOREM MemoryOrderHolds == Spec => []MemoryOrder
<1>1. IInv => MemoryOrder
  <2> SUFFICES ASSUME IInv, NEW k \in DOMAIN scheduled,
                      NEW j \in 1..(scheduled[k] - 1),
                      MemoryConflict(block[j], block[scheduled[k]])
               PROVE  \E m \in 1..(k - 1) : scheduled[m] = j
    BY DEF MemoryOrder, KeepsOrder
  <2>1. PICK i \in Pos : scheduled[k] = i
    BY DEF IInv, TInv, TypeOK
  <2>2. MustPrecede(j, i)
    BY <2>1 DEF MustPrecede, MemoryConflict, Kind
  <2> QED BY <2>1, <2>2 DEF IInv, IssueInv, OrderInv
<1> QED BY <1>1, Invariance, PTL

(* A store is issued only when everything before it in the block is, by    *)
(* the priorities alone (scheduler.py 99-107).                             *)
THEOREM StoreIsBarrierHolds == Spec => []StoreIsBarrier
<1>1. IInv => StoreIsBarrier
  <2> SUFFICES ASSUME IInv, NEW k \in DOMAIN scheduled,
                      InstKind(block[scheduled[k]]) = "STORE",
                      NEW j \in 1..(scheduled[k] - 1)
               PROVE  \E m \in 1..(k - 1) : scheduled[m] = j
    BY DEF StoreIsBarrier
  <2>1. PICK i \in Pos : scheduled[k] = i
    BY DEF IInv, TInv, TypeOK
  <2>2. MustPrecede(j, i)
    BY <2>1 DEF MustPrecede, Kind
  <2> QED BY <2>1, <2>2 DEF IInv, IssueInv, OrderInv
<1> QED BY <1>1, Invariance, PTL

(* The branch or HALT that ends a block is issued last (scheduler.py 107). *)
THEOREM ControlLastHolds == Spec => []ControlLast
<1>1. IInv => ControlLast
  <2> SUFFICES ASSUME IInv, NEW k \in DOMAIN scheduled,
                      NEW j \in 1..(scheduled[k] - 1),
                      ControlConflict(block[j], block[scheduled[k]])
               PROVE  \E m \in 1..(k - 1) : scheduled[m] = j
    BY DEF ControlLast, KeepsOrder
  <2>1. PICK i \in Pos : scheduled[k] = i
    BY DEF IInv, TInv, TypeOK
  <2>2. Len(block) \in Nat /\ Pos = 1..Len(block) /\ Proper(block)
    BY BlockFacts DEF IInv, TInv, Pos
  <2>3. j \in 1..Len(block) /\ j < Len(block)
    BY <2>1, <2>2
  <2>4. InstKind(block[j]) # "CONTROL"
    BY <2>2, <2>3, BlockFacts
  <2>5. MustPrecede(j, i)
    BY <2>1, <2>4 DEF MustPrecede, ControlConflict, Kind
  <2> QED BY <2>1, <2>5 DEF IInv, IssueInv, OrderInv
<1> QED BY <1>1, Invariance, PTL

(* The loop ends with every instruction issued exactly once, so the        *)
(* ValueError is never raised (scheduler.py 109-124).                      *)
THEOREM CompleteHolds == Spec => []Complete
BY CompleteState, Invariance, PTL

(* The scheduler does what module Reorder promises: each step that issues  *)
(* an instruction is an Emit of it, every other step changes nothing that  *)
(* Reorder sees (scheduler.py 18-125).                                     *)
THEOREM ImplementsHolds == Spec => Implements
<1>1. Init => Promise!Init
  BY DEF Init, Promise!Init, Pos
<1>2. IInv /\ [Next]_vars => [Promise!Next]_<<block, scheduled>>
  <2> SUFFICES ASSUME IInv, [Next]_vars
               PROVE  [Promise!Next]_<<block, scheduled>>
    OBVIOUS
  <2>1. ASSUME NEW best \in Pos, Issue(best)
        PROVE  Promise!Emit(best)
    <3>1. Len(block) \in Nat /\ Pos = 1..Len(block) /\ Proper(block)
      BY BlockFacts DEF IInv, TInv, Pos
    <3>2. best \notin Issued
      BY <2>1 DEF Issue, IInv, IssueInv, ReadyInv
    <3>3. ASSUME NEW j \in 1..(best - 1), Promise!Conflict(block[j], block[best])
          PROVE  j \in Issued
      <4>1. j \in Pos /\ j < best
        BY <3>1
      <4>2. Kind(j) # "CONTROL"
        BY <3>1, <4>1, BlockFacts DEF Kind
      <4>3. CASE Promise!AlignedConflict(block[j], block[best])
        <5>1. AlignedConflict(block[j], block[best])
          BY <4>3 DEF AlignedConflict, Clash, NamedWrites, NamedReads, SecondWrites,
               SecondReads, HasDest, Promise!AlignedConflict, Promise!Clash,
               Promise!NamedWrites, Promise!NamedReads, Promise!SecondWrites,
               Promise!SecondReads, Promise!HasDest
        <5>2. MustPrecede(j, best)
          BY <3>1, <4>1, <5>1, AlignedPrecedes
        <5> QED BY <2>1, <4>1, <5>2, IssueInOrder
      <4>4. CASE Promise!MemoryConflict(block[j], block[best])
        <5>1. MustPrecede(j, best)
          BY <4>4 DEF MustPrecede, Promise!MemoryConflict,
               Promise!InstKind, InstKind, Kind
        <5> QED BY <2>1, <4>1, <5>1, IssueInOrder
      <4>5. CASE Promise!ControlConflict(block[j], block[best])
        <5>1. MustPrecede(j, best)
          BY <4>2, <4>5 DEF MustPrecede, Promise!ControlConflict,
               Promise!InstKind, InstKind, Kind
        <5> QED BY <2>1, <4>1, <5>1, IssueInOrder
      <4> QED BY <3>3, <4>3, <4>4, <4>5 DEF Promise!Conflict
    <3> QED BY <2>1, <3>2, <3>3 DEF Promise!Emit, Promise!Emitted, Issued, Issue
  <2>2. CASE \E best \in Pos : Issue(best)
    <3>1. DOMAIN block = Pos
      BY BlockFacts DEF IInv, TInv, Pos
    <3> QED BY <2>1, <2>2, <3>1 DEF Promise!Next
  <2>3. CASE Build \/ BuildDone \/ Finish \/ UNCHANGED vars
    BY <2>3 DEF Build, BuildDone, Finish, vars
  <2> QED BY <2>2, <2>3 DEF Next
<1> QED BY <1>1, <1>2, Invariance, PTL DEF Spec, Implements, Promise!Spec, Promise!vars

-----------------------------------------------------------------------------
(* Whole programs (ScheduleProgram).                                       *)

IsStore(x) == InstKind(x) = "STORE"
IsControl(x) == InstKind(x) = "CONTROL"
At == DOMAIN program

(* The list is the program, reordered by f.                                *)
InOrder(f) ==
    /\ f \in [At -> At]
    /\ \A p, q \in At : f[p] = f[q] => p = q
    /\ \A q \in At : \E p \in At : f[p] = q
    /\ \A p \in At : instructions[p] = program[f[p]]
    /\ \A p \in At : p >= start => f[p] = p
    /\ \A c \in Cuts, p \in At : p <= c <=> f[p] <= c
    /\ \A p \in At : IsControl(program[f[p]]) => f[p] = p
    /\ \A p, q \in At : p < q /\ IsStore(program[f[p]]) /\ IsStore(program[f[q]])
                            => f[p] < f[q]

ListInv ==
    /\ program \in Programs
    /\ instructions \in Seq(Instruction) /\ Len(instructions) = Len(program)
    /\ start \in Leaders \cup {Len(program) + 1}
    /\ \E f : InOrder(f)

BlockInv ==
    pc # "idle" =>
        /\ IInv
        /\ start <= Len(program)
        /\ Len(block) = NextLeader - start
        /\ \A k \in 1..Len(block) : block[k] = program[start + k - 1]

ProgInv == ListInv /\ BlockInv

-----------------------------------------------------------------------------
(* The program and its leaders.                                            *)

(* A program is a sequence of instructions that name registers.            *)
LEMMA ProgramFacts ==
  ASSUME program \in Programs
  PROVE  /\ program \in Seq(Instruction) /\ WellTyped(program)
         /\ Len(program) \in Nat /\ At = 1..Len(program)
BY ProgramsAssumption DEF At

(* Leaders are positions but for the first of a program that is empty, and *)
(* what follows a cut is one.                                              *)
LEMMA LeaderFacts ==
  ASSUME program \in Programs
  PROVE  /\ Leaders \subseteq {1} \cup 1..Len(program)
         /\ 1 \in Leaders
         /\ \A c \in Cuts : c \in 0..Len(program)
         /\ \A c \in Cuts : c + 1 \in At => c + 1 \in Leaders
<1>1. /\ program \in Seq(Instruction) /\ Len(program) \in Nat
      /\ At = 1..Len(program) /\ DOMAIN program = 1..Len(program)
  BY ProgramFacts DEF At
<1>2. \A i \in At : program[i] \in Instruction
  BY <1>1
<1>3. \A i \in At : program[i].imm \in Nat
  BY <1>2 DEF Instruction
<1>4. Leaders \subseteq {1} \cup 1..Len(program) /\ 1 \in Leaders
  BY DEF Leaders
<1>5. ASSUME NEW c \in Cuts
      PROVE  c \in 0..Len(program) /\ (c + 1 \in At => c + 1 \in Leaders)
  <2>1. CASE c \in At /\ InstKind(program[c]) = "CONTROL"
    <3>1. program[c].op \in {"BR", "HALT"}
      BY <2>1 DEF InstKind
    <3> QED BY <2>1, <3>1, <1>1 DEF Leaders
  <2>2. CASE \E i \in At : /\ program[i].op = "BR" /\ program[i].imm = c
                           /\ program[i].imm < Len(program)
    <3>1. PICK i \in At : program[i].op = "BR" /\ program[i].imm = c /\ c < Len(program)
      BY <2>2
    <3> QED BY <3>1, <1>1, <1>3 DEF Leaders
  <2> QED BY <2>1, <2>2 DEF Cuts, At
<1> QED BY <1>4, <1>5

(* The next leader comes after start, and no leader between them.          *)
LEMMA NextLeaderFacts ==
  ASSUME program \in Programs, start \in Leaders, start <= Len(program)
  PROVE  /\ NextLeader \in (start + 1)..(Len(program) + 1)
         /\ NextLeader \in Leaders \cup {Len(program) + 1}
         /\ \A l \in Leaders : l > start => NextLeader <= l
         /\ \A c \in Cuts : c < start \/ c >= NextLeader - 1
         /\ start \in 1..Len(program)
<1> DEFINE S == {l \in Leaders : l > start} \cup {Len(program) + 1}
<1>1. /\ Len(program) \in Nat /\ Leaders \subseteq {1} \cup 1..Len(program)
      /\ At = 1..Len(program) /\ start \in 1..Len(program)
  BY ProgramFacts, LeaderFacts
<1>2. S \subseteq Nat /\ S # {} /\ Leaders \subseteq Nat
  <2>1. Leaders \subseteq Nat
    BY <1>1
  <2>2. \A x \in S : x \in Nat
    BY <1>1, <2>1
  <2> QED BY <2>1, <2>2
<1>3. NextLeader = Min(S)
  BY DEF NextLeader
<1> HIDE DEF S
<1>4. PICK m \in S : \A x \in S : m <= x
  BY <1>2, NatMin
<1>5. NextLeader \in S /\ \A x \in S : NextLeader <= x
  BY <1>2, <1>3, <1>4 DEF Min
<1>6. /\ NextLeader \in Leaders \/ NextLeader = Len(program) + 1
      /\ NextLeader > start /\ NextLeader <= Len(program) + 1
      /\ NextLeader \in Nat
      /\ \A l \in Leaders : l > start => NextLeader <= l
  BY <1>1, <1>2, <1>5 DEF S
<1>7. \A c \in Cuts : c < start \/ c >= NextLeader - 1
  <2> SUFFICES ASSUME NEW c \in Cuts, c >= start PROVE c >= NextLeader - 1
    BY <1>1, LeaderFacts
  <2>1. c \in 0..Len(program) /\ (c + 1 \in At => c + 1 \in Leaders)
    BY LeaderFacts
  <2>2. CASE c = Len(program)
    BY <2>2, <1>1, <1>6
  <2>3. CASE c < Len(program)
    <3>1. c + 1 \in Leaders /\ c + 1 > start
      BY <2>1, <2>3, <1>1
    <3>2. NextLeader <= c + 1
      BY <3>1, <1>6
    <3> QED BY <3>2, <2>1, <1>6
  <2> QED BY <2>1, <2>2, <2>3, <1>1
<1> QED BY <1>1, <1>6, <1>7

-----------------------------------------------------------------------------
(* One block.                                                              *)

(* A block about to be scheduled satisfies the invariant of Scheduler.     *)
Fresh == /\ Proper(block) /\ pc = "build" /\ idx = 1 /\ lastStore = 0
         /\ lastWrite = [r \in Reg |-> 0]
         /\ pendingReads = [r \in Reg |-> {}]
         /\ waiting = [i \in Pos |-> {}]
         /\ ready = {} /\ scheduled = <<>>

(* So all is well before its first instruction.                            *)
LEMMA FreshIInv == Fresh => IInv
<1> SUFFICES ASSUME Fresh PROVE IInv
  OBVIOUS
<1> USE DEF Fresh
<1>1. Len(block) \in Nat /\ block \in Seq(Instruction) /\ Pos = 1..Len(block)
  BY BlockFacts DEF Pos
<1>2. Issued = {}
  BY DEF Issued
<1>3. TInv
  BY <1>1 DEF TInv, TypeOK
<1>4. GraphInv
  BY <1>1 DEF GraphInv, LastWriteInv, PendingInv, LastStoreInv, EdgeInv
<1>5. WaitingInv /\ ReadyInv /\ PhaseInv /\ OnceInv /\ OrderInv
  BY <1>1, <1>2 DEF WaitingInv, ReadyInv, PhaseInv, OnceInv, OrderInv
<1> QED BY <1>3, <1>4, <1>5 DEF IInv, IssueInv

(* What is issued in the end is a permutation of the block, in which       *)
(* nothing from before a store or a branch comes after it.                 *)
LEMMA BarriersHold ==
  ASSUME IInv, pc = "done"
  PROVE  /\ Len(block) \in Nat /\ Len(scheduled) = Len(block)
         /\ \A k \in 1..Len(block) : scheduled[k] \in 1..Len(block)
         /\ \A k, l \in 1..Len(block) : scheduled[k] = scheduled[l] => k = l
         /\ \A i \in 1..Len(block) : \E k \in 1..Len(block) : scheduled[k] = i
         /\ \A k, l \in 1..Len(block) :
               /\ k < l
               /\ IsStore(block[scheduled[k]]) \/ IsControl(block[scheduled[k]])
               => scheduled[k] < scheduled[l]
<1>1. Len(block) \in Nat /\ Pos = 1..Len(block)
  BY BlockFacts DEF IInv, TInv, Pos
<1>2. Issued = Pos /\ Len(scheduled) = Len(block)
  BY CompleteState DEF Complete
<1>3. DOMAIN scheduled = 1..Len(block) /\ \A k \in 1..Len(block) : scheduled[k] \in Pos
  BY SMTT(60), <1>1, <1>2 DEF IInv, TInv, TypeOK
<1>4. \A k, l \in 1..Len(block) : scheduled[k] = scheduled[l] => k = l
  BY <1>3 DEF IInv, IssueInv, OnceInv
<1>5. \A i \in Pos : \E k \in 1..Len(block) : scheduled[k] = i
  BY <1>2, <1>3 DEF Issued
<1>6. ASSUME NEW k \in 1..Len(block), NEW l \in 1..Len(block), k < l,
             IsStore(block[scheduled[k]]) \/ IsControl(block[scheduled[k]])
      PROVE  scheduled[k] < scheduled[l]
  <2> SUFFICES ASSUME ~ (scheduled[k] < scheduled[l]) PROVE FALSE
    OBVIOUS
  <2>1. PICK i \in Pos : scheduled[k] = i
    BY <1>3
  <2>2. PICK j \in Pos : scheduled[l] = j
    BY <1>3
  <2>3. j \in 1..(i - 1)
    BY <1>1, <1>4, <1>6, <2>1, <2>2
  <2>4. MustPrecede(j, i)
    BY <1>6, <2>1 DEF MustPrecede, Kind, IsStore, IsControl
  <2>5. PICK m \in 1..(k - 1) : scheduled[m] = j
    BY <1>3, <2>1, <2>3, <2>4 DEF IInv, IssueInv, OrderInv
  <2>6. m \in 1..Len(block) /\ m < l
    BY <1>1, <1>6, <2>5
  <2> QED BY <1>4, <1>6, <2>2, <2>5, <2>6
<1> QED BY <1>1, <1>2, <1>3, <1>4, <1>5, <1>6

-----------------------------------------------------------------------------
(* Steps.                                                                  *)

(* Before the first block the list is the program.                         *)
LEMMA ProgramInitHolds == ProgramInit => ProgInv
<1> SUFFICES ASSUME ProgramInit PROVE ProgInv
  OBVIOUS
<1> USE DEF ProgramInit
<1> DEFINE f == [p \in At |-> p]
<1>1. /\ program \in Seq(Instruction) /\ 1 \in Leaders
      /\ \A c \in Cuts : c \in 0..Len(program)
      /\ Len(program) \in Nat /\ At = 1..Len(program)
  BY ProgramFacts, LeaderFacts
<1>2. InOrder(f)
  BY <1>1 DEF InOrder
<1> QED BY <1>1, <1>2 DEF ProgInv, ListInv, BlockInv

(* A block of one or two instructions is left as it is.                    *)
LEMMA SkipBlockStep == ProgInv /\ SkipBlock => ProgInv'
<1> SUFFICES ASSUME ProgInv, SkipBlock PROVE ProgInv'
  OBVIOUS
<1> USE DEF ProgInv, ListInv
<1>1. /\ program' = program /\ instructions' = instructions /\ pc' = pc
      /\ pc = "idle" /\ start' = NextLeader /\ start <= Len(program)
      /\ Leaders' = Leaders /\ Cuts' = Cuts /\ At' = At
  BY DEF SkipBlock, MoreBlocks, vars, Leaders, Cuts, At
<1>2. Len(program) \in Nat
  BY ProgramFacts
<1>3. start \in Leaders
  BY <1>1, <1>2
<1>4. /\ NextLeader \in (start + 1)..(Len(program) + 1)
      /\ NextLeader \in Leaders \cup {Len(program) + 1}
      /\ start \in 1..Len(program)
  BY <1>1, <1>3, NextLeaderFacts
<1>5. PICK f : InOrder(f)
  OBVIOUS
<1>6. InOrder(f)'
  <2>1. \A p \in At : p >= start' => p >= start
    BY <1>1, <1>2, <1>4, ProgramFacts
  <2> QED BY <1>1, <1>5, <2>1 DEF InOrder
<1> QED BY <1>1, <1>4, <1>6 DEF BlockInv

(* A longer one is cut out of the list, where it is still as it was.       *)
LEMMA StartBlockStep == ProgInv /\ StartBlock => ProgInv'
<1> SUFFICES ASSUME ProgInv, StartBlock PROVE ProgInv'
  OBVIOUS
<1> USE DEF ProgInv, ListInv
<1> DEFINE n == NextLeader
<1>1. /\ program' = program /\ instructions' = instructions /\ start' = start
      /\ pc' = "build" /\ start <= Len(program)
      /\ Leaders' = Leaders /\ Cuts' = Cuts /\ At' = At /\ NextLeader' = n
      /\ block' = SubSeq(instructions, start, n - 1)
  BY DEF StartBlock, MoreBlocks, outer, Leaders, Cuts, At, NextLeader
<1>2. /\ Len(program) \in Nat /\ At = 1..Len(program)
      /\ program \in Seq(Instruction) /\ WellTyped(program)
  BY ProgramFacts
<1>3. start \in Leaders
  BY <1>1, <1>2
<1>4. /\ n \in (start + 1)..(Len(program) + 1)
      /\ start \in 1..Len(program)
      /\ \A c \in Cuts : c < start \/ c >= n - 1
  BY <1>1, <1>3, NextLeaderFacts
<1> HIDE DEF n
<1>0. n \in Nat /\ start \in Nat /\ start < n /\ n <= Len(program) + 1 /\ 1 <= start
  BY <1>2, <1>4
<1>5. PICK f : InOrder(f)
  OBVIOUS
<1>6. \A p \in start..(n - 1) : p \in At /\ instructions[p] = program[p]
  <2> TAKE p \in start..(n - 1)
  <2>1. p \in At /\ p >= start
    BY <1>0, <1>2
  <2>2. f[p] = p /\ instructions[p] = program[f[p]]
    BY <2>1, <1>5 DEF InOrder
  <2> QED BY <2>1, <2>2
<1>7. /\ block' \in Seq(Instruction) /\ Len(block') = n - start
      /\ \A k \in 1..(n - start) : block'[k] = instructions[start + k - 1]
  <2>1. /\ instructions \in Seq(Instruction)
        /\ start \in 1..Len(instructions) /\ n - 1 \in start..Len(instructions)
    BY <1>2, <1>4
  <2>2. \A p \in 1..Len(instructions) : instructions[p] \in Instruction
    BY <2>1
  <2>3. block' = [k \in 1..((n - 1) - start + 1) |-> instructions[start + k - 1]]
    BY <1>1, <2>1
  <2>4. (n - 1) - start + 1 = n - start /\ n - start \in Nat
    BY <1>0
  <2>5. block' = [k \in 1..(n - start) |-> instructions[start + k - 1]]
    BY <2>3, <2>4
  <2>6. \A k \in 1..(n - start) : start + k - 1 \in 1..Len(instructions)
    BY <1>0, <1>2
  <2>7. \A k \in 1..(n - start) : instructions[start + k - 1] \in Instruction
    BY <2>2, <2>6
  <2> QED BY <2>4, <2>5, <2>7
<1>8. \A k \in 1..(n - start) :
         start + k - 1 \in At /\ block'[k] = program[start + k - 1]
  <2> TAKE k \in 1..(n - start)
  <2>1. start + k - 1 \in start..(n - 1)
    BY <1>4
  <2> QED BY <2>1, <1>6, <1>7
<1>9. Proper(block')
  <2>1. WellTyped(block')
    BY <1>2, <1>7, <1>8 DEF WellTyped
  <2>2. WellFormed(block')
    <3> SUFFICES ASSUME NEW k \in 1..((n - start) - 1), InstKind(block'[k]) = "CONTROL"
                 PROVE  FALSE
      BY <1>7 DEF WellFormed
    <3>1. k \in 1..(n - start) /\ start + k - 1 >= start /\ start + k - 1 < n - 1
      BY <1>4
    <3>2. start + k - 1 \in Cuts
      BY <3>1, <1>8 DEF Cuts, At
    <3> QED BY <3>1, <3>2, <1>4
  <2> QED BY <1>7, <2>1, <2>2 DEF Proper
<1>10. Fresh'
  <2>1. DOMAIN block' = 1..Len(block') /\ Pos' = 1..Len(block')
    BY <1>7 DEF Pos
  <2> QED BY <2>1, <1>1, <1>9 DEF StartBlock, Fresh
<1>11. IInv'
  BY <1>10, FreshIInv, PTL
<1>12. InOrder(f)'
  BY <1>1, <1>5 DEF InOrder
<1>13. BlockInv'
  BY <1>1, <1>7, <1>8, <1>11 DEF BlockInv
<1> QED BY <1>1, <1>12, <1>13

(* The scheduler of a block works on the block alone.                      *)
LEMMA BlockStepStep == ProgInv /\ BlockStep => ProgInv'
<1> SUFFICES ASSUME ProgInv, BlockStep PROVE ProgInv'
  OBVIOUS
<1> USE DEF ProgInv, ListInv
<1>1. Next /\ UNCHANGED outer
  BY DEF BlockStep, Next
<1>2. /\ program' = program /\ instructions' = instructions /\ start' = start
      /\ Leaders' = Leaders /\ Cuts' = Cuts /\ At' = At /\ NextLeader' = NextLeader
  BY <1>1 DEF outer, Leaders, Cuts, At, NextLeader
<1>3. block' = block /\ pc # "idle"
  BY <1>1 DEF Next, Build, BuildDone, Issue, Finish
<1>4. IInv'
  BY <1>1, <1>3, NextIInv DEF BlockInv
<1>5. PICK f : InOrder(f)
  OBVIOUS
<1>6. InOrder(f)'
  BY <1>2, <1>5 DEF InOrder
<1>7. BlockInv'
  BY <1>2, <1>3, <1>4 DEF BlockInv
<1> QED BY <1>2, <1>6, <1>7

(* Writing a block back composes the permutation so far with the order in  *)
(* which the block was issued.                                             *)
LEMMA WriteBackStep == ProgInv /\ WriteBack => ProgInv'
<1> SUFFICES ASSUME ProgInv, WriteBack PROVE ProgInv'
  OBVIOUS
<1> USE DEF ProgInv, ListInv
<1> DEFINE n == NextLeader
           b == Len(block)
           N == Len(program)
           s == scheduled
           In(p) == p \in start..(n - 1)
<1>1. /\ program' = program /\ start' = n /\ pc' = "idle" /\ pc = "done"
      /\ Leaders' = Leaders /\ Cuts' = Cuts /\ At' = At
  BY DEF WriteBack, Leaders, Cuts, At
<1>2. /\ N \in Nat /\ At = 1..N /\ DOMAIN program = At
      /\ program \in Seq(Instruction)
  BY ProgramFacts DEF At
<1>3. /\ IInv /\ start <= N /\ b = n - start
      /\ \A k \in 1..b : block[k] = program[start + k - 1]
  BY <1>1 DEF BlockInv
<1>4. start \in Leaders
  BY <1>2, <1>3
<1>5. /\ n \in (start + 1)..(N + 1) /\ start \in 1..N
      /\ n \in Leaders \cup {N + 1}
      /\ \A c \in Cuts : c < start \/ c >= n - 1
      /\ \A c \in Cuts : c \in 0..N
  BY <1>3, <1>4, NextLeaderFacts, LeaderFacts
<1>6. /\ b \in Nat
      /\ \A k \in 1..b : s[k] \in 1..b
      /\ \A k, l \in 1..b : s[k] = s[l] => k = l
      /\ \A i \in 1..b : \E k \in 1..b : s[k] = i
      /\ \A k, l \in 1..b :
            /\ k < l
            /\ IsStore(block[s[k]]) \/ IsControl(block[s[k]])
            => s[k] < s[l]
  BY <1>1, <1>3, BarriersHold
<1>7. PICK f : InOrder(f)
  OBVIOUS
<1> DEFINE h == [p \in At |-> IF In(p) THEN start - 1 + s[p - start + 1] ELSE f[p]]
<1>8. instructions' = [p \in At |-> IF In(p) THEN block[s[p - start + 1]]
                                   ELSE instructions[p]]
  BY <1>2 DEF WriteBack
<1> HIDE DEF n, b, N, s
<1>9. /\ n \in Nat /\ start \in Nat /\ start < n /\ n <= N + 1 /\ 1 <= start
  BY <1>2, <1>5
<1>0. \A p : p \in At <=> p \in Nat /\ 1 <= p /\ p <= N
  BY <1>2
<1>10. /\ \A p \in At : f[p] \in At /\ instructions[p] = program[f[p]]
       /\ \A p, q \in At : f[p] = f[q] => p = q
       /\ \A q \in At : \E p \in At : f[p] = q
       /\ \A p \in At : p >= start => f[p] = p
       /\ \A p \in At : p < start => f[p] < start
  <2>1. /\ \A p \in At : f[p] \in At /\ instructions[p] = program[f[p]]
        /\ \A p, q \in At : f[p] = f[q] => p = q
        /\ \A q \in At : \E p \in At : f[p] = q
        /\ \A p \in At : p >= start => f[p] = p
    BY <1>7 DEF InOrder
  <2>2. ASSUME NEW p \in At, p < start PROVE f[p] < start
    <3>0. f[p] \in Nat
      BY <2>1, <1>0
    <3> SUFFICES ASSUME f[p] >= start PROVE FALSE
      BY <3>0, <1>9
    <3>1. f[f[p]] = f[p]
      BY <2>1
    <3>2. f[p] = p
      BY <2>1, <3>1
    <3> QED BY <2>2, <3>2, <1>0, <1>9
  <2> QED BY <2>1, <2>2
(* A position of the block, its number in it, and what is issued there.    *)
<1>11. ASSUME NEW p \in At, In(p)
       PROVE  \E k \in 1..b : /\ p = start - 1 + k /\ h[p] = start - 1 + s[k]
                               /\ s[k] \in 1..b
                               /\ instructions'[p] = block[s[k]]
                               /\ block[s[k]] = program[h[p]]
                               /\ In(h[p]) /\ h[p] \in At
  <2> DEFINE k == p - start + 1
  <2>1. k \in 1..b /\ p = start - 1 + k /\ p - start + 1 = k
    BY <1>2, <1>3, <1>9, <1>11
  <2>2. h[p] = start - 1 + s[k] /\ instructions'[p] = block[s[k]]
    BY <1>8, <1>11
  <2> HIDE DEF k, h
  <2>3. s[k] \in 1..b
    BY <2>1, <1>6
  <2>4. block[s[k]] = program[start + s[k] - 1]
    BY <2>3, <1>3
  <2>5. start + s[k] - 1 = start - 1 + s[k]
    BY <2>3, <1>9, <1>6
  <2>6. In(h[p]) /\ h[p] \in At
    <3>1. PICK i \in 1..b : s[k] = i
      BY <2>3
    <3>2. h[p] = start - 1 + i /\ start - 1 + i \in start..(n - 1)
      BY <3>1, <2>2, <1>3, <1>6, <1>9
    <3>3. \A x \in start..(n - 1) : x \in At
      BY <1>0, <1>2, <1>9
    <3>4. start - 1 + i \in At
      BY <3>2, <3>3
    <3> QED BY <3>2, <3>4
  <2> QED BY <2>1, <2>2, <2>3, <2>4, <2>5, <2>6
<1>12. ASSUME NEW p \in At, ~ In(p)
       PROVE  /\ h[p] = f[p] /\ instructions'[p] = instructions[p]
              /\ ~ In(h[p]) /\ h[p] \in At
              /\ p < start => h[p] < start
              /\ p >= start => p >= n /\ h[p] = p
  <2>1. h[p] = f[p] /\ instructions'[p] = instructions[p]
    BY <1>8, <1>12
  <2>2. p < start \/ p >= n
    BY <1>12, <1>2, <1>9
  <2> HIDE DEF h
  <2>3. CASE p < start
    <3>1. f[p] < start /\ f[p] \in At
      BY <2>3, <1>10
    <3>2. ~ In(f[p]) /\ ~ (p >= start)
      BY <3>1, <2>3, <1>0, <1>9
    <3> QED BY <3>1, <3>2, <2>1
  <2>4. CASE p >= n
    <3>1. p >= start /\ ~ (p < start)
      BY <2>4, <1>0, <1>9
    <3>2. f[p] = p
      BY <3>1, <1>10
    <3> QED BY <3>1, <3>2, <2>1, <2>4, <1>12
  <2> QED BY <2>2, <2>3, <2>4
<1>13. h \in [At -> At]
  <2>1. \A p \in At : h[p] \in At
    <3> HIDE DEF h, In
    <3> QED BY <1>11, <1>12
  <2>2. h = [p \in At |-> h[p]]
    OBVIOUS
  <2> HIDE DEF h
  <2> QED BY <2>1, <2>2
<1> HIDE DEF h
<1>14. \A p, q \in At : h[p] = h[q] => p = q
  <2> SUFFICES ASSUME NEW p \in At, NEW q \in At, h[p] = h[q] PROVE p = q
    OBVIOUS
  <2>1. CASE In(p) /\ In(q)
    <3>1. PICK k \in 1..b : p = start - 1 + k /\ h[p] = start - 1 + s[k] /\ s[k] \in 1..b
      BY <1>11, <2>1
    <3>2. PICK l \in 1..b : q = start - 1 + l /\ h[q] = start - 1 + s[l] /\ s[l] \in 1..b
      BY <1>11, <2>1
    <3>3. s[k] = s[l]
      <4>1. PICK i \in 1..b : s[k] = i
        BY <3>1
      <4>2. PICK j \in 1..b : s[l] = j
        BY <3>2
      <4>3. start - 1 + i = start - 1 + j
        BY <3>1, <3>2, <4>1, <4>2
      <4> QED BY <4>1, <4>2, <4>3, <1>6, <1>9
    <3> QED BY <3>1, <3>2, <3>3, <1>6
  <2>2. CASE ~ In(p) /\ ~ In(q)
    BY <2>2, <1>10, <1>12
  <2>3. CASE In(p) /\ ~ In(q)
    <3>1. In(h[p])
      BY <2>3, <1>11
    <3>2. ~ In(h[q])
      BY <2>3, <1>12
    <3> HIDE DEF In
    <3> QED BY <3>1, <3>2
  <2>4. CASE ~ In(p) /\ In(q)
    <3>1. In(h[q])
      BY <2>4, <1>11
    <3>2. ~ In(h[p])
      BY <2>4, <1>12
    <3> HIDE DEF In
    <3> QED BY <3>1, <3>2
  <2> QED BY <2>1, <2>2, <2>3, <2>4
<1>15. \A q \in At : \E p \in At : h[p] = q
  <2> TAKE q \in At
  <2>1. CASE In(q)
    <3> DEFINE i == q - start + 1
    <3>1. i \in 1..b /\ q = start - 1 + i
      BY <2>1, <1>2, <1>3, <1>9
    <3> HIDE DEF i
    <3>2. PICK k \in 1..b : s[k] = i
      BY <3>1, <1>6
    <3> DEFINE p == start - 1 + k
    <3>3. p \in At /\ In(p)
      BY <1>2, <1>3, <1>6, <1>9
    <3>4. PICK l \in 1..b : p = start - 1 + l /\ h[p] = start - 1 + s[l]
      <4> HIDE DEF p
      <4> QED BY <1>11, <3>3
    <3>5. l = k
      BY <3>4, <1>6, <1>9
    <3> HIDE DEF p
    <3> QED BY <3>1, <3>2, <3>3, <3>4, <3>5
  <2>2. CASE ~ In(q)
    <3>1. PICK p \in At : f[p] = q
      BY <1>10
    <3>2. ~ In(p)
      <4> SUFFICES ASSUME In(p) PROVE FALSE
        OBVIOUS
      <4>1. f[p] = p
        BY <1>2, <1>9, <1>10
      <4> QED BY <4>1, <3>1, <2>2
    <3> QED BY <3>1, <3>2, <1>12
  <2> QED BY <2>1, <2>2
<1>16. \A p \in At : instructions'[p] = program[h[p]]
  <2> HIDE DEF In
  <2> QED BY <1>10, <1>11, <1>12
<1>17. \A p \in At : p >= n => h[p] = p
  <2> TAKE p \in At
  <2> HAVE p >= n
  <2>1. ~ In(p) /\ p >= start
    BY <1>2, <1>9
  <2> QED BY <2>1, <1>12
<1>18. \A c \in Cuts, p \in At : p <= c <=> h[p] <= c
  <2> TAKE c \in Cuts, p \in At
  <2>1. c \in 0..N /\ (c < start \/ c >= n - 1)
    BY <1>5
  <2>2. CASE In(p)
    <3>1. In(h[p]) /\ h[p] \in At
      BY <2>2, <1>11
    <3> QED BY <2>1, <2>2, <3>1, <1>2, <1>9
  <2>3. CASE ~ In(p)
    <3>1. h[p] = f[p]
      BY <2>3, <1>12
    <3> QED BY <3>1, <1>7 DEF InOrder
  <2> QED BY <2>2, <2>3
<1>19. \A p \in At : IsControl(program[h[p]]) => h[p] = p
  <2> SUFFICES ASSUME NEW p \in At, IsControl(program[h[p]]) PROVE h[p] = p
    OBVIOUS
  <2>1. CASE In(p)
    <3>1. PICK k \in 1..b : /\ p = start - 1 + k /\ h[p] = start - 1 + s[k]
                            /\ s[k] \in 1..b /\ block[s[k]] = program[h[p]]
      BY <1>11, <2>1
    <3>2. s[k] = b
      <4>1. Proper(block) /\ \A i \in 1..b : i < b => InstKind(block[i]) # "CONTROL"
        BY <1>3, BlockFacts DEF IInv, TInv, b
      <4>2. PICK i \in 1..b : s[k] = i
        BY <3>1
      <4>3. InstKind(block[i]) = "CONTROL"
        BY <3>1, <4>2 DEF IsControl
      <4>4. ~ (i < b)
        BY <4>1, <4>3
      <4> QED BY <4>2, <4>4, <1>6
    <3>3. k = b
      <4> SUFFICES ASSUME k < b PROVE FALSE
        BY <1>6
      <4>1. b \in 1..b
        BY <1>6
      <4>2. IsControl(block[s[k]])
        BY <3>1
      <4>3. s[k] < s[b]
        BY <3>1, <4>1, <4>2, <1>6
      <4>4. PICK i \in 1..b : s[b] = i
        BY <4>1, <1>6
      <4>5. b < i
        BY <4>3, <4>4, <3>2
      <4> QED BY <4>4, <4>5, <1>6
    <3> QED BY <3>1, <3>2, <3>3
  <2>2. CASE ~ In(p)
    BY <2>2, <1>7, <1>12 DEF InOrder
  <2> QED BY <2>1, <2>2
<1>20. \A p, q \in At : p < q /\ IsStore(program[h[p]]) /\ IsStore(program[h[q]])
                            => h[p] < h[q]
  <2> SUFFICES ASSUME NEW p \in At, NEW q \in At, p < q,
                      IsStore(program[h[p]]), IsStore(program[h[q]])
               PROVE  h[p] < h[q]
    OBVIOUS
  <2>1. CASE In(p) /\ In(q)
    <3>1. PICK k \in 1..b : /\ p = start - 1 + k /\ h[p] = start - 1 + s[k]
                            /\ s[k] \in 1..b /\ block[s[k]] = program[h[p]]
      BY <1>11, <2>1
    <3>2. PICK l \in 1..b : /\ q = start - 1 + l /\ h[q] = start - 1 + s[l]
                            /\ s[l] \in 1..b
      BY <1>11, <2>1
    <3>3. k < l
      BY <3>1, <3>2, <1>6, <1>9
    <3>4. s[k] < s[l]
      BY <3>1, <3>3, <1>6
    <3>5. PICK i \in 1..b : s[k] = i
      BY <3>1
    <3>6. PICK j \in 1..b : s[l] = j
      BY <3>2
    <3>7. i < j /\ h[p] = start - 1 + i /\ h[q] = start - 1 + j
      BY <3>1, <3>2, <3>4, <3>5, <3>6
    <3> QED BY SMTT(60), <3>7, <1>6, <1>9
  <2>2. CASE ~ In(p) /\ ~ In(q)
    BY <2>2, <1>7, <1>12 DEF InOrder
  <2>3. CASE In(p) /\ ~ In(q)
    <3>1. In(h[p]) /\ h[p] \in At
      BY <2>3, <1>11
    <3>2. q >= start
      BY <2>3, <1>2, <1>9
    <3>3. q >= n /\ h[q] = q
      BY <2>3, <3>2, <1>12
    <3> QED BY <3>1, <3>3, <1>2, <1>9
  <2>4. CASE ~ In(p) /\ In(q)
    <3>1. In(h[q]) /\ h[q] \in At
      BY <2>4, <1>11
    <3>2. p < start
      <4> SUFFICES ASSUME p >= start PROVE FALSE
        BY <1>2, <1>9
      <4>1. p >= n
        BY <2>4, <1>12
      <4> QED BY <4>1, <2>4, <1>2, <1>9
    <3>3. h[p] < start /\ h[p] \in At
      BY <2>4, <3>2, <1>12
    <3> QED BY <3>1, <3>3, <1>2, <1>9
  <2> QED BY <2>1, <2>2, <2>3, <2>4
<1>21. PICK g : g = h
  OBVIOUS
<1>26. InOrder(g)'
  <2> HIDE DEF In
  <2> QED BY <1>21, <1>1, <1>13, <1>14, <1>15, <1>16, <1>17, <1>18, <1>19, <1>20 DEF InOrder
<1>22. instructions' \in Seq(Instruction) /\ Len(instructions') = Len(program)
  <2>1. \A p \in At : instructions'[p] \in Instruction
    <3>1. \A p \in At : h[p] \in At
      BY <1>13
    <3>2. \A p \in At : program[p] \in Instruction
      BY <1>2
    <3> QED BY <3>1, <3>2, <1>16
  <2>2. instructions' = [p \in 1..N |-> instructions'[p]]
    BY <1>2, <1>8
  <2> QED BY <2>1, <2>2, <1>2 DEF N
<1>23. start' \in Leaders' \cup {Len(program') + 1}
  BY <1>1, <1>5 DEF N
<1>24. ListInv'
  BY <1>1, <1>22, <1>23, <1>26
<1> QED BY <1>1, <1>24 DEF BlockInv

(* No step breaks the invariant.                                           *)
LEMMA ProgramNextHolds == ProgInv /\ [ProgramNext]_allVars => ProgInv'
<1> SUFFICES ASSUME ProgInv, [ProgramNext]_allVars PROVE ProgInv'
  OBVIOUS
<1>1. CASE UNCHANGED allVars
  <2> USE DEF ProgInv, ListInv
  <2>1. /\ UNCHANGED vars
        /\ program' = program /\ instructions' = instructions /\ start' = start
        /\ Leaders' = Leaders /\ Cuts' = Cuts /\ At' = At /\ NextLeader' = NextLeader
    BY <1>1 DEF allVars, outer, Leaders, Cuts, At, NextLeader
  <2>2. block' = block /\ pc' = pc
    BY <2>1 DEF vars
  <2>3. pc # "idle" => IInv'
    BY <2>1, NextIInv DEF BlockInv
  <2>4. PICK f : InOrder(f)
    OBVIOUS
  <2>5. InOrder(f)'
    BY <2>1, <2>4 DEF InOrder
  <2>6. BlockInv'
    BY <2>1, <2>2, <2>3 DEF BlockInv
  <2> QED BY <2>1, <2>5, <2>6
<1>2. CASE ProgramNext
  BY <1>2, SkipBlockStep, StartBlockStep, BlockStepStep, WriteBackStep DEF ProgramNext
<1> QED BY <1>1, <1>2

(* At any moment the list is the program in an order that crosses no cut,  *)
(* moves no control and swaps no stores, and from the next leader on it is *)
(* the program itself (scheduler.py 128-180).                              *)
THEOREM ProgramInvariant == ProgramSpec => []ProgInv
BY ProgramInitHolds, ProgramNextHolds, PTL DEF ProgramSpec

-----------------------------------------------------------------------------
(* The stores of a list.                                                   *)

(* g lists the positions in Z in order.                                    *)
Lists(g, m, Z) ==
    /\ m \in Nat /\ DOMAIN g = 1..m
    /\ \A k, l \in 1..m : k < l => g[k] < g[l]
    /\ \A k \in 1..m : g[k] \in Z
    /\ \A z \in Z : \E k \in 1..m : g[k] = z

(* There is one way to list a set of numbers in order.                     *)
LEMMA ListsAreEqual ==
  ASSUME NEW Z \in SUBSET Nat, NEW g, NEW m, Lists(g, m, Z), NEW h, NEW n, Lists(h, n, Z),
         m <= n
  PROVE  m = n /\ \A k \in 1..m : g[k] = h[k]
<1> USE DEF Lists
<1> DEFINE Bad == {k \in 1..m : g[k] # h[k]}
<1>0. /\ m \in Nat /\ n \in Nat
      /\ \A k \in 1..m : g[k] \in Nat
      /\ \A k \in 1..n : h[k] \in Nat
  OBVIOUS
<1>1. \A k \in 1..m : g[k] = h[k]
  <2> SUFFICES ASSUME Bad # {} PROVE FALSE
    OBVIOUS
  <2>1. PICK k \in Bad : \A j \in Bad : k <= j
    <3>1. Bad \subseteq Nat
      OBVIOUS
    <3> HIDE DEF Bad
    <3> QED BY <3>1, NatMin
  <2>2. \A j \in 1..m : j < k => g[j] = h[j]
    BY <2>1
  <2>3. k \in 1..m /\ k \in 1..n /\ g[k] # h[k]
    BY <1>0
  <2>4. PICK i \in 1..n : h[i] = g[k]
    BY <2>3
  <2>5. PICK j \in 1..m : g[j] = h[k]
    BY <2>3
  <2>6. CASE g[k] < h[k]
    <3>1. i < k
      <4>1. i # k /\ ~ (h[k] < h[i])
        BY SMTT(60), <2>3, <2>4, <2>6, <1>0
      <4>2. k < i => h[k] < h[i]
        BY <2>3, <2>4
      <4> QED BY <4>1, <4>2, <2>3, <1>0
    <3>2. i \in 1..m /\ g[i] = h[i]
      BY <3>1, <2>2, <2>3, <1>0
    <3>3. g[i] < g[k]
      BY <3>1, <3>2, <2>3
    <3> QED BY <3>2, <3>3, <2>4, <2>3, <1>0
  <2>7. CASE h[k] < g[k]
    <3>1. j < k
      <4>1. j # k /\ ~ (g[k] < g[j])
        BY SMTT(60), <2>3, <2>5, <2>7, <1>0
      <4>2. k < j => g[k] < g[j]
        BY <2>3, <2>5
      <4> QED BY <4>1, <4>2, <2>3, <1>0
    <3>2. j \in 1..n /\ g[j] = h[j]
      BY <3>1, <2>2, <2>3, <1>0
    <3>3. h[j] < h[k]
      BY <3>1, <3>2, <2>3
    <3> QED BY <3>2, <3>3, <2>5, <2>3, <1>0
  <2> QED BY <2>3, <2>6, <2>7, <1>0
<1>2. m = n
  <2> SUFFICES ASSUME m < n PROVE FALSE
    BY <1>0
  <2>1. n \in 1..n /\ h[n] \in Z
    BY <1>0
  <2>2. PICK j \in 1..m : g[j] = h[n]
    BY <2>1
  <2>3. j \in 1..n /\ j < n /\ h[j] = h[n]
    BY <2>2, <1>0, <1>1
  <2>4. h[j] < h[n]
    BY <2>1, <2>3
  <2> QED BY <2>3, <2>4, <2>1, <1>0
<1> QED BY <1>1, <1>2

(* The positions of the stores up to n.                                    *)
StoresUpTo(list, n) == {p \in 1..n : InstKind(list[p]) = "STORE"}

(* Append, as a function.                                                  *)
LEMMA AppendIs ==
  ASSUME NEW S, NEW s \in Seq(S), NEW x
  PROVE  Append(s, x) = [k \in 1..(Len(s) + 1) |-> IF k = Len(s) + 1 THEN x ELSE s[k]]
<1> DEFINE a == Append(s, x)
           m == Len(s) + 1
<1>1. \A n \in 1..m : a[n] = IF n = m THEN x ELSE s[n]
  OBVIOUS
<1>2. a \in Seq(S \cup {x}) /\ Len(a) = m
  OBVIOUS
<1> HIDE DEF a, m
<1>3. a = [n \in 1..m |-> a[n]]
  BY <1>2
<1> QED BY <1>1, <1>3 DEF a, m

(* StoresOf is the list of what stands at these positions, in order.       *)
LEMMA StoresOfFacts ==
  ASSUME NEW list \in Seq(Instruction)
  PROVE  \E g, m : /\ Lists(g, m, StoresUpTo(list, Len(list)))
                   /\ StoresOf(list) = [k \in 1..m |-> list[g[k]]]
<1> DEFINE N == Len(list)
           Body(u, m) == [n \in 0..m |->
                             IF n = 0 THEN <<>>
                             ELSE IF InstKind(list[n]) = "STORE"
                                  THEN Append(u[n - 1], list[n])
                                  ELSE u[n - 1]]
           Listed(x, n) == \E g, m : /\ Lists(g, m, StoresUpTo(list, n))
                                      /\ x = [k \in 1..m |-> list[g[k]]]
           Good(n) == \E u : u = Body(u, n) /\ Listed(u[n], n)
           Bad == {n \in 0..N : ~ Good(n)}
<1>1. N \in Nat /\ \A p \in 1..N : list[p] \in Instruction
  OBVIOUS
<1> HIDE DEF N
<1>2. Good(0)
  <2> DEFINE u == [n \in 0..0 |-> <<>>]
             g == <<>>
  <2>1. u = Body(u, 0)
    OBVIOUS
  <2>2. Lists(g, 0, StoresUpTo(list, 0))
    BY DEF Lists, StoresUpTo
  <2>3. u[0] = [k \in 1..0 |-> list[g[k]]]
    OBVIOUS
  <2> HIDE DEF u, g, Body
  <2> QED BY <2>1, <2>2, <2>3
<1>3. ASSUME NEW n \in 1..N, Good(n - 1)
      PROVE  Good(n)
  <2>1. PICK u : /\ u = Body(u, n - 1)
                 /\ \E g, m : /\ Lists(g, m, StoresUpTo(list, n - 1))
                              /\ u[n - 1] = [k \in 1..m |-> list[g[k]]]
    <3> HIDE DEF Body
    <3> QED BY <1>3
  <2>2. PICK g, m : /\ Lists(g, m, StoresUpTo(list, n - 1))
                    /\ u[n - 1] = [k \in 1..m |-> list[g[k]]]
    <3> HIDE DEF Body
    <3> QED BY <2>1
  <2>3. u = Body(u, n - 1)
    BY <2>1
  <2> DEFINE last == IF InstKind(list[n]) = "STORE" THEN Append(u[n - 1], list[n])
                     ELSE u[n - 1]
             w == [k \in 0..n |-> IF k < n THEN u[k] ELSE last]
  <2>4. w = Body(w, n)
    <3>1. \A k \in 0..n : w[k] = Body(w, n)[k]
      <4> SUFFICES ASSUME NEW k \in 0..n PROVE w[k] = Body(w, n)[k]
        OBVIOUS
      <4>1. CASE k < n
        <5>1. k \in 0..(n - 1) /\ (k # 0 => k - 1 \in 0..n /\ k - 1 < n)
          BY <4>1, <1>1
        <5>2. u[k] = Body(u, n - 1)[k]
          <6> HIDE DEF Body
          <6> QED BY <2>3
        <5>3. w[k] = u[k] /\ (k # 0 => w[k - 1] = u[k - 1])
          BY <4>1, <5>1
        <5> HIDE DEF w, last
        <5> QED BY <5>1, <5>2, <5>3
      <4>2. CASE k = n
        <5>1. n - 1 \in 0..n /\ n - 1 < n /\ n # 0
          BY <1>1
        <5>2. w[n - 1] = u[n - 1] /\ w[n] = last
          BY <5>1
        <5> HIDE DEF w
        <5> QED BY <4>2, <5>1, <5>2
      <4> QED BY <4>1, <4>2, <1>1
    <3>2. w = [k \in 0..n |-> w[k]]
      OBVIOUS
    <3>3. Body(w, n) = [k \in 0..n |-> Body(w, n)[k]]
      OBVIOUS
    <3> HIDE DEF w, Body
    <3> QED BY <3>1, <3>2, <3>3
  <2>5. w[n] = last
    BY <1>1
  <2> HIDE DEF w, Body, last
  <2>6. /\ m \in Nat /\ DOMAIN g = 1..m
        /\ \A k, l \in 1..m : k < l => g[k] < g[l]
        /\ \A k \in 1..m : g[k] \in 1..(n - 1) /\ InstKind(list[g[k]]) = "STORE"
        /\ \A z \in 1..(n - 1) :
              InstKind(list[z]) = "STORE" => \E k \in 1..m : g[k] = z
    BY <2>2 DEF Lists, StoresUpTo
  <2>7. CASE InstKind(list[n]) = "STORE"
    <3> DEFINE h == [k \in 1..(m + 1) |-> IF k <= m THEN g[k] ELSE n]
    <3>1. /\ DOMAIN h = 1..(m + 1) /\ h[m + 1] = n
          /\ \A k \in 1..m : h[k] = g[k]
      BY <2>6
    <3> HIDE DEF h
    <3>2. Lists(h, m + 1, StoresUpTo(list, n))
      <4>1. \A k, l \in 1..(m + 1) : k < l => h[k] < h[l]
        <5> SUFFICES ASSUME NEW k \in 1..(m + 1), NEW l \in 1..(m + 1), k < l
                     PROVE  h[k] < h[l]
          OBVIOUS
        <5>1. k \in 1..m
          BY <2>6
        <5>2. CASE l \in 1..m
          BY <5>1, <5>2, <3>1, <2>6
        <5>3. CASE l = m + 1
          <6>1. g[k] \in 1..(n - 1)
            BY <5>1, <2>6
          <6>2. g[k] < n
            BY <6>1, <1>1
          <6> QED BY <5>1, <5>3, <6>2, <3>1
        <5> QED BY <5>2, <5>3, <2>6
      <4>2. \A k \in 1..(m + 1) : h[k] \in 1..n /\ InstKind(list[h[k]]) = "STORE"
        <5> TAKE k \in 1..(m + 1)
        <5>1. CASE k \in 1..m
          <6>1. g[k] \in 1..(n - 1) /\ h[k] = g[k]
            BY <5>1, <3>1, <2>6
          <6> QED BY <6>1, <5>1, <2>6, <1>1
        <5>2. CASE k = m + 1
          BY <5>2, <3>1, <2>7, <1>1
        <5> QED BY <5>1, <5>2, <2>6
      <4>3. \A z \in 1..n : InstKind(list[z]) = "STORE" => \E k \in 1..(m + 1) : h[k] = z
        <5> SUFFICES ASSUME NEW z \in 1..n, InstKind(list[z]) = "STORE"
                     PROVE  \E k \in 1..(m + 1) : h[k] = z
          OBVIOUS
        <5>1. CASE z = n
          BY <5>1, <3>1, <2>6
        <5>2. CASE z \in 1..(n - 1)
          <6>1. PICK k \in 1..m : g[k] = z
            BY <5>2, <2>6
          <6>2. k \in 1..(m + 1)
            BY <2>6
          <6> QED BY <6>1, <6>2, <3>1
        <5> QED BY <5>1, <5>2, <1>1
      <4> QED BY <3>1, <4>1, <4>2, <4>3, <2>6 DEF Lists, StoresUpTo
    <3>3. w[n] = [k \in 1..(m + 1) |-> list[h[k]]]
      <4> DEFINE s == [k \in 1..m |-> list[g[k]]]
      <4>1. s \in Seq(Instruction) /\ Len(s) = m
        <5>1. \A k \in 1..m : g[k] \in 1..N
          <6> TAKE k \in 1..m
          <6>1. g[k] \in 1..(n - 1)
            BY <2>6
          <6> QED BY <6>1, <1>1
        <5> QED BY <5>1, <1>1, <2>6
      <4>2. w[n] = Append(s, list[n])
        BY <2>2, <2>5, <2>7 DEF last
      <4>3. \A k \in 1..m : s[k] = list[h[k]]
        BY <3>1
      <4> HIDE DEF s
      <4>4. Append(s, list[n]) = [k \in 1..(m + 1) |-> IF k = m + 1 THEN list[n] ELSE s[k]]
        <5> HIDE DEF N
        <5> QED BY <4>1, AppendIs
      <4>5. \A k \in 1..(m + 1) : (IF k = m + 1 THEN list[n] ELSE s[k]) = list[h[k]]
        BY SMTT(60), <4>3, <3>1, <2>6
      <4> QED BY <4>2, <4>4, <4>5
    <3>4. Listed(w[n], n)
      BY <3>2, <3>3
    <3> HIDE DEF w, Body, Listed
    <3> QED BY <2>4, <3>4
  <2>8. CASE InstKind(list[n]) # "STORE"
    <3>1. StoresUpTo(list, n) = StoresUpTo(list, n - 1)
      <4>1. \A p \in 1..n : p = n \/ p \in 1..(n - 1)
        BY <1>1
      <4>2. \A p \in 1..(n - 1) : p \in 1..n
        BY <1>1
      <4> QED BY <4>1, <4>2, <2>8 DEF StoresUpTo
    <3>2. w[n] = u[n - 1]
      BY <2>5, <2>8 DEF last
    <3>3. Listed(w[n], n)
      BY <2>2, <3>1, <3>2
    <3> HIDE DEF w, Body, Listed
    <3> QED BY <2>4, <3>3
  <2> QED BY <2>7, <2>8
<1>4. Bad = {}
  <2> SUFFICES ASSUME Bad # {} PROVE FALSE
    OBVIOUS
  <2> HIDE DEF Good
  <2>1. PICK n \in Bad : \A k \in Bad : n <= k
    <3>1. Bad \subseteq Nat
      BY <1>1
    <3> HIDE DEF Bad
    <3> QED BY <3>1, NatMin
  <2>2. n \in 0..N /\ ~ Good(n) /\ n # 0
    BY <1>2
  <2>3. n \in 1..N /\ n - 1 \in 0..N /\ n - 1 < n
    BY <2>2, <1>1
  <2>4. n - 1 \notin Bad
    <3> HIDE DEF Bad
    <3> QED BY <2>1, <2>3
  <2>5. Good(n - 1)
    BY <2>3, <2>4
  <2> QED BY <2>2, <2>3, <2>5, <1>3
<1>5. Good(N)
  <2> HIDE DEF Good
  <2> QED BY <1>1, <1>4
<1> DEFINE u == CHOOSE v : v = Body(v, N)
<1>6. StoresOf(list) = u[N]
  BY Zenon DEF StoresOf, N
<1>7. PICK v : /\ v = Body(v, N)
               /\ \E g, m : /\ Lists(g, m, StoresUpTo(list, N))
                            /\ v[N] = [k \in 1..m |-> list[g[k]]]
  <2> HIDE DEF Body
  <2> QED BY <1>5
<1>8. u = Body(u, N)
  <2> HIDE DEF Body
  <2> QED BY <1>7
<1> HIDE DEF u
<1>9. u = v
  <2> DEFINE Diff == {k \in 0..N : u[k] # v[k]}
  <2>1. v = Body(v, N)
    BY <1>7
  <2>2. \A k \in 0..N : u[k] = Body(u, N)[k] /\ v[k] = Body(v, N)[k]
    <3> HIDE DEF Body
    <3> QED BY <2>1, <1>8
  <2>3. Diff = {}
    <3> SUFFICES ASSUME Diff # {} PROVE FALSE
      OBVIOUS
    <3>1. PICK k \in Diff : \A j \in Diff : k <= j
      <4>1. Diff \subseteq Nat
        BY <1>1
      <4> HIDE DEF Diff
      <4> QED BY <4>1, NatMin
    <3>2. k \in 0..N /\ u[k] # v[k] /\ k # 0
      <4>1. u[0] = v[0]
        BY <2>2, <1>1
      <4> QED BY <4>1
    <3>3. k - 1 \in 0..N /\ k - 1 < k
      BY <3>2, <1>1
    <3>4. u[k - 1] = v[k - 1]
      <4>1. k - 1 \notin Diff
        <5> HIDE DEF Diff
        <5> QED BY <3>1, <3>2, <3>3, <1>1
      <4> QED BY <4>1, <3>3
    <3> QED BY <3>2, <3>4, <2>2
  <2>4. u = [k \in 0..N |-> u[k]] /\ v = [k \in 0..N |-> v[k]]
    BY <2>1, <1>8
  <2> QED BY <2>3, <2>4
<1>10. \E g, m : /\ Lists(g, m, StoresUpTo(list, N))
                 /\ u[N] = [k \in 1..m |-> list[g[k]]]
  <2> HIDE DEF Body
  <2> QED BY <1>7, <1>9
<1> QED BY <1>6, <1>10 DEF N

-----------------------------------------------------------------------------
(* The theorems.                                                           *)

(* Branches and HALTs stay where they are, and nothing else comes to stand *)
(* where one was (scheduler.py 158-180).                                   *)
THEOREM ControlStaysHolds == ProgramSpec => []ControlStays
<1>1. ProgInv => ControlStays
  <2> SUFFICES ASSUME ProgInv, NEW p \in At,
                      InstKind(program[p]) = "CONTROL" \/ InstKind(instructions[p]) = "CONTROL"
               PROVE  instructions[p] = program[p]
    BY DEF ControlStays, At
  <2>1. PICK f : InOrder(f)
    BY DEF ProgInv, ListInv
  <2>2. CASE InstKind(program[p]) = "CONTROL"
    <3>1. PICK q \in At : f[q] = p
      BY <2>1 DEF InOrder
    <3>2. f[q] = q
      BY <3>1, <2>1, <2>2 DEF InOrder, IsControl
    <3> QED BY <3>1, <3>2, <2>1 DEF InOrder
  <2>3. CASE InstKind(instructions[p]) = "CONTROL"
    <3>1. f[p] = p
      BY <2>1, <2>3 DEF InOrder, IsControl
    <3> QED BY <3>1, <2>1 DEF InOrder
  <2> QED BY <2>2, <2>3
<1> QED BY <1>1, ProgramInvariant, PTL

(* No instruction crosses a branch, a HALT or a branch target: up to every *)
(* such point the list holds the same instructions, each as often as the   *)
(* program does (scheduler.py 158-180).                                    *)
THEOREM NothingCrossesACutHolds == ProgramSpec => []NothingCrossesACut
<1>1. ProgInv => NothingCrossesACut
  <2> SUFFICES ASSUME ProgInv, NEW c \in Cuts, NEW x
               PROVE  Cardinality({p \in 1..c : instructions[p] = x})
                        = Cardinality({p \in 1..c : program[p] = x})
    BY DEF NothingCrossesACut
  <2>1. PICK f : InOrder(f)
    BY DEF ProgInv, ListInv
  <2>2. Len(program) \in Nat /\ At = 1..Len(program) /\ c \in 0..Len(program)
    BY ProgramFacts, LeaderFacts DEF ProgInv, ListInv
  <2> DEFINE A == {p \in 1..c : instructions[p] = x}
             B == {p \in 1..c : program[p] = x}
             h == [p \in A |-> f[p]]
  <2>3. \A p \in 1..c : p \in At
    BY <2>2
  <2>4. \A p \in At : p <= c <=> p \in 1..c
    BY <2>2
  <2>5. \A p \in At : f[p] \in At /\ (p \in 1..c <=> f[p] \in 1..c)
    BY <2>1, <2>4 DEF InOrder
  <2>6. \A p \in A : h[p] \in B
    BY <2>1, <2>3, <2>5 DEF InOrder
  <2>7. \A q \in B : \E p \in A : h[p] = q
    <3> TAKE q \in B
    <3>1. PICK p \in At : f[p] = q
      BY <2>1, <2>3 DEF InOrder
    <3>2. p \in A
      BY <3>1, <2>1, <2>5 DEF InOrder
    <3> QED BY <3>1, <3>2
  <2>8. \A p, q \in A : h[p] = h[q] => p = q
    BY <2>1, <2>3 DEF InOrder
  <2>9. IsFiniteSet(A)
    <3>1. IsFiniteSet(1..c)
      BY <2>2, FS_Interval
    <3> QED BY <3>1, FS_Subset
  <2>10. h \in Bijection(A, B)
    <3>1. h \in [A -> B]
      <4>1. h = [p \in A |-> h[p]]
        OBVIOUS
      <4> HIDE DEF h, A, B
      <4> QED BY <4>1, <2>6
    <3> HIDE DEF h, A, B
    <3> QED BY <3>1, <2>7, <2>8 DEF Bijection, Injection, Surjection, IsInjective
  <2>11. ExistsBijection(A, B)
    <3> HIDE DEF h, A, B
    <3> QED BY <2>10 DEF ExistsBijection
  <2>12. Cardinality(A) = Cardinality(B)
    <3> HIDE DEF h, A, B
    <3> QED BY <2>9, <2>11, FS_Bijection
  <2> QED BY <2>12
<1> QED BY <1>1, ProgramInvariant, PTL

(* The list of stores is the one of the program at every point of the      *)
(* rewriting, though the graph has no edge between two stores              *)
(* (scheduler.py 86-107, 158-180).                                         *)
THEOREM StoresUnchangedHolds == ProgramSpec => []StoresUnchanged
<1>1. ProgInv => StoresUnchanged
  <2> SUFFICES ASSUME ProgInv PROVE StoresOf(instructions) = StoresOf(program)
    BY DEF StoresUnchanged
  <2> DEFINE N == Len(program)
             Z == StoresUpTo(program, N)
  <2>1. PICK f : InOrder(f)
    BY DEF ProgInv, ListInv
  <2>2. /\ program \in Seq(Instruction) /\ N \in Nat /\ At = 1..N
        /\ instructions \in Seq(Instruction) /\ Len(instructions) = N
    BY ProgramFacts DEF ProgInv, ListInv
  <2>3. PICK g, m : /\ Lists(g, m, StoresUpTo(instructions, N))
                    /\ StoresOf(instructions) = [k \in 1..m |-> instructions[g[k]]]
    BY <2>2, StoresOfFacts
  <2>4. PICK h, n : /\ Lists(h, n, Z)
                    /\ StoresOf(program) = [k \in 1..n |-> program[h[k]]]
    BY <2>2, StoresOfFacts
  <2> HIDE DEF N
  <2>5. /\ m \in Nat /\ n \in Nat
        /\ \A k \in 1..m : g[k] \in At /\ IsStore(instructions[g[k]])
        /\ \A k, l \in 1..m : k < l => g[k] < g[l]
        /\ \A z \in At : IsStore(instructions[z]) => \E k \in 1..m : g[k] = z
    BY <2>2, <2>3, <2>4 DEF Lists, StoresUpTo, IsStore
  <2>6. /\ \A p \in At : f[p] \in At /\ instructions[p] = program[f[p]]
        /\ \A q \in At : \E p \in At : f[p] = q
        /\ \A p, q \in At : p < q /\ IsStore(program[f[p]]) /\ IsStore(program[f[q]])
                                => f[p] < f[q]
    BY <2>1 DEF InOrder
  <2> DEFINE e == [k \in 1..m |-> f[g[k]]]
  <2>7. Lists(e, m, Z)
    <3>1. \A k \in 1..m : e[k] = f[g[k]] /\ e[k] \in At /\ IsStore(program[e[k]])
      BY <2>5, <2>6
    <3>2. DOMAIN e = 1..m
      OBVIOUS
    <3> HIDE DEF e
    <3>3. \A k, l \in 1..m : k < l => e[k] < e[l]
      BY <3>1, <2>5, <2>6
    <3>4. \A z \in At : IsStore(program[z]) => \E k \in 1..m : e[k] = z
      BY <3>1, <2>5, <2>6
    <3> QED BY <3>1, <3>2, <3>3, <3>4, <2>2, <2>5 DEF Lists, StoresUpTo, IsStore
  <2>8. m = n /\ \A k \in 1..m : e[k] = h[k]
    <3>1. Z \in SUBSET Nat
      BY DEF StoresUpTo
    <3> HIDE DEF e, Z
    <3>2. ASSUME NEW a, NEW i, Lists(a, i, Z), NEW c, NEW j, Lists(c, j, Z), i <= j
          PROVE  i = j /\ \A k \in 1..i : a[k] = c[k]
      BY <3>1, <3>2, ListsAreEqual
    <3>3. CASE m <= n
      BY <3>2, <3>3, <2>4, <2>7
    <3>4. CASE n <= m
      <4>1. n = m /\ \A k \in 1..n : h[k] = e[k]
        BY <3>2, <3>4, <2>4, <2>7
      <4> QED BY <4>1
    <3> QED BY <3>3, <3>4, <2>5
  <2>9. \A k \in 1..m : instructions[g[k]] = program[h[k]]
    BY <2>5, <2>6, <2>8
  <2> QED BY <2>3, <2>4, <2>8, <2>9
<1> QED BY <1>1, ProgramInvariant, PTL

=============================================================================
