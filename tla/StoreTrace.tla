------------------------------ MODULE StoreTrace ------------------------------
(***************************************************************************)
(* What a compiler promises: a kernel, run as it was written, makes a      *)
(* sequence of stores in each lane, and what it was compiled to makes the  *)
(* same stores in the same order, all of them and no others.  The source   *)
(* is run first and its stores are promised; they are sealed when it is    *)
(* compiled.                                                               *)
(***************************************************************************)
EXTENDS Naturals, Sequences

CONSTANT Who            \* the lanes

VARIABLES promised,     \* the stores of the kernel as it was written
          sealed,       \* it has ended and is compiled
          issued        \* the stores of what it was compiled to

storeVars == <<promised, sealed, issued>>

Init == /\ promised = [l \in Who |-> <<>>] /\ issued = [l \in Who |-> <<>>]
        /\ sealed = FALSE

Promise(l) ==
    /\ ~ sealed
    /\ Len(promised'[l]) = Len(promised[l]) + 1
    /\ SubSeq(promised'[l], 1, Len(promised[l])) = promised[l]
    /\ promised' = [promised EXCEPT ![l] = promised'[l]]
    /\ UNCHANGED <<sealed, issued>>

Seal == ~ sealed /\ sealed' = TRUE /\ UNCHANGED <<promised, issued>>

(* Some lanes make the store that is next for them.                        *)
Pending == {l \in Who : Len(issued[l]) < Len(promised[l])}
Issue == /\ sealed
         /\ \E ls \in SUBSET Pending :
               /\ ls # {}
               /\ issued' = [l \in Who |->
                                IF l \in ls
                                THEN Append(issued[l], promised[l][Len(issued[l]) + 1])
                                ELSE issued[l]]
         /\ UNCHANGED <<promised, sealed>>

Next == (\E l \in Who : Promise(l)) \/ Seal \/ Issue
Spec == Init /\ [][Next]_storeVars /\ WF_storeVars(Issue)

=============================================================================
