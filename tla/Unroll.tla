-------------------------------- MODULE Unroll --------------------------------
(***************************************************************************)
(* LoopUnrollingPass (passes/gemm.py): the first loop that looks like a    *)
(* counted one gets a second copy of its computations before its last      *)
(* branch, and counts in twos.                                             *)
(***************************************************************************)
EXTENDS LoopMotion
LOCAL INSTANCE SequencesExt

CONSTANTS Shift,       \* a copy of register r is looked for from r + Shift on
          Top,         \* and up to Top: 50 and 255 in the code
          Late         \* the labels that are greater than block_<n>, as strings

ASSUME UnrollAssumption == Reg \subseteq Nat /\ Shift \in Nat /\ Top \in Reg

UnrollFactor == 2

(* The name of a block is its label, or else block_<n>; the entry without *)
(* a label is in no loop.  Names are compared as strings, so that block_10 *)
(* is before block_2, and "loop" after both.                               *)
Number(b, its) ==
    Cardinality({c \in Leaders(its) : 1 < c /\ c < b /\ its[c].op # "label"})
Digits(n) == CHOOSE d \in 1..(n + 1) : n < 10^d /\ (d = 1 \/ 10^(d - 1) <= n)
NumberBefore(m, n) ==
    LET padded(k) == k * 10^(Digits(m) + Digits(n) - Digits(k))
    IN  padded(m) < padded(n) \/ (padded(m) = padded(n) /\ m < n)

Rank(b, its) == CASE its[b].op # "label" -> 1
                  [] its[b].op = "label" /\ its[b].lbl \in Late -> 2
                  [] OTHER -> 0
NameBefore(b, c, its) ==
    \/ Rank(b, its) < Rank(c, its)
    \/ /\ Rank(b, its) = Rank(c, its)
       /\ IF Rank(b, its) = 1 THEN NumberBefore(Number(b, its), Number(c, its))
          ELSE its[b].lbl < its[c].lbl

(* The instructions of a loop, in that order.                              *)
Body(loop, its) ==
    LET blocks == SetToSortSeq(loop.blocks, LAMBDA b, c : NameBefore(b, c, its))
    IN  FlattenSeq([n \in DOMAIN blocks |-> InOrder(Instructions(blocks[n], its), its)])

(* The first index that is in a set of indices, as a set.                  *)
FirstOf(ns) == {n \in ns : \A m \in ns : n <= m}

StoreFree(body, its) == \A n \in DOMAIN body : its[body[n]].op # "st"
GuardFree(body, its) ==
    \A n \in DOMAIN body : its[body[n]].guard => its[body[n]].op = "bra"

(* r := r + 1; the first one counts, and the bound is the first immediate  *)
(* any setp compares with.                                                 *)
Increments(body, its) ==
    {n \in DOMAIN body : /\ its[body[n]].op = "add"
                         /\ its[body[n]].srcs = <<R(its[body[n]].dst), I(1)>>}
Immediates(i) == {m \in DOMAIN i.srcs : i.srcs[m][1] = "int"}
Bounds(body, its) ==
    LET tests == {n \in DOMAIN body :
                     its[body[n]].op = "setp" /\ Immediates(its[body[n]]) # {}}
    IN  UNION {{its[body[n]].srcs[m][2] : m \in FirstOf(Immediates(its[body[n]]))} :
                  n \in FirstOf(tests)}
EvenBound(v) == v % UnrollFactor = 0

(* What is read and written by one instruction keeps its name.             *)
CarriedCounterOnly(counter, body, its) == {counter}        \* a mutant
Carried(counter, body, its) ==
    {counter} \cup {its[body[n]].dst : n \in
        {m \in DOMAIN body : /\ ~ its[body[m]].guard
                             /\ DestOf(its[body[m]]) \in RegsIn(its[body[m]].srcs)
                             /\ its[body[m]].op # "setp"}}

Copied(counter, body, its) ==
    SelectSeq(body, LAMBDA k : /\ ~ its[k].guard
                               /\ its[k].op \in PureOp \cup {"ld"}
                               /\ its[k].dst # counter)

(* _fresh_name_safe: the first free number from the copied register's own  *)
(* on, as a set.                                                           *)
Fresh(r, used) == FirstOf({c \in (r + Shift)..Top : c \notin used})

(* _rename_instruction_safe, item by item: names maps the registers that   *)
(* have a copy to it, items is what is copied so far, <<>> in failed ends  *)
(* it when a register has no copy.                                         *)
RenamedOperand(o, names) ==
    IF o[1] = "reg" /\ o[2] \in DOMAIN names THEN R(names[o[2]]) ELSE o
CopyOne(i, c, carried) ==
    LET fresh == IF i.dst \in carried THEN {i.dst} ELSE Fresh(i.dst, c.used)
    IN  IF fresh = {} \/ c.failed THEN [c EXCEPT !.failed = TRUE]
        ELSE LET d == CHOOSE x \in fresh : TRUE
                 names == IF i.dst \in carried THEN c.names
                          ELSE [r \in DOMAIN c.names \cup {i.dst} |->
                                   IF r = i.dst THEN d ELSE c.names[r]]
             IN  [failed |-> FALSE, used |-> c.used \cup {d}, names |-> names,
                  items |-> Append(c.items,
                      [i EXCEPT !.dst = d,
                                !.srcs = [m \in DOMAIN @ |->
                                             RenamedOperand(@[m], names)]])]
RegistersOf(its) ==
    UNION {RegsIn(its[k].srcs) \cup ({its[k].dst} \ {NoReg}) : k \in DOMAIN its}
CopyOf(counter, body, its) ==
    LET todo == Copied(counter, body, its)
        carried == Carried(counter, body, its)
        After[n \in 0..Len(todo)] ==
            IF n = 0 THEN [failed |-> FALSE, used |-> RegistersOf(its),
                           names |-> <<>>, items |-> <<>>]
            ELSE CopyOne(its[todo[n]], After[n - 1], carried)
    IN  After[Len(todo)]

Branches(body, its) == {n \in DOMAIN body : its[body[n]].op = "bra"}

(* What a loop becomes: no kernel if it is not unrolled, otherwise one.    *)
UnrolledLoop(loop, its) ==
    LET body == Body(loop, its)
        last == {n \in Branches(body, its) : \A m \in Branches(body, its) : m <= n}
    IN  {[k \in 1..(Len(its) + Len(copy.items)) |->
              IF k < body[b] THEN step[k]
              ELSE IF k < body[b] + Len(copy.items) THEN copy.items[k - body[b] + 1]
              ELSE step[k - Len(copy.items)]] :
            <<b, copy, step>> \in
              {<<b, CopyOf(its[body[n]].dst, body, its),
                 [its EXCEPT ![body[n]].srcs = <<R(its[body[n]].dst), I(UnrollFactor)>>]>> :
                  <<b, n>> \in last \X FirstOf(Increments(body, its))}}

UnrollLoops(its) ==
    LET loops == Loops(Graph(its))
        Eligible(n) ==
            LET body == Body(loops[n], its)
            IN  /\ StoreFree(body, its) /\ GuardFree(body, its)
                /\ \E v \in Bounds(body, its) : EvenBound(v)
                /\ Branches(body, its) # {}
                /\ \E m \in FirstOf(Increments(body, its)) :
                      ~ CopyOf(its[body[m]].dst, body, its).failed
        first == FirstOf({n \in DOMAIN loops : Eligible(n)})
    IN  IF first = {} THEN its
        ELSE CHOOSE new \in UnrolledLoop(loops[CHOOSE n \in first : TRUE], its) : TRUE

=============================================================================
