--------------------------------- MODULE Warp ---------------------------------
(***************************************************************************)
(* TrackBSimulator (sim.py): the lanes of a warp execute each instruction  *)
(* together, those whose guard does not hold excepted; a branch takes all  *)
(* of them or none.                                                        *)
(***************************************************************************)
EXTENDS AecIsa

CONSTANTS Gprs,              \* the numbers of general registers: 0..255
          GmemSize           \* the words of global memory

Thread(block, thread) ==
    [block |-> block, thread |-> thread, gpr |-> [g \in Gprs |-> 0],
     p |-> [n \in 0..7 |-> FALSE]]

GuardPasses(i, t) == i.pred # NoPredicate => (t.p[i.pred] # i.neg)

(* _branchx_next_pc.                                                       *)
Takes(i, t) == t.p[i.pred] # i.neg
Uniform(i, ts) == \A t, u \in DOMAIN ts : Takes(i, ts[t]) = Takes(i, ts[u])
AllTake(i, ts) == \A t \in DOMAIN ts : Takes(i, ts[t])

SpecialValue(selector, t) ==
    CASE selector = Specials.tid -> t.thread
      [] selector = Specials.ctaid -> t.block

Holds(cmp, a, b) == CASE cmp = "eq" -> a = b [] cmp = "ne" -> a # b
                      [] cmp = "lt" -> a < b [] cmp = "le" -> a <= b
                      [] cmp = "gt" -> a > b [] cmp = "ge" -> a >= b

(* _binary_result and _fma_result.                                         *)
Add(ty, a, b) == IF ty = "f32" THEN FloatAdd(a, b) ELSE (a + b) % W
Mul(ty, a, b) == IF ty = "f32" THEN FloatMul(a, b) ELSE (a * b) % W

(* The words of an access, counted from its address; global memory has an  *)
(* address for each word.  Accesses outside of a memory are errors.        *)
Words(i) == IF i.ty = "b64" THEN {0, 1} ELSE {0}
Faults(i, t, pmem) ==
    /\ i.op \in {"LD", "ST"}
    /\ \E n \in Words(i) :
          t.gpr[i.src1] + n \notin IF i.space = "gmem" THEN 0..(GmemSize - 1) ELSE DOMAIN pmem

(* What an instruction writes to general registers, as pairs.              *)
Writes(i, t, gmem, pmem) ==
    LET a == t.gpr[i.src1]
        b == t.gpr[i.src2]
        c == t.gpr[i.src3]
    IN  CASE i.op = "LOADI" -> {<<i.dest, i.imm % W>>}
          [] i.op = "LOADI64" -> {<<i.dest, i.imm % W>>,
                                  <<i.dest + 1, (i.imm \div W) % W>>}
          [] i.op = "CPY" ->
                IF i.src1 >= 256 THEN {<<i.dest, SpecialValue(i.src1, t)>>}
                ELSE {<<i.dest, a>>} \cup
                     (IF i.ty = "b64" THEN {<<i.dest + 1, t.gpr[i.src1 + 1]>>} ELSE {})
          [] i.op = "LD" -> {<<i.dest + n, IF i.space = "gmem" THEN gmem[a + n] ELSE pmem[a + n]>> :
                                n \in Words(i)}
          [] i.op = "ADD" -> {<<i.dest, Add(i.ty, a, b)>>}
          [] i.op = "MUL" -> {<<i.dest, Mul(i.ty, a, b)>>}
          [] i.op = "FMA" -> {<<i.dest, Add(i.ty, Mul(i.ty, a, b), c)>>}
          [] i.op = "AND" -> {<<i.dest, And(a, b)>>}
          [] OTHER -> {}

ExecuteLane(i, t, gmem, pmem) ==
    LET writes == Writes(i, t, gmem, pmem)
    IN  IF ~ GuardPasses(i, t) THEN t
        ELSE [t EXCEPT
                 !.gpr = [g \in Gprs |-> IF \E w \in writes : w[1] = g
                                         THEN (CHOOSE w \in writes : w[1] = g)[2]
                                         ELSE @[g]],
                 !.p = IF i.op # "CMPP" THEN @
                       ELSE [@ EXCEPT ![i.dest] =
                                Holds(i.cmp, t.gpr[i.src1], t.gpr[i.src2])]]

(* The store of a lane, and global memory after those of all, in order; a  *)
(* store of two words has the register in the first and 0 in the second.   *)
StoreOf(i, t) == IF i.op = "ST" /\ GuardPasses(i, t)
                 THEN <<<<t.gpr[i.src1], t.gpr[i.src2]>>>> ELSE <<>>
AfterStores(i, ts, gmem) ==
    [a \in DOMAIN gmem |->
        LET stores == {n \in DOMAIN ts : /\ StoreOf(i, ts[n]) # <<>>
                                        /\ a - ts[n].gpr[i.src1] \in Words(i)}
            last == CHOOSE n \in stores : \A m \in stores : m <= n
        IN  IF stores = {} THEN gmem[a]
            ELSE IF ts[last].gpr[i.src1] = a THEN ts[last].gpr[i.src2] ELSE 0]

=============================================================================
