--------------------------------- MODULE Ptx ---------------------------------
(***************************************************************************)
(* The PTX source items that the scalar passes rewrite (ptx.py,            *)
(* PTXInstruction and labels), what the helpers of passes/_helpers.py say  *)
(* of one item, and what executing it does.  One operation stands for all  *)
(* that the passes treat alike: "add" and "mul" for the pure operations,   *)
(* "st" for every effect on memory, "setp" for every read that control     *)
(* depends on.  lbl is the name of a label and the target of a branch.     *)
(***************************************************************************)
EXTENDS Integers, Sequences

CONSTANTS Reg,             \* the virtual registers in use
          NoReg,           \* the absence of a destination
          Label,           \* the labels in use
          NoLabel,         \* what is neither a label nor a branch has no label
          W,               \* the number of words: 2^32 in the code
          FloatAdd(_, _),  \* what f32 arithmetic does to the words it is given
          FloatMul(_, _),
          And(_, _),       \* "and", "or" and "xor"
          NonFinite        \* the words that are infinities or NaN as f32

Word == 0..(W - 1)

ASSUME PtxAssumption ==
    /\ W \in Nat \ {0}
    /\ NoReg \notin Reg
    /\ NoLabel \notin Label
    /\ NonFinite \subseteq Word
    /\ \A a, b \in Word : 
            /\ FloatAdd(a, b) \in Word /\ FloatMul(a, b) \in Word
            /\ And(a, b) \in Word

(* An operand is a register or an immediate; f32 immediates are written    *)
(* 0fXXXXXXXX and are not read as integers, nor the other way round.       *)
R(r) == <<"reg", r>>
I(v) == <<"int", v>>
F(v) == <<"float", v>>
Operand == ({"reg"} \X Reg) \cup ({"int", "float"} \X Word)
RegsIn(srcs) == {srcs[k][2] : k \in {n \in DOMAIN srcs : srcs[n][1] = "reg"}}

PureOp == {"mov", "add", "mul", "and"}      \* _PURE_RESULT_BASES
Op == PureOp \cup {"ld", "setp", "fma", "st", "bra", "ret", "label"}
Type == {"u32", "s32", "f32"}
Item == [op : Op, ty : Type, dst : Reg \cup {NoReg}, srcs : Seq(Operand),
         guard : BOOLEAN, lbl : Label \cup {NoLabel}]

(* _destination_register: fma is not in _DESTINATION_BASES, so the passes  *)
(* see no destination, and take the register it writes for one it reads.   *)
Dest(i) == IF i.op \in PureOp \cup {"ld"} THEN i.dst ELSE NoReg
ReadRegs(i) == RegsIn(i.srcs) \cup (IF i.op = "fma" THEN {i.dst} ELSE {})

-----------------------------------------------------------------------------
(* What the passes know of constants: for each register <<>>, or its type  *)
(* and its value.  Integer types read each other's constants, f32 its own. *)
NoConstants == [r \in Reg |-> <<>>]
Constants == [Reg -> {<<>>} \cup (Type \X Word)]

TypeMatches(known, asked) == (known = "f32") <=> (asked = "f32")

(* The value of an operand read as type ty: a set of one word, or empty.   *)
Known(o, ty, constants) ==
    CASE o[1] = "reg" -> {c[2] : c \in {x \in {constants[o[2]]} :
                                          x # <<>> /\ TypeMatches(x[1], ty)}}
      [] o[1] = "int" -> IF ty = "f32" THEN {} ELSE {o[2]}
      [] o[1] = "float" -> IF ty = "f32" THEN {o[2]} ELSE {}
Immediate(v, ty) == IF ty = "f32" THEN F(v) ELSE I(v)

-----------------------------------------------------------------------------
(* Execution.  seen is what the outside can tell: the addresses and values *)
(* of stores, and the operands of the compares that steer control.         *)
State == [reg : [Reg -> Word], mem : [Word -> Word], seen : Seq(Seq(Word))]

Val(o, s) == IF o[1] = "reg" THEN s.reg[o[2]] ELSE o[2]
Vals(srcs, s) == [k \in DOMAIN srcs |-> Val(srcs[k], s)]

Result(op, ty, v) ==
    CASE op = "mov" -> v[1]
      [] op = "add" /\ ty = "f32" -> FloatAdd(v[1], v[2])
      [] op = "add" /\ ty # "f32" -> (v[1] + v[2]) % W
      [] op = "mul" /\ ty = "f32" -> FloatMul(v[1], v[2])
      [] op = "mul" /\ ty # "f32" -> (v[1] * v[2]) % W
      [] op = "and" -> And(v[1], v[2])
      [] op = "fma" -> FloatAdd(FloatMul(v[1], v[2]), v[3])

Exec(i, s) ==
    LET v == Vals(i.srcs, s)
    IN  CASE i.op \in {"label", "bra", "ret"} -> s
          [] i.op = "setp" -> [s EXCEPT !.seen = Append(@, v)]
          [] i.op = "st" -> [s EXCEPT !.mem[v[1]] = v[2],
                                      !.seen = Append(@, v)]
          [] i.op = "ld" -> [s EXCEPT !.reg[i.dst] = s.mem[v[1]]]
          [] OTHER -> [s EXCEPT !.reg[i.dst] = Result(i.op, i.ty, v)]

=============================================================================
