----------------------------- MODULE LanesProofs ------------------------------
(***************************************************************************)
(* What is decoded is what was lowered, for every kernel that lowering has *)
(* methods for and that the parser can produce.                            *)
(*                                                                         *)
(* The argument has three parts.  The format: no field of the control word *)
(* reaches into another, so that each is read as it was written, and no    *)
(* two names share an encoding; so an instruction that fits the format is  *)
(* decoded as what it means (RoundTrip).  Lowering: what is emitted for an *)
(* item fits, because registers, temporaries, constants and offsets have   *)
(* numbers for which there is room (PlaceAllFacts, InstrsFit).  The stages:*)
(* what is emitted so far fits and remembers where labels and branches are *)
(* (Lowered), so that patching puts addresses of the code into branches    *)
(* and into nothing else (PatchedFits).                                    *)
(*                                                                         *)
(* DecodesToWhatWasMeant speaks of one moment, after decoding.  IInv adds  *)
(* what makes it true there: what the plan has put into guards and what    *)
(* lowering has put into its output, at every stage before.                *)
(***************************************************************************)
EXTENDS Lanes, FiniteSetTheorems, WellFoundedInduction, TLAPS

(* The instructions that fit the format: numbers for which there is room,  *)
(* and only the fields that the opcode has.                                *)
HalfWord == {n \in Nat : n < 65536}
DoubleWord == 0..(W * W - 1)
Guarding == (0..7) \cup {NoPredicate}
Fields == [op : DOMAIN Opcodes, ty : Type \cup {"u64", "b32", "b64", "none"},
           dest : HalfWord, src1 : HalfWord, src2 : Word, src3 : Word,
           imm : DoubleWord, pred : Guarding, neg : BOOLEAN,
           cmp : {"none"} \cup DOMAIN Compares, space : {"none"} \cup DOMAIN Spaces]
Proper(i) == /\ i.cmp # "none" <=> i.op = "CMPP"
             /\ i.space # "none" <=> i.op \in {"LD", "ST"}
             /\ i.op = "LOADI64" => i.src2 = 0
             /\ UsesImmediate(i.op) => i.src3 = 0
             /\ i.op # "LOADI64" => i.imm \in Word
             /\ ~ UsesImmediate(i.op) => i.imm = 0
Fitting == {i \in Fields : Proper(i)}

(* The powers of two that the fields of an instruction are made of.        *)
LEMMA Powers == 2^0 = 1 /\ 2^1 = 2 /\ 2^2 = 4 /\ 2^3 = 8 /\ 2^16 = 65536
OBVIOUS

(* A field of three or four bits is read as the sum of its bits.           *)
LEMMA FieldIsSum ==
  ASSUME NEW bits, NEW width \in {3, 4}, NEW shift \in Nat
  PROVE  Field(bits, width, shift)
           = (IF shift \in bits THEN 1 ELSE 0) + (IF shift + 1 \in bits THEN 2 ELSE 0)
             + (IF shift + 2 \in bits THEN 4 ELSE 0)
             + (IF width = 4 /\ shift + 3 \in bits THEN 8 ELSE 0)
<1> DEFINE Digit(c) == IF shift + c - 1 \in bits THEN 2^(c - 1) ELSE 0
           Body(f) == [c \in 0..width |-> IF c = 0 THEN 0 ELSE f[c - 1] + Digit(c)]
           Below == CHOOSE f : f = Body(f)
           g == [c \in 0..width |->
                   (IF c >= 1 THEN Digit(1) ELSE 0) + (IF c >= 2 THEN Digit(2) ELSE 0)
                   + (IF c >= 3 THEN Digit(3) ELSE 0) + (IF c >= 4 THEN Digit(4) ELSE 0)]
<1>1. Field(bits, width, shift) = Below[width]
  BY Zenon DEF Field
<1>2. /\ Digit(1) = IF shift \in bits THEN 1 ELSE 0
      /\ Digit(2) = IF shift + 1 \in bits THEN 2 ELSE 0
      /\ Digit(3) = IF shift + 2 \in bits THEN 4 ELSE 0
      /\ Digit(4) = IF shift + 3 \in bits THEN 8 ELSE 0
  BY Powers
<1>3. \A c \in 0..width : c \in {0, 1, 2, 3, 4}
  OBVIOUS
<1> HIDE DEF Digit
<1>4. Digit(1) \in Int /\ Digit(2) \in Int /\ Digit(3) \in Int /\ Digit(4) \in Int
  BY <1>2
<1>5. g = Body(g)
  <2>1. \A c \in 0..width : g[c] = Body(g)[c]
    <3> SUFFICES ASSUME NEW c \in 0..width PROVE g[c] = Body(g)[c]
      OBVIOUS
    <3>1. CASE c = 0
      BY <3>1
    <3>2. CASE c # 0
      <4>1. c - 1 \in 0..width
        BY <3>2
      <4>2. g[c] = g[c - 1] + Digit(c)
        BY <3>2, <4>1, <1>3, <1>4
      <4> HIDE DEF g
      <4> QED BY <3>2, <4>2
    <3> QED BY <3>1, <3>2
  <2>2. g = [c \in 0..width |-> g[c]] /\ Body(g) = [c \in 0..width |-> Body(g)[c]]
    OBVIOUS
  <2> HIDE DEF g, Body
  <2> QED BY <2>1, <2>2
<1>6. Below = Body(Below)
  <2> HIDE DEF g, Body
  <2> QED BY <1>5
<1>7. \A c \in 0..width : Below[c] = IF c = 0 THEN 0 ELSE Below[c - 1] + Digit(c)
  <2> HIDE DEF Below
  <2> QED BY <1>6
<1> HIDE DEF Below
<1>8. /\ Below[0] = 0 /\ Below[1] = Below[0] + Digit(1)
      /\ Below[2] = Below[1] + Digit(2) /\ Below[3] = Below[2] + Digit(3)
  BY <1>7
<1>9. width = 4 => Below[4] = Below[3] + Digit(4)
  BY <1>7
<1> QED BY <1>1, <1>2, <1>4, <1>8, <1>9

(* The bits of a number are those of its field that are one.               *)
LEMMA BitsFacts ==
  ASSUME NEW n \in Nat, NEW width \in {3, 4}, NEW shift \in Nat, NEW k \in Nat
  PROVE  k \in Bits(n, width, shift) <=>
           \/ k = shift /\ n % 2 = 1
           \/ k = shift + 1 /\ (n \div 2) % 2 = 1
           \/ k = shift + 2 /\ (n \div 4) % 2 = 1
           \/ k = shift + 3 /\ width = 4 /\ (n \div 8) % 2 = 1
<1> DEFINE One(c) == (n \div 2^c) % 2 = 1
<1>1. k \in Bits(n, width, shift) <=> \E c \in 0..(width - 1) : k = c + shift /\ One(c)
  BY Zenon DEF Bits
<1>2. /\ One(0) <=> n % 2 = 1
      /\ One(1) <=> (n \div 2) % 2 = 1
      /\ One(2) <=> (n \div 4) % 2 = 1
      /\ One(3) <=> (n \div 8) % 2 = 1
  BY Powers
<1>3. \A c : c \in 0..(width - 1) <=> c \in {0, 1, 2} \/ (c = 3 /\ width = 4)
  OBVIOUS
<1> HIDE DEF One
<1> QED BY <1>1, <1>2, <1>3

(* So a field holds the number whose bits it is given.                     *)
LEMMA FieldOfBits ==
  ASSUME NEW bits, NEW width \in {3, 4}, NEW shift \in Nat,
         NEW n \in 0..15, width = 3 => n <= 7,
         \A k \in Nat : shift <= k /\ k < shift + width =>
             (k \in bits <=> k \in Bits(n, width, shift))
  PROVE  Field(bits, width, shift) = n
<1>1. /\ shift \in bits <=> n % 2 = 1
      /\ shift + 1 \in bits <=> (n \div 2) % 2 = 1
      /\ shift + 2 \in bits <=> (n \div 4) % 2 = 1
      /\ width = 4 => (shift + 3 \in bits <=> (n \div 8) % 2 = 1)
  <2>1. /\ shift < shift + width /\ shift + 1 < shift + width /\ shift + 2 < shift + width
        /\ width = 4 => shift + 3 < shift + width
    OBVIOUS
  <2>2. \A k \in Nat : k \in Bits(n, width, shift) <=>
           \/ k = shift /\ n % 2 = 1
           \/ k = shift + 1 /\ (n \div 2) % 2 = 1
           \/ k = shift + 2 /\ (n \div 4) % 2 = 1
           \/ k = shift + 3 /\ width = 4 /\ (n \div 8) % 2 = 1
    BY BitsFacts
  <2> QED BY <2>1, <2>2
<1>2. n = (IF n % 2 = 1 THEN 1 ELSE 0) + (IF (n \div 2) % 2 = 1 THEN 2 ELSE 0)
          + (IF (n \div 4) % 2 = 1 THEN 4 ELSE 0)
          + (IF width = 4 /\ (n \div 8) % 2 = 1 THEN 8 ELSE 0)
  <2>1. CASE n \in {0, 1, 2, 3}
    BY <2>1
  <2>2. CASE n \in {4, 5, 6, 7}
    BY <2>2
  <2>3. CASE n \in {8, 9, 10, 11}
    BY <2>3
  <2>4. CASE n \in {12, 13, 14, 15}
    BY <2>4
  <2> QED BY <2>1, <2>2, <2>3, <2>4
<1>3. (width = 4 /\ shift + 3 \in bits) <=> (width = 4 /\ (n \div 8) % 2 = 1)
  BY <1>1
<1>4. Field(bits, width, shift)
        = (IF shift \in bits THEN 1 ELSE 0) + (IF shift + 1 \in bits THEN 2 ELSE 0)
          + (IF shift + 2 \in bits THEN 4 ELSE 0)
          + (IF width = 4 /\ shift + 3 \in bits THEN 8 ELSE 0)
  BY FieldIsSum
<1>5. /\ (IF shift \in bits THEN 1 ELSE 0) = IF n % 2 = 1 THEN 1 ELSE 0
      /\ (IF shift + 1 \in bits THEN 2 ELSE 0) = IF (n \div 2) % 2 = 1 THEN 2 ELSE 0
      /\ (IF shift + 2 \in bits THEN 4 ELSE 0) = IF (n \div 4) % 2 = 1 THEN 4 ELSE 0
      /\ (IF width = 4 /\ shift + 3 \in bits THEN 8 ELSE 0)
           = IF width = 4 /\ (n \div 8) % 2 = 1 THEN 8 ELSE 0
  BY Zenon, <1>1, <1>3
<1>6. Field(bits, width, shift)
        = (IF n % 2 = 1 THEN 1 ELSE 0) + (IF (n \div 2) % 2 = 1 THEN 2 ELSE 0)
          + (IF (n \div 4) % 2 = 1 THEN 4 ELSE 0)
          + (IF width = 4 /\ (n \div 8) % 2 = 1 THEN 8 ELSE 0)
  BY <1>4, <1>5
<1> QED BY <1>2, <1>6

(* Numbers that fit in a word, or in two, survive being cut into words.    *)
LEMMA WordFacts ==
  ASSUME NEW v \in Word
  PROVE  v % W = v /\ v \div W = 0 /\ v % (W * W) = v
<1>1. W \in Nat /\ W > 0 /\ v \in Nat /\ v < W
  BY PtxAssumption DEF Word
<1>2. W * W \in Nat /\ W <= W * W
  BY <1>1
<1>3. v < W * W
  BY <1>1, <1>2
<1>4. \A n \in Nat : v < n => v % n = v
  BY <1>1
<1>5. v \div W = 0
  BY <1>1
<1> QED BY <1>1, <1>2, <1>3, <1>4, <1>5

(* A number of two words is its upper word and its lower one.              *)
LEMMA TwoWords ==
  ASSUME NEW v \in 0..(W * W - 1)
  PROVE  ((v \div W) % W) * W + (v % W) = v /\ v % (W * W) = v
<1>1. W \in Nat /\ W > 0 /\ v \in Nat /\ W * W \in Nat /\ v < W * W
  BY PtxAssumption
<1> DEFINE q == v \div W
           r == v % W
<1>2. q \in Nat /\ r \in Nat /\ r < W /\ v = q * W + r
  BY <1>1
<1> HIDE DEF q, r
<1>3. q < W
  <2> SUFFICES ASSUME q >= W PROVE FALSE
    BY <1>1, <1>2
  <2>1. q * W >= W * W
    BY <1>1, <1>2
  <2> QED BY <1>1, <1>2, <2>1
<1>4. q % W = q
  BY <1>1, <1>2, <1>3
<1>5. v % (W * W) = v
  <2>1. \A n \in Nat : v < n => v % n = v
    BY <1>1
  <2> QED BY <1>1, <2>1
<1> QED BY <1>2, <1>4, <1>5 DEF q, r

(* Each name of an opcode, a type, a compare or a space has a number of its*)
(* own, which the field for it has room for.                               *)
LEMMA OpcodeNames ==
  ASSUME NEW n \in DOMAIN Opcodes
  PROVE  Named(Opcodes, Opcodes[n]) = {n}
BY DEF Named, Opcodes

(* No two types have one encoding, and each fits its field.                *)
LEMMA TypeNames ==
  ASSUME NEW n \in DOMAIN Types
  PROVE  Named(Types, Types[n]) = {n} /\ Types[n] \in 0..15
BY DEF Named, Types

(* No two comparisons have one encoding, and each fits its field.          *)
LEMMA CompareNames ==
  ASSUME NEW n \in DOMAIN Compares
  PROVE  Named(Compares, Compares[n]) = {n} /\ Compares[n] \in 0..7
BY DEF Named, Compares

(* No two spaces have one encoding, and each fits its field.               *)
LEMMA SpaceNames ==
  ASSUME NEW n \in DOMAIN Spaces
  PROVE  Named(Spaces, Spaces[n]) = {n} /\ Spaces[n] \in 0..7
BY DEF Named, Spaces

(* The only name of an encoding is the one that decoding chooses.          *)
LEMMA TheOne == ASSUME NEW n PROVE The({n}) = n
BY DEF The

(* A field's bits stay within it.                                          *)
LEMMA BitsWithin ==
  ASSUME NEW n \in Nat, NEW width \in {3, 4}, NEW shift \in Nat,
         NEW k \in Bits(n, width, shift)
  PROVE  k \in Nat /\ shift <= k /\ k < shift + width
BY DEF Bits

(* The control half of an instruction, field by field: none of them reaches*)
(* into another.                                                           *)
LEMMA ControlFields ==
  ASSUME NEW i \in Fitting, Encodable(i)
  PROVE  /\ Field(Control(i), 4, TypeShift) = Types[EncodedType(i)]
         /\ EnableBit \in Control(i) <=> i.pred # NoPredicate
         /\ i.pred # NoPredicate => /\ Field(Control(i), 3, 0) = i.pred
                                    /\ NegateBit \in Control(i) <=> i.neg
         /\ i.cmp # "none" => Field(Control(i), 3, FamilyShift) = Compares[i.cmp]
         /\ i.space # "none" => Field(Control(i), 3, SpaceShift) = Spaces[i.space]
<1> DEFINE T == Bits(Types[EncodedType(i)], 4, 3)
           P == Bits(i.pred, 3, 0)
           C == Bits(Compares[i.cmp], 3, 8)
           S == Bits(Spaces[i.space], 3, 11)
<1>1. /\ EncodedType(i) \in DOMAIN Types
      /\ i.pred \in 0..7 \/ i.pred = NoPredicate
      /\ i.cmp # "none" => i.cmp \in DOMAIN Compares /\ i.space = "none"
      /\ i.space # "none" => i.space \in DOMAIN Spaces
  <2>1. EncodedType(i) \in DOMAIN Types
    BY DEF Encodable
  <2>2. /\ i.pred \in Guarding
        /\ i.cmp \in {"none"} \cup DOMAIN Compares
        /\ i.space \in {"none"} \cup DOMAIN Spaces
    BY DEF Fitting, Fields
  <2>3. /\ i.cmp # "none" <=> i.op = "CMPP"
        /\ i.space # "none" <=> i.op \in {"LD", "ST"}
    BY DEF Fitting, Proper
  <2> QED BY <2>1, <2>2, <2>3 DEF Guarding
<1>2. \A k : k \in Control(i) <=>
         \/ k \in T
         \/ i.pred # NoPredicate /\ (k = 15 \/ k \in P \/ (i.neg /\ k = 14))
         \/ i.cmp # "none" /\ k \in C
         \/ i.cmp = "none" /\ i.space # "none" /\ k \in S
  BY Zenon DEF Control, TypeShift, EnableBit, NegateBit, FamilyShift, SpaceBits, SpaceShift
<1>3. Types[EncodedType(i)] \in 0..15
  BY <1>1, TypeNames
<1>4. i.cmp # "none" => Compares[i.cmp] \in 0..7
  BY <1>1, CompareNames
<1>5. i.space # "none" => Spaces[i.space] \in 0..7
  BY <1>1, SpaceNames
<1>6. \A n \in 0..15, width \in {3, 4}, shift \in Nat :
         \A k \in Bits(n, width, shift) : k \in Nat /\ shift <= k /\ k < shift + width
  BY BitsWithin
<1>7. \A k \in T : k \in 3..6
  BY <1>3, <1>6
<1>8. i.pred # NoPredicate => \A k \in P : k \in 0..2
  BY <1>1, <1>6
<1>9. i.cmp # "none" => \A k \in C : k \in 8..10
  BY <1>4, <1>6
<1>10. i.space # "none" => \A k \in S : k \in 11..13
  BY <1>5, <1>6
<1>11. \A n \in 0..15, width \in {3, 4}, shift \in Nat :
          /\ width = 3 => n <= 7
          /\ \A k \in Nat : shift <= k /\ k < shift + width =>
                (k \in Control(i) <=> k \in Bits(n, width, shift))
          => Field(Control(i), width, shift) = n
  BY ZenonT(60), FieldOfBits
<1>12. Field(Control(i), 4, 3) = Types[EncodedType(i)]
  <2>1. \A k \in 3..6 : k \in Control(i) <=> k \in T
    <3> HIDE DEF T, P, C, S
    <3> QED BY <1>1, <1>2, <1>8, <1>9, <1>10
  <2>2. \A k \in Nat : 3 <= k /\ k < 3 + 4 => (k \in Control(i) <=> k \in T)
    <3> HIDE DEF T
    <3> QED BY <2>1
  <2> QED BY SMTT(30), <1>3, <1>11, <2>2
<1>13. i.pred # NoPredicate => Field(Control(i), 3, 0) = i.pred
  <2> SUFFICES ASSUME i.pred # NoPredicate PROVE Field(Control(i), 3, 0) = i.pred
    OBVIOUS
  <2>1. \A k \in 0..2 : k \in Control(i) <=> k \in P
    <3> HIDE DEF T, P, C, S
    <3> QED BY <1>1, <1>2, <1>7, <1>9, <1>10
  <2>2. \A k \in Nat : 0 <= k /\ k < 0 + 3 => (k \in Control(i) <=> k \in P)
    <3> HIDE DEF P
    <3> QED BY <2>1
  <2> QED BY SMTT(30), <1>1, <1>11, <2>2
<1>14. i.cmp # "none" => Field(Control(i), 3, 8) = Compares[i.cmp]
  <2> SUFFICES ASSUME i.cmp # "none" PROVE Field(Control(i), 3, 8) = Compares[i.cmp]
    OBVIOUS
  <2>1. \A k \in 8..10 : k \in Control(i) <=> k \in C
    <3> HIDE DEF T, P, C, S
    <3> QED BY <1>1, <1>2, <1>7, <1>8, <1>10
  <2>2. \A k \in Nat : 8 <= k /\ k < 8 + 3 => (k \in Control(i) <=> k \in C)
    <3> HIDE DEF C
    <3> QED BY <2>1
  <2> QED BY SMTT(30), <1>4, <1>11, <2>2
<1>15. i.space # "none" => Field(Control(i), 3, 11) = Spaces[i.space]
  <2> SUFFICES ASSUME i.space # "none" PROVE Field(Control(i), 3, 11) = Spaces[i.space]
    OBVIOUS
  <2>1. \A k \in 11..13 : k \in Control(i) <=> k \in S
    <3> HIDE DEF T, P, C, S
    <3> QED BY <1>1, <1>2, <1>7, <1>8, <1>9
  <2>2. \A k \in Nat : 11 <= k /\ k < 11 + 3 => (k \in Control(i) <=> k \in S)
    <3> HIDE DEF S
    <3> QED BY <2>1
  <2> QED BY SMTT(30), <1>5, <1>11, <2>2
<1>16. 15 \in Control(i) <=> i.pred # NoPredicate
  <2> HIDE DEF T, P, C, S
  <2> QED BY <1>1, <1>2, <1>7, <1>8, <1>9, <1>10
<1>17. i.pred # NoPredicate => (14 \in Control(i) <=> i.neg)
  <2> HIDE DEF T, P, C, S
  <2> QED BY <1>1, <1>2, <1>7, <1>8, <1>9, <1>10
<1> QED BY <1>12, <1>13, <1>14, <1>15, <1>16, <1>17
        DEF TypeShift, EnableBit, NegateBit, FamilyShift, SpaceShift

(* What a word of the program says is the instruction it was made from: the*)
(* decoder knows its opcode, type, compare and space by their numbers, and *)
(* finds every number in its place (isa.py, encode_instruction and         *)
(* decode_words_to_instruction).                                           *)
THEOREM RoundTrip ==
  ASSUME NEW i \in Fitting, Encodable(i)
  PROVE  Decodable(Encode(i)) /\ Decode(Encode(i)) = Meant(i)
<1> DEFINE w == Encode(i)
           d == Decode(w)
<1>1. i \in Fields /\ Proper(i)
  BY DEF Fitting
<1>2. /\ i.op \in DOMAIN Opcodes /\ i.dest \in HalfWord /\ i.src1 \in HalfWord
      /\ i.src2 \in Word /\ i.src3 \in Word /\ i.imm \in DoubleWord
      /\ i.pred \in Guarding /\ i.neg \in BOOLEAN
  BY <1>1 DEF Fields
<1>3. /\ i.cmp # "none" => i.cmp \in DOMAIN Compares
      /\ i.space # "none" => i.space \in DOMAIN Spaces
  BY <1>1 DEF Fields
<1>4. /\ EncodedType(i) \in DOMAIN Types
      /\ i.op = "BRX" \/ i.neg => i.pred # NoPredicate
  BY DEF Encodable
<1>5. /\ w.opcode = Opcodes[i.op] /\ w.control = Control(i)
      /\ w.dest = i.dest % 2^16 /\ w.src1 = i.src1 % 2^16
      /\ w.word1 = IF i.op = "LOADI64" THEN (i.imm \div W) % W ELSE i.src2 % W
      /\ w.word0 = IF UsesImmediate(i.op) THEN i.imm % W ELSE i.src3 % W
  BY DEF Encode
<1> HIDE DEF w
<1>6. The(Named(Opcodes, w.opcode)) = i.op /\ Named(Opcodes, w.opcode) # {}
  BY <1>2, <1>5, OpcodeNames, TheOne
<1>7. /\ Named(Types, Field(w.control, 4, TypeShift)) # {}
      /\ The(Named(Types, Field(w.control, 4, TypeShift))) = EncodedType(i)
  BY ZenonT(60), <1>4, <1>5, ControlFields, TypeNames, TheOne
<1>8. i.op = "CMPP" => /\ Named(Compares, Field(w.control, 3, FamilyShift)) # {}
                       /\ The(Named(Compares, Field(w.control, 3, FamilyShift))) = i.cmp
  <2> SUFFICES ASSUME i.op = "CMPP"
               PROVE  Named(Compares, Field(w.control, 3, FamilyShift)) = {i.cmp}
    BY TheOne
  <2>1. i.cmp # "none"
    BY <1>1 DEF Proper
  <2> QED BY <1>3, <1>5, <2>1, ControlFields, CompareNames
<1>9. i.op \in {"LD", "ST"} => /\ Named(Spaces, Field(w.control, 3, SpaceShift)) # {}
                               /\ The(Named(Spaces, Field(w.control, 3, SpaceShift))) = i.space
  <2> SUFFICES ASSUME i.op \in {"LD", "ST"}
               PROVE  Named(Spaces, Field(w.control, 3, SpaceShift)) = {i.space}
    BY TheOne
  <2>1. i.space # "none"
    BY <1>1 DEF Proper
  <2> QED BY <1>3, <1>5, <2>1, ControlFields, SpaceNames
<1>10. Decodable(w)
  BY <1>6, <1>7, <1>8, <1>9 DEF Decodable
<1>11. /\ d.op = i.op /\ d.ty = EncodedType(i) /\ d.dest = w.dest /\ d.src1 = w.src1
       /\ d.src2 = IF i.op = "LOADI64" THEN 0 ELSE w.word1
       /\ d.src3 = IF UsesImmediate(i.op) THEN 0 ELSE w.word0
       /\ d.imm = CASE i.op = "LOADI64" -> w.word1 * W + w.word0
                    [] UsesImmediate(i.op) /\ i.op # "LOADI64" -> w.word0
                    [] OTHER -> 0
  BY <1>6, <1>7 DEF Decode
<1>12. d.pred = i.pred /\ d.neg = i.neg
  <2>1. EnableBit \in w.control <=> i.pred # NoPredicate
    BY <1>5, ControlFields
  <2>2. CASE i.pred = NoPredicate
    <3>1. i.op # "BRX" /\ ~ i.neg /\ EnableBit \notin w.control
      BY <1>4, <2>1, <2>2
    <3>2. d.pred = NoPredicate /\ d.neg = FALSE
      BY <1>6, <3>1 DEF Decode
    <3> QED BY <1>2, <2>2, <3>1, <3>2
  <2>3. CASE i.pred # NoPredicate
    <3>1. Field(w.control, 3, 0) = i.pred /\ (NegateBit \in w.control <=> i.neg)
      BY <1>5, <2>3, ControlFields
    <3>2. EnableBit \in w.control
      BY <2>1, <2>3
    <3>3. d.pred = Field(w.control, 3, 0) /\ d.neg = (NegateBit \in w.control)
      BY <1>6, <3>2 DEF Decode
    <3> QED BY <1>2, <3>1, <3>3
  <2> QED BY <2>2, <2>3
<1>13. d.cmp = i.cmp /\ d.space = i.space
  <2>1. /\ d.cmp = IF i.op = "CMPP"
                   THEN The(Named(Compares, Field(w.control, 3, FamilyShift))) ELSE "none"
        /\ d.space = IF i.op \in {"LD", "ST"}
                     THEN The(Named(Spaces, Field(w.control, 3, SpaceShift))) ELSE "none"
    BY <1>6 DEF Decode
  <2>2. i.op # "CMPP" => i.cmp = "none"
    BY <1>1 DEF Proper
  <2>3. i.op \notin {"LD", "ST"} => i.space = "none"
    BY <1>1 DEF Proper
  <2> QED BY <1>8, <1>9, <2>1, <2>2, <2>3
<1>14. d.dest = i.dest /\ d.src1 = i.src1
  <2>1. \A n \in HalfWord : n % 65536 = n
    <3>1. \A m, n \in Nat : n < m => n % m = n
      OBVIOUS
    <3>2. 65536 \in Nat /\ \A n \in HalfWord : n \in Nat /\ n < 65536
      BY DEF HalfWord
    <3> QED BY <3>1, <3>2
  <2> QED BY <1>2, <1>5, <1>11, <2>1, Powers
<1>15. d.src2 = i.src2 /\ d.src3 = i.src3
  <2>1. i.src2 % W = i.src2 /\ i.src3 % W = i.src3
    BY <1>2, WordFacts
  <2>2. /\ i.op = "LOADI64" => i.src2 = 0
        /\ UsesImmediate(i.op) => i.src3 = 0
    BY <1>1 DEF Proper
  <2> QED BY <1>5, <1>11, <2>1, <2>2
<1>16. d.imm = i.imm /\ i.imm % (W * W) = i.imm
  <2>1. /\ ((i.imm \div W) % W) * W + (i.imm % W) = i.imm
        /\ i.imm % (W * W) = i.imm
    BY <1>2, TwoWords DEF DoubleWord
  <2>2. CASE i.op = "LOADI64"
    <3>1. UsesImmediate(i.op)
      BY <2>2 DEF UsesImmediate
    <3> QED BY <1>5, <1>11, <2>1, <2>2, <3>1
  <2>3. CASE i.op # "LOADI64" /\ UsesImmediate(i.op)
    <3>1. i.imm \in Word
      BY <1>1, <2>3 DEF Proper
    <3>2. i.imm % W = i.imm
      BY <3>1, WordFacts
    <3>3. d.imm = w.word0 /\ w.word0 = i.imm % W
      BY <1>5, <1>11, <2>3
    <3> QED BY <2>1, <3>2, <3>3
  <2>4. CASE ~ UsesImmediate(i.op)
    <3>1. i.imm = 0 /\ i.op # "LOADI64"
      BY <1>1, <2>4 DEF Proper, UsesImmediate
    <3>2. d.imm = 0
      BY <1>11, <2>4, <3>1
    <3> QED BY <2>1, <3>1, <3>2
  <2> QED BY <2>2, <2>3, <2>4
<1>17. d = [i EXCEPT !.ty = EncodedType(i)]
  <2>1. d = [op |-> d.op, ty |-> d.ty, dest |-> d.dest, src1 |-> d.src1, src2 |-> d.src2,
             src3 |-> d.src3, imm |-> d.imm, pred |-> d.pred, neg |-> d.neg,
             cmp |-> d.cmp, space |-> d.space]
    BY DEF Decode
  <2>2. i = [op |-> i.op, ty |-> i.ty, dest |-> i.dest, src1 |-> i.src1, src2 |-> i.src2,
             src3 |-> i.src3, imm |-> i.imm, pred |-> i.pred, neg |-> i.neg,
             cmp |-> i.cmp, space |-> i.space]
    BY <1>1 DEF Fields
  <2> HIDE DEF d
  <2>3. [i EXCEPT !.ty = EncodedType(i)] =
            [op |-> i.op, ty |-> EncodedType(i), dest |-> i.dest, src1 |-> i.src1,
             src2 |-> i.src2, src3 |-> i.src3, imm |-> i.imm, pred |-> i.pred,
             neg |-> i.neg, cmp |-> i.cmp, space |-> i.space]
    BY <2>2
  <2> QED BY <1>11, <1>12, <1>13, <1>14, <1>15, <1>16, <2>1, <2>3
<1>18. Meant(i) = [i EXCEPT !.ty = EncodedType(i)]
  <2>1. [i EXCEPT !.ty = EncodedType(i), !.imm = @ % (W * W)]
          = [i EXCEPT !.ty = EncodedType(i)]
    BY <1>1, <1>16 DEF Fields
  <2> QED BY <2>1 DEF Meant
<1> QED BY <1>10, <1>17, <1>18 DEF w

-----------------------------------------------------------------------------
(* Registers get numbers below the temporaries, a wide one two of them.    *)
OutputFields == {"code", "mapping", "reserved", "next", "labels", "branches", "failed"}
Mapped(o) ==
    /\ DOMAIN o = OutputFields /\ o.next \in Nat /\ o.failed \in BOOLEAN
    /\ \A r \in DOMAIN o.mapping :
          /\ o.mapping[r] \in 0..(TempBase - 1)
          /\ r \in Wide => o.mapping[r] + 1 \in 0..(TempBase - 1)
(* What placing operands keeps: all but the registers' numbers.            *)
Later(o, p) ==
    /\ Mapped(p)
    /\ p.code = o.code /\ p.labels = o.labels /\ p.branches = o.branches
    /\ o.failed => p.failed
    /\ DOMAIN o.mapping \subseteq DOMAIN p.mapping
Placed(p, x) == x[1] = "reg" => p.failed \/ x[2] \in DOMAIN p.mapping

(* A set of numbers that is not empty has a least one.                     *)
LEMMA LeastNumber ==
  ASSUME NEW S, S \subseteq Nat, S # {}
  PROVE  \E m \in S : \A k \in S : m <= k
<1> DEFINE Below == OpToRel(<, Nat)
<1>1. IsWellFoundedOn(Below, Nat)
  BY NatLessThanWellFounded
<1>2. \A n, m \in Nat : n < m => <<n, m>> \in Below
  BY DEF OpToRel
<1> HIDE DEF Below
<1>3. PICK m \in S : \A k \in S : ~ (<<k, m>> \in Below)
  BY <1>1, WFMin
<1>4. \A k \in S : ~ (k < m)
  BY <1>2, <1>3
<1> QED BY <1>4

(* An operand that is placed has a number, or the numbers have run out.    *)
LEMMA PlaceFacts ==
  ASSUME NEW o, Mapped(o), NEW x
  PROVE  Later(o, Place(o, x)) /\ Placed(Place(o, x), x)
<1> DEFINE r == x[2]
           base == CHOOSE b \in Free(r, o) : \A c \in Free(r, o) : b <= c
           new == [s \in {r} \cup DOMAIN o.mapping |->
                      IF s = r THEN base ELSE o.mapping[s]]
           p == [o EXCEPT !.mapping = new, !.reserved = @ \cup Needed(r, base),
                          !.next = base + Cardinality(Needed(r, base))]
<1>1. /\ o.next \in Nat /\ o.failed \in BOOLEAN /\ TempBase \in Nat
      /\ DOMAIN o = OutputFields
      /\ \A s \in DOMAIN o.mapping :
            /\ o.mapping[s] \in 0..(TempBase - 1)
            /\ s \in Wide => o.mapping[s] + 1 \in 0..(TempBase - 1)
  BY LoweringAssumption DEF Mapped
<1>2. CASE x[1] # "reg" \/ r \in DOMAIN o.mapping
  <2>1. Place(o, x) = o
    BY <1>2 DEF Place
  <2> QED BY <1>2, <2>1 DEF Later, Placed
<1>3. CASE x[1] = "reg" /\ r \notin DOMAIN o.mapping /\ Free(r, o) = {}
  <2>1. Place(o, x) = [o EXCEPT !.failed = TRUE]
    BY <1>3 DEF Place
  <2>2. LET q == Place(o, x)
        IN  /\ DOMAIN q = OutputFields /\ q.code = o.code /\ q.mapping = o.mapping
            /\ q.next = o.next /\ q.labels = o.labels /\ q.branches = o.branches
            /\ q.failed = TRUE
    BY <1>1, <2>1 DEF OutputFields
  <2> QED BY <1>1, <2>2 DEF Later, Placed, Mapped
<1>4. CASE x[1] = "reg" /\ r \notin DOMAIN o.mapping /\ Free(r, o) # {}
  <2>1. Place(o, x) = p
    BY <1>4 DEF Place
  <2>2. base \in Free(r, o)
    <3>1. Free(r, o) \subseteq Nat
      BY <1>1 DEF Free
    <3>2. \E b \in Free(r, o) : \A c \in Free(r, o) : b <= c
      BY <1>4, <3>1, LeastNumber
    <3> QED BY <3>2
  <2> HIDE DEF base
  <2>3. base \in 0..(TempBase - 1) /\ (r \in Wide => base + 1 \in 0..(TempBase - 1))
    BY <1>1, <2>2 DEF Free, Needed
  <2>4. Cardinality(Needed(r, base)) \in Nat
    <3>1. IsFiniteSet({base}) /\ IsFiniteSet({base, base + 1})
      BY FS_EmptySet, FS_AddElement
    <3> QED BY <3>1, FS_CardinalityType DEF Needed
  <2> HIDE DEF new
  <2>5. /\ DOMAIN p = OutputFields /\ p.code = o.code /\ p.mapping = new
        /\ p.next = base + Cardinality(Needed(r, base))
        /\ p.labels = o.labels /\ p.branches = o.branches /\ p.failed = o.failed
    BY <1>1 DEF OutputFields
  <2> HIDE DEF p
  <2>6. DOMAIN new = {r} \cup DOMAIN o.mapping
    BY DEF new
  <2>7. \A s \in DOMAIN new : /\ new[s] \in 0..(TempBase - 1)
                              /\ s \in Wide => new[s] + 1 \in 0..(TempBase - 1)
    BY <1>1, <2>3 DEF new
  <2>8. Mapped(p)
    BY <1>1, <2>3, <2>4, <2>5, <2>7 DEF Mapped
  <2> QED BY <1>1, <2>1, <2>5, <2>6, <2>8 DEF Later, Placed
<1> QED BY <1>2, <1>3, <1>4

(* Operands are placed one after the other: the recursive function that    *)
(* PlaceAll is written with exists.                                        *)
LEMMA PlaceAllSteps ==
  ASSUME NEW o, NEW i, Len(NamedBy(i)) \in Nat
  PROVE  \E f : /\ PlaceAll(o, i) = f[Len(NamedBy(i))]
                /\ f[0] = o
                /\ \A n \in 1..Len(NamedBy(i)) : f[n] = Place(f[n - 1], NamedBy(i)[n])
<1> DEFINE names == NamedBy(i)
           L == Len(names)
           Body(g, m) == [n \in 0..m |-> IF n = 0 THEN o ELSE Place(g[n - 1], names[n])]
           Missing == {m \in Nat : m <= L /\ ~ \E g : g = Body(g, m)}
           f == CHOOSE g : g = Body(g, L)
<1>1. L \in Nat
  OBVIOUS
<1>2. PlaceAll(o, i) = f[L]
  BY Zenon DEF PlaceAll
<1> HIDE DEF L, names
<1>3. Missing = {}
  <2> SUFFICES ASSUME Missing # {} PROVE FALSE
    OBVIOUS
  <2>1. PICK m \in Missing : \A k \in Missing : m <= k
    <3>1. Missing \subseteq Nat
      OBVIOUS
    <3> HIDE DEF Missing
    <3> QED BY <3>1, LeastNumber
  <2>2. m \in Nat /\ m <= L /\ ~ \E g : g = Body(g, m)
    OBVIOUS
  <2>3. m # 0
    <3> DEFINE h == [n \in 0..0 |-> o]
    <3>1. h = Body(h, 0)
      OBVIOUS
    <3> HIDE DEF h, Body
    <3> QED BY <3>1, <2>2
  <2>4. PICK g : g = Body(g, m - 1)
    <3>1. m - 1 \in Nat /\ m - 1 <= L /\ m - 1 < m
      BY <2>2, <2>3, <1>1
    <3>2. m - 1 \notin Missing
      <4> HIDE DEF Missing
      <4> QED BY <3>1, <2>1, <2>2
    <3> HIDE DEF Body
    <3> QED BY <3>1, <3>2
  <2> DEFINE h == [n \in 0..m |-> IF n < m THEN g[n] ELSE Place(g[m - 1], names[m])]
  <2>5. \A n \in 0..m : h[n] = Body(h, m)[n]
    <3> SUFFICES ASSUME NEW n \in 0..m PROVE h[n] = Body(h, m)[n]
      OBVIOUS
    <3>1. CASE n = 0
      <4>1. 0 \in 0..(m - 1) /\ 0 < m
        BY <2>2, <2>3
      <4>2. g[0] = o
        BY <4>1, <2>4
      <4> QED BY <3>1, <4>1, <4>2
    <3>2. CASE n # 0 /\ n < m
      <4>1. n \in 0..(m - 1) /\ n - 1 \in 0..m /\ n - 1 < m
        BY <3>2, <2>2
      <4>2. g[n] = Place(g[n - 1], names[n])
        BY <4>1, <3>2, <2>4
      <4>3. h[n] = g[n] /\ h[n - 1] = g[n - 1]
        BY <4>1, <3>2
      <4> QED BY <3>2, <4>2, <4>3
    <3>3. CASE n # 0 /\ n = m
      <4>1. m - 1 \in 0..m /\ m - 1 < m
        BY <2>2, <2>3
      <4>2. h[m - 1] = g[m - 1]
        BY <4>1
      <4>3. h[m] = Place(g[m - 1], names[m])
        BY <2>2
      <4>4. Body(h, m)[m] = Place(h[m - 1], names[m])
        <5> HIDE DEF h
        <5> QED BY <2>2, <2>3
      <4> HIDE DEF h, Body
      <4> QED BY <3>3, <4>2, <4>3, <4>4
    <3> QED BY <3>1, <3>2, <3>3, <2>2
  <2>6. h = Body(h, m)
    <3>1. h = [n \in 0..m |-> h[n]]
      OBVIOUS
    <3>2. Body(h, m) = [n \in 0..m |-> Body(h, m)[n]]
      OBVIOUS
    <3> HIDE DEF h, Body
    <3> QED BY <3>1, <3>2, <2>5
  <2> HIDE DEF h, Body
  <2> QED BY <2>6, <2>2
<1>4. f = Body(f, L)
  <2>1. L \notin Missing
    BY <1>3
  <2>2. \E g : g = Body(g, L)
    <3> HIDE DEF Body
    <3> QED BY <2>1, <1>1
  <2> HIDE DEF Body
  <2> QED BY <2>2
<1>5. \A n \in 0..L : f[n] = IF n = 0 THEN o ELSE Place(f[n - 1], names[n])
  <2> HIDE DEF f
  <2> QED BY <1>4
<1> HIDE DEF f
<1>6. f[0] = o /\ \A n \in 1..L : f[n] = Place(f[n - 1], names[n])
  BY <1>1, <1>5
<1> QED BY <1>2, <1>6 DEF L, names

(* So all operands of an item get their numbers, if there are enough.      *)
LEMMA PlaceAllFacts ==
  ASSUME NEW o, Mapped(o), NEW i, Len(NamedBy(i)) \in Nat
  PROVE  /\ Later(o, PlaceAll(o, i))
         /\ \A n \in 1..Len(NamedBy(i)) : Placed(PlaceAll(o, i), NamedBy(i)[n])
<1> DEFINE names == NamedBy(i)
           L == Len(names)
<1>1. PICK f : /\ PlaceAll(o, i) = f[L] /\ f[0] = o
               /\ \A n \in 1..L : f[n] = Place(f[n - 1], names[n])
  BY PlaceAllSteps
<1>2. L \in Nat
  OBVIOUS
<1> HIDE DEF L, names
<1> DEFINE Good(n) == Later(o, f[n]) /\ \A k \in 1..n : Placed(f[n], names[k])
           Bad == {n \in 0..L : ~ Good(n)}
<1>3. Bad = {}
  <2> SUFFICES ASSUME Bad # {} PROVE FALSE
    OBVIOUS
  <2>1. PICK n \in Bad : \A k \in Bad : n <= k
    <3>1. Bad \subseteq Nat
      BY <1>2
    <3> HIDE DEF Bad
    <3> QED BY <3>1, LeastNumber
  <2>2. n \in 0..L /\ ~ Good(n)
    OBVIOUS
  <2>3. n # 0
    BY <1>1, <2>2 DEF Later
  <2>4. Good(n - 1)
    <3>1. n - 1 \in 0..L /\ n - 1 < n
      BY <1>2, <2>2, <2>3
    <3> HIDE DEF Good
    <3> QED BY <2>1, <2>2, <3>1
  <2>5. f[n] = Place(f[n - 1], names[n]) /\ n \in 1..L
    BY <1>1, <1>2, <2>2, <2>3
  <2>6. Later(f[n - 1], f[n]) /\ Placed(f[n], names[n])
    BY <2>4, <2>5, PlaceFacts DEF Later
  <2>7. \A k \in 1..(n - 1) : Placed(f[n], names[k])
    BY <2>4, <2>6 DEF Later, Placed
  <2>8. Later(o, f[n])
    BY <2>4, <2>6 DEF Later
  <2>9. \A k \in 1..n : k \in 1..(n - 1) \/ k = n
    BY <1>2, <2>2
  <2> QED BY <2>2, <2>6, <2>7, <2>8, <2>9
<1>4. L \in 0..L /\ L \notin Bad
  BY <1>2, <1>3
<1> QED BY <1>1, <1>4 DEF L, names

-----------------------------------------------------------------------------
(* The instructions an item becomes fit the format.                        *)

(* Zero, and the numbers of registers, temporaries included, fit each field*)
(* they are put in.                                                        *)
LEMMA NumbersFit ==
  /\ 0 \in Word /\ 0 \in HalfWord /\ 0 \in DoubleWord /\ NoPredicate \in Guarding
  /\ Word \subseteq DoubleWord
  /\ \A n \in 0..(TempBase + 2) : n \in HalfWord /\ n \in Word
<1>1. W \in Nat /\ W > 0 /\ W <= W * W
  BY PtxAssumption
<1>2. TempBase \in Nat /\ TempBase + 3 <= 65536 /\ TempBase + 3 <= W
  BY LoweringAssumption, Powers
<1>3. 0 \in Word /\ 0 \in DoubleWord /\ Word \subseteq DoubleWord
  BY <1>1 DEF Word, DoubleWord
<1>4. \A n \in 0..(TempBase + 2) : n \in Nat /\ n < TempBase + 3
  BY <1>2
<1>5. \A n \in Nat : n < TempBase + 3 => n \in HalfWord /\ n \in Word
  <2>1. \A n \in Nat : n < TempBase + 3 => n \in HalfWord
    <3>1. \A n \in Nat : n < 65536 => n \in HalfWord
      BY DEF HalfWord
    <3>2. \A n \in Nat : n < TempBase + 3 => n < 65536
      BY <1>2
    <3> QED BY <3>1, <3>2
  <2>2. \A n \in Nat : n < TempBase + 3 => n \in Word
    BY <1>1, <1>2 DEF Word
  <2> QED BY <2>1, <2>2
<1>6. 0 \in HalfWord /\ NoPredicate \in Guarding
  BY DEF HalfWord, Guarding
<1> QED BY <1>3, <1>4, <1>5, <1>6

AnyType == Type \cup {"u64", "b32", "b64", "none"}

(* An instruction starts with no operand that could fail to fit.           *)
LEMMA AecFields ==
  ASSUME NEW op \in DOMAIN Opcodes, NEW ty \in AnyType
  PROVE  /\ Aec(op, ty) \in Fields
         /\ Aec(op, ty).op = op /\ Aec(op, ty).cmp = "none" /\ Aec(op, ty).space = "none"
         /\ Aec(op, ty).src2 = 0 /\ Aec(op, ty).src3 = 0 /\ Aec(op, ty).imm = 0
BY NumbersFit DEF Aec, Fields, AnyType

(* A guard fits any instruction.                                           *)
LEMMA GuardFits ==
  ASSUME NEW x \in Fitting, NEW n \in 0..7, NEW b \in BOOLEAN
  PROVE  /\ [x EXCEPT !.pred = n, !.neg = b] \in Fitting
         /\ [x EXCEPT !.pred = n, !.neg = b].op = x.op
<1> DEFINE y == [x EXCEPT !.pred = n, !.neg = b]
<1>1. x \in Fields /\ Proper(x)
  BY DEF Fitting
<1>2. n \in Guarding
  BY DEF Guarding
<1>3. y \in Fields
  BY <1>1, <1>2 DEF Fields
<1>4. /\ y.op = x.op /\ y.cmp = x.cmp /\ y.space = x.space /\ y.src2 = x.src2
      /\ y.src3 = x.src3 /\ y.imm = x.imm
  BY <1>1
<1> HIDE DEF y
<1>5. Proper(y)
  BY <1>1, <1>4 DEF Proper
<1>6. y \in Fitting /\ y.op = x.op
  BY <1>3, <1>4, <1>5 DEF Fitting
<1> QED BY <1>6 DEF y

(* Arithmetic.                                                             *)
LEMMA PlainFits ==
  ASSUME NEW op \in {"ADD", "MUL", "AND", "FMA"}, NEW ty \in AnyType,
         NEW d \in HalfWord, NEW a \in HalfWord, NEW b \in Word, NEW c \in Word
  PROVE  [Aec(op, ty) EXCEPT !.dest = d, !.src1 = a, !.src2 = b, !.src3 = c] \in Fitting
<1> DEFINE y == [Aec(op, ty) EXCEPT !.dest = d, !.src1 = a, !.src2 = b, !.src3 = c]
<1>1. op \in DOMAIN Opcodes
  BY DEF Opcodes
<1>2. y \in Fields
  <2>1. \A f \in Fields :
           [f EXCEPT !.dest = d, !.src1 = a, !.src2 = b, !.src3 = c] \in Fields
    BY DEF Fields
  <2> QED BY <1>1, <2>1, AecFields
<1>3. y.op = op /\ y.cmp = "none" /\ y.space = "none" /\ y.imm = 0
  BY <1>1, AecFields
<1> HIDE DEF y
<1>4. Proper(y)
  BY <1>3, NumbersFit DEF Proper, UsesImmediate
<1>5. y \in Fitting
  BY <1>2, <1>4 DEF Fitting
<1> QED BY <1>5 DEF y

(* Copies.                                                                 *)
LEMMA CopyFits ==
  ASSUME NEW ty \in AnyType, NEW d \in HalfWord, NEW a \in HalfWord
  PROVE  [Aec("CPY", ty) EXCEPT !.dest = d, !.src1 = a] \in Fitting
<1> DEFINE x == [Aec("CPY", ty) EXCEPT !.dest = d, !.src1 = a]
<1>1. "CPY" \in DOMAIN Opcodes
  BY DEF Opcodes
<1>2. x \in Fields
  <2>1. \A f \in Fields : [f EXCEPT !.dest = d, !.src1 = a] \in Fields
    BY DEF Fields
  <2> QED BY <1>1, <2>1, AecFields
<1>3. x.op = "CPY" /\ x.cmp = "none" /\ x.space = "none" /\ x.imm = 0
  BY <1>1, AecFields
<1> HIDE DEF x
<1>4. Proper(x)
  BY <1>3, NumbersFit DEF Proper, UsesImmediate
<1>5. x \in Fitting
  BY <1>2, <1>4 DEF Fitting
<1> QED BY <1>5 DEF x

(* Accesses to memory, and compares.                                       *)
LEMMA AccessFits ==
  ASSUME NEW ty \in AnyType, NEW d \in HalfWord, NEW a \in HalfWord, NEW b \in Word,
         NEW sp \in DOMAIN Spaces, NEW cmp \in DOMAIN Compares
  PROVE  /\ [Aec("LD", ty) EXCEPT !.dest = d, !.src1 = a, !.space = sp] \in Fitting
         /\ [Aec("ST", ty) EXCEPT !.src1 = a, !.src2 = b, !.space = sp] \in Fitting
         /\ [Aec("CMPP", ty) EXCEPT !.dest = d, !.cmp = cmp, !.src1 = a, !.src2 = b]
              \in Fitting
<1> DEFINE x == [Aec("LD", ty) EXCEPT !.dest = d, !.src1 = a, !.space = sp]
           y == [Aec("ST", ty) EXCEPT !.src1 = a, !.src2 = b, !.space = sp]
           z == [Aec("CMPP", ty) EXCEPT !.dest = d, !.cmp = cmp, !.src1 = a, !.src2 = b]
<1>1. /\ "LD" \in DOMAIN Opcodes /\ "ST" \in DOMAIN Opcodes /\ "CMPP" \in DOMAIN Opcodes
      /\ sp # "none" /\ cmp # "none"
  BY DEF Opcodes, Spaces, Compares
<1>2. x \in Fields /\ y \in Fields /\ z \in Fields
  <2>1. \A f \in Fields : [f EXCEPT !.dest = d, !.src1 = a, !.space = sp] \in Fields
    BY DEF Fields
  <2>2. \A f \in Fields : [f EXCEPT !.src1 = a, !.src2 = b, !.space = sp] \in Fields
    BY DEF Fields
  <2>3. \A f \in Fields :
           [f EXCEPT !.dest = d, !.cmp = cmp, !.src1 = a, !.src2 = b] \in Fields
    BY DEF Fields
  <2> QED BY <1>1, <2>1, <2>2, <2>3, AecFields
<1>3. /\ x.op = "LD" /\ x.cmp = "none" /\ x.space = sp /\ x.imm = 0
      /\ y.op = "ST" /\ y.cmp = "none" /\ y.space = sp /\ y.imm = 0
      /\ z.op = "CMPP" /\ z.cmp = cmp /\ z.space = "none" /\ z.imm = 0
  BY <1>1, AecFields DEF Aec
<1> HIDE DEF x, y, z
<1>4. Proper(x) /\ Proper(y) /\ Proper(z)
  BY <1>1, <1>3, NumbersFit DEF Proper, UsesImmediate
<1>5. x \in Fitting /\ y \in Fitting /\ z \in Fitting
  BY <1>2, <1>4 DEF Fitting
<1> QED BY <1>5 DEF x, y, z

(* Branches and returns.                                                   *)
LEMMA ControlFits ==
  ASSUME NEW op \in {"BR", "BRX", "HALT"}
  PROVE  Aec(op, "none") \in Fitting /\ Aec(op, "none").op = op
<1>1. op \in DOMAIN Opcodes /\ "none" \in AnyType
  BY DEF Opcodes, AnyType
<1>2. Proper(Aec(op, "none"))
  BY <1>1, AecFields, NumbersFit DEF Proper, UsesImmediate
<1> QED BY <1>1, <1>2, AecFields DEF Fitting

(* Constants.                                                              *)
LEMMA ConstantFits ==
  ASSUME NEW op \in {"LOADI", "LOADI64"}, NEW d \in HalfWord, NEW v \in Word
  PROVE  [Aec(op, "none") EXCEPT !.dest = d, !.imm = v] \in Fitting
<1> DEFINE x == [Aec(op, "none") EXCEPT !.dest = d, !.imm = v]
<1>1. op \in DOMAIN Opcodes /\ "none" \in AnyType
  BY DEF Opcodes, AnyType
<1>2. v \in DoubleWord
  BY NumbersFit
<1>3. x \in Fields
  <2>1. \A f \in Fields : [f EXCEPT !.dest = d, !.imm = v] \in Fields
    BY <1>2 DEF Fields
  <2> QED BY <1>1, <2>1, AecFields
<1>4. /\ x.op = op /\ x.cmp = "none" /\ x.space = "none" /\ x.imm = v
      /\ x.src2 = 0 /\ x.src3 = 0
  BY <1>1, AecFields DEF Aec
<1> HIDE DEF x
<1>5. Proper(x)
  BY <1>4 DEF Proper, UsesImmediate
<1>6. x \in Fitting
  BY <1>3, <1>5 DEF Fitting
<1> QED BY <1>6 DEF x

(* Loading a constant into a register fits.                                *)
LEMMA LoadImmFits ==
  ASSUME NEW d \in HalfWord, NEW v \in Word
  PROVE  LoadImm(d, v) \in Fitting
BY ConstantFits DEF LoadImm

-----------------------------------------------------------------------------
(* An item that lowering has a method for, and operands that have numbers. *)
Ready(i, p) ==
    /\ Mapped(p) /\ ~ p.failed
    /\ \A k \in DOMAIN i.srcs : i.srcs[k][1] = "reg" => i.srcs[k][2] \in DOMAIN p.mapping
    /\ i.op \in PureOp \cup {"ld", "fma"} => i.dst \in DOMAIN p.mapping

(* The operands of the item are those its operation asks for.              *)
LEMMA OperandsFacts ==
  ASSUME NEW types, NEW i \in KernelItem, Lowerable(i, types)
  PROVE  /\ i.op \in Op /\ i.ty \in Type \cup {"u64"} /\ i.guard \in BOOLEAN
         /\ i.neg \in BOOLEAN /\ i.cmp \in DOMAIN Compares
         /\ i.srcs \in Seq(Operand \cup {Tid, Ctaid} \cup {"param"} \X Nat)
         /\ i.op = "mov" => DOMAIN i.srcs = 1..1 /\ i.srcs[1] \in Operand \cup {Tid, Ctaid}
         /\ i.op \in {"add", "mul", "and", "setp"} =>
               DOMAIN i.srcs = 1..2 /\ \A k \in 1..2 : i.srcs[k] \in Operand
         /\ i.op = "fma" => DOMAIN i.srcs = 1..3 /\ \A k \in 1..3 : i.srcs[k] \in Operand
         /\ i.op = "ld" => /\ DOMAIN i.srcs = 1..1
                           /\ i.srcs[1] \in Registers \cup {Param(n) : n \in DOMAIN types}
         /\ i.op = "st" => DOMAIN i.srcs = 1..2 /\ \A k \in 1..2 : i.srcs[k] \in Registers
         /\ i.op \in {"bra", "ret", "label"} => i.srcs = <<>>
<1>1. /\ i.op \in Op /\ i.ty \in Type \cup {"u64"} /\ i.guard \in BOOLEAN
      /\ i.neg \in BOOLEAN /\ i.cmp \in DOMAIN Compares
      /\ i.srcs \in Seq(Operand \cup {Tid, Ctaid} \cup {"param"} \X Nat)
  BY DEF KernelItem
<1>2. i.srcs \in Sources(i.op, types)
  BY DEF Lowerable
<1>3. i.op = "mov" => i.srcs \in [1..1 -> Operand \cup {Tid, Ctaid}]
  BY <1>2 DEF Sources
<1>4. i.op \in {"add", "mul", "and", "setp"} => i.srcs \in [1..2 -> Operand]
  BY <1>2 DEF Sources
<1>5. i.op = "fma" => i.srcs \in [1..3 -> Operand]
  BY <1>2 DEF Sources
<1>6. i.op = "ld" => i.srcs \in [1..1 -> Registers \cup {Param(n) : n \in DOMAIN types}]
  BY <1>2 DEF Sources
<1>7. i.op = "st" => i.srcs \in [1..2 -> Registers]
  BY <1>2 DEF Sources
<1>8. i.op \in {"bra", "ret", "label"} => i.srcs = <<>>
  BY <1>2 DEF Sources
<1> QED BY <1>1, <1>3, <1>4, <1>5, <1>6, <1>7, <1>8

(* Once the operands that an item names are placed, it is ready.           *)
LEMMA NamedFacts ==
  ASSUME NEW types, NEW i \in KernelItem, Lowerable(i, types), i.op # "label"
  PROVE  /\ Len(NamedBy(i)) \in Nat
         /\ \A p : /\ Mapped(p) /\ ~ p.failed
                   /\ \A n \in 1..Len(NamedBy(i)) : Placed(p, NamedBy(i)[n])
                   => Ready(i, p)
<1> DEFINE s == i.srcs
           All == Operand \cup {Tid, Ctaid} \cup {"param"} \X Nat \cup {R(i.dst)}
<1>1. s \in Seq(All)
  <2>1. s \in Seq(Operand \cup {Tid, Ctaid} \cup {"param"} \X Nat)
    BY OperandsFacts
  <2> QED BY <2>1
<1>2. Len(s) \in Nat /\ DOMAIN s = 1..Len(s)
  BY <1>1
<1>3. R(i.dst)[1] = "reg" /\ R(i.dst)[2] = i.dst
  BY DEF R
<1> HIDE DEF s, All
<1>4. /\ <<R(i.dst)>> \o s \in Seq(All) /\ s \o <<R(i.dst)>> \in Seq(All)
      /\ Len(<<R(i.dst)>> \o s) = 1 + Len(s) /\ Len(s \o <<R(i.dst)>>) = Len(s) + 1
      /\ (<<R(i.dst)>> \o s)[1] = R(i.dst)
      /\ \A k \in 1..Len(s) : (<<R(i.dst)>> \o s)[k + 1] = s[k]
      /\ (s \o <<R(i.dst)>>)[Len(s) + 1] = R(i.dst)
      /\ \A k \in 1..Len(s) : (s \o <<R(i.dst)>>)[k] = s[k]
  <2>1. R(i.dst) \in All
    BY DEF All
  <2> QED BY <1>1, <1>2, <2>1
<1>5. CASE i.op = "ld" /\ i.srcs[1][1] = "reg"
  <2>1. NamedBy(i) = s \o <<R(i.dst)>>
    BY <1>5 DEF NamedBy, s
  <2> QED BY <1>2, <1>3, <1>4, <2>1 DEF Ready, Placed, s
<1>6. CASE i.op \in {"st", "setp"}
  <2>1. NamedBy(i) = s
    BY <1>6 DEF NamedBy, s
  <2> QED BY <1>2, <1>6, <2>1 DEF Ready, Placed, s, PureOp
<1>7. CASE i.op \in {"bra", "ret"}
  <2>1. NamedBy(i) = <<>> /\ DOMAIN i.srcs = {}
    BY <1>7, OperandsFacts DEF NamedBy
  <2> QED BY <1>7, <2>1 DEF Ready, PureOp
<1>8. CASE ~ (i.op = "ld" /\ i.srcs[1][1] = "reg") /\ i.op \notin {"st", "setp", "bra", "ret"}
  <2>1. NamedBy(i) = <<R(i.dst)>> \o s
    BY <1>8 DEF NamedBy, s
  <2>2. \A k \in 1..Len(s) : k + 1 \in 1..(Len(s) + 1)
    BY <1>2
  <2> QED BY <1>2, <1>3, <1>4, <2>1, <2>2 DEF Ready, Placed, s
<1> QED BY <1>5, <1>6, <1>7, <1>8

(* The n-th of the operands that are immediates exists, and three          *)
(* temporaries are enough for them.                                        *)
LEMMA CountFacts ==
  ASSUME NEW S, S \subseteq 1..3
  PROVE  /\ Cardinality(S) \in 0..3
         /\ \A k \in 1..3 : Cardinality({j \in S : j < k}) \in 0..2
         /\ \A n \in 1..Cardinality(S) : \E k \in S : Cardinality({j \in S : j < k}) = n - 1
<1> DEFINE Before(k) == {j \in S : j < k}
<1>1. /\ IsFiniteSet(1..3) /\ Cardinality(1..3) = 3
      /\ IsFiniteSet(1..2) /\ Cardinality(1..2) = 2
  <2>1. \A m \in Int : IsFiniteSet(1..m) /\ (m >= 1 => Cardinality(1..m) = m)
    <3>1. \A m \in Int : /\ IsFiniteSet(1..m)
                         /\ Cardinality(1..m) = IF 1 > m THEN 0 ELSE m - 1 + 1
      BY FS_Interval
    <3> QED BY <3>1
  <2>2. 2 \in Int /\ 3 \in Int /\ 2 >= 1 /\ 3 >= 1
    OBVIOUS
  <2> QED BY <2>1, <2>2
<1>0. \A j \in S : j \in Nat /\ 1 <= j /\ j <= 3
  OBVIOUS
<1>2. IsFiniteSet(S) /\ Cardinality(S) \in 0..3
  <2>1. IsFiniteSet(S) /\ Cardinality(S) <= 3
    BY <1>1, FS_Subset
  <2> QED BY <2>1, FS_CardinalityType
<1>3. \A k : IsFiniteSet(Before(k)) /\ Cardinality(Before(k)) \in Nat
  <2>1. \A k : Before(k) \subseteq S
    OBVIOUS
  <2> HIDE DEF Before
  <2> QED BY <1>2, <2>1, FS_Subset, FS_CardinalityType
<1>4. \A k \in 1..3 : Cardinality(Before(k)) \in 0..2
  <2> SUFFICES ASSUME NEW k \in 1..3 PROVE Cardinality(Before(k)) \in 0..2
    OBVIOUS
  <2>1. Before(k) \subseteq 1..2
    <3>1. \A j \in S : j < k => j \in 1..2
      BY <1>0
    <3> QED BY <3>1
  <2> HIDE DEF Before
  <2>2. Cardinality(Before(k)) <= 2
    BY <1>1, <2>1, FS_Subset
  <2> QED BY <1>3, <2>2
<1>5. \A n \in 1..Cardinality(S) : \E k \in S : Cardinality(Before(k)) = n - 1
  <2> SUFFICES ASSUME NEW n \in 1..Cardinality(S)
               PROVE  \E k \in S : Cardinality(Before(k)) = n - 1
    OBVIOUS
  <2> DEFINE Enough == {m \in Nat : Cardinality(Before(m)) >= n}
  <2>1. Enough # {}
    <3>1. Before(4) = S
      <4>1. \A j \in S : j < 4
        BY <1>0
      <4> QED BY <4>1
    <3> HIDE DEF Before
    <3>2. 4 \in Enough
      BY <1>2, <3>1
    <3> QED BY <3>2
  <2>2. PICK m \in Enough : \A l \in Enough : m <= l
    <3>1. Enough \subseteq Nat
      OBVIOUS
    <3> HIDE DEF Enough
    <3> QED BY <2>1, <3>1, LeastNumber
  <2>3. m \in Nat /\ Cardinality(Before(m)) >= n
    OBVIOUS
  <2>4. n \in Nat /\ n >= 1
    BY <1>2
  <2>5. m # 0
    <3>1. Before(0) = {}
      <4>1. \A j \in S : ~ (j < 0)
        BY <1>0
      <4> QED BY <4>1
    <3> HIDE DEF Before
    <3>2. Cardinality(Before(0)) = 0
      BY <3>1, FS_EmptySet
    <3> QED BY <2>3, <2>4, <3>2
  <2>6. m - 1 \in Nat /\ m - 1 \notin Enough
    <3>1. m - 1 \in Nat /\ m - 1 < m
      BY <2>3, <2>5
    <3> HIDE DEF Enough
    <3> QED BY <2>2, <2>3, <3>1
  <2>7. Cardinality(Before(m - 1)) < n
    <3> HIDE DEF Before
    <3> QED BY <1>3, <2>4, <2>6
  <2>8. m - 1 \in S
    <3> SUFFICES ASSUME m - 1 \notin S PROVE FALSE
      OBVIOUS
    <3>1. \A j \in S : j < m <=> j < m - 1
      BY <1>0, <2>3
    <3>2. Before(m) = Before(m - 1)
      BY <3>1
    <3> HIDE DEF Before
    <3> QED BY <1>3, <2>3, <2>4, <2>7, <3>2
  <2>9. Before(m) = Before(m - 1) \cup {m - 1} /\ m - 1 \notin Before(m - 1)
    <3>1. \A j \in S : j < m <=> j < m - 1 \/ j = m - 1
      BY <1>0, <2>3
    <3>2. ~ (m - 1 < m - 1)
      BY <2>3
    <3> QED BY <2>8, <3>1, <3>2
  <2> HIDE DEF Before
  <2>10. Cardinality(Before(m)) = Cardinality(Before(m - 1)) + 1
    BY <1>3, <2>9, FS_AddElement
  <2>11. Cardinality(Before(m - 1)) = n - 1
    BY <1>3, <2>3, <2>4, <2>7, <2>10
  <2> QED BY <2>8, <2>11
<1> QED BY <1>2, <1>4, <1>5

(* An operand is read from a register that fits, and a constant is loaded  *)
(* into a temporary.                                                       *)
LEMMA OperandsFit ==
  ASSUME NEW types, NEW i \in KernelItem, Lowerable(i, types),
         i.op \in {"add", "mul", "and", "setp", "fma"}, NEW p, Ready(i, p)
  PROVE  /\ \A k \in DOMAIN i.srcs : OperandReg(i, k, p) \in 0..(TempBase + 2)
         /\ Cardinality(Immediates(i)) \in Nat
         /\ \A n \in 1..Cardinality(Immediates(i)) : LoadConstants(i)[n] \in Fitting
<1> DEFINE S == Immediates(i)
           Before(k) == Cardinality({j \in S : j < k})
<1>1. /\ DOMAIN i.srcs \subseteq 1..3
      /\ \A k \in DOMAIN i.srcs : i.srcs[k] \in Operand
  <2>1. i.op = "fma" \/ i.op \in {"add", "mul", "and", "setp"}
    OBVIOUS
  <2>2. 1..2 \subseteq 1..3
    OBVIOUS
  <2> QED BY <2>1, <2>2, OperandsFacts
<1>2. S \subseteq 1..3 /\ S \subseteq DOMAIN i.srcs
  BY <1>1 DEF Immediates
<1>3. \A o \in Operand : /\ IsImmediate(o) => o[2] \in Word
                         /\ ~ IsImmediate(o) => o[1] = "reg"
  BY DEF Operand, IsImmediate
<1>4. /\ Cardinality(S) \in 0..3
      /\ \A k \in 1..3 : Before(k) \in 0..2
      /\ \A n \in 1..Cardinality(S) : \E k \in S : Before(k) = n - 1
  BY <1>2, CountFacts
<1>5. TempBase \in Nat
  BY LoweringAssumption
<1>6. \A k \in DOMAIN i.srcs : OperandReg(i, k, p) \in 0..(TempBase + 2)
  <2> SUFFICES ASSUME NEW k \in DOMAIN i.srcs PROVE OperandReg(i, k, p) \in 0..(TempBase + 2)
    OBVIOUS
  <2>1. CASE IsImmediate(i.srcs[k])
    <3>1. OperandReg(i, k, p) = TempBase + Before(k)
      BY <2>1 DEF OperandReg, Temp
    <3> HIDE DEF S, Before
    <3> QED BY <1>1, <1>4, <1>5, <3>1
  <2>2. CASE ~ IsImmediate(i.srcs[k])
    <3>1. OperandReg(i, k, p) = p.mapping[i.srcs[k][2]] /\ i.srcs[k][1] = "reg"
      BY <1>1, <1>3, <2>2 DEF OperandReg
    <3>2. i.srcs[k][2] \in DOMAIN p.mapping
      BY <3>1 DEF Ready
    <3>3. p.mapping[i.srcs[k][2]] \in 0..(TempBase - 1)
      BY <3>2 DEF Ready, Mapped
    <3> QED BY <1>5, <3>1, <3>3
  <2> QED BY <2>1, <2>2
<1>7. ASSUME NEW n \in 1..Cardinality(S) PROVE LoadConstants(i)[n] \in Fitting
  <2> DEFINE c == CHOOSE k \in S : Before(k) = n - 1
  <2>1. c \in S
    BY <1>4
  <2>2. LoadConstants(i)[n] = LoadImm(Temp(n - 1), i.srcs[c][2])
    BY DEF LoadConstants
  <2> HIDE DEF c
  <2>3. i.srcs[c][2] \in Word
    BY <1>1, <1>2, <1>3, <2>1 DEF Immediates
  <2>4. Temp(n - 1) \in 0..(TempBase + 2)
    BY SMTT(60), <1>4, <1>5 DEF Temp
  <2> QED BY <2>2, <2>3, <2>4, LoadImmFits, NumbersFit
<1> QED BY <1>4, <1>6, <1>7

(* The guard of an item is one of the eight predicates.                    *)
LEMMA OwnGuardFits ==
  ASSUME NEW types, NEW i \in KernelItem, Lowerable(i, types), NEW x \in Fitting
  PROVE  OwnGuard(i, x) \in Fitting /\ OwnGuard(i, x).op = x.op
<1>1. i.guard => i.pred \in 0..7
  BY LoweringAssumption DEF Lowerable
<1>2. i.neg \in BOOLEAN
  BY OperandsFacts
<1> QED BY <1>1, <1>2, GuardFits DEF OwnGuard

(* The register of a result fits, and so does its other half.              *)
LEMMA DestFits ==
  ASSUME NEW i, NEW p, Ready(i, p), i.op \in PureOp \cup {"ld", "fma"}
  PROVE  /\ p.mapping[i.dst] \in HalfWord
         /\ i.dst \in Wide => p.mapping[i.dst] + 1 \in HalfWord
<1>1. /\ p.mapping[i.dst] \in 0..(TempBase - 1)
      /\ i.dst \in Wide => p.mapping[i.dst] + 1 \in 0..(TempBase - 1)
  BY DEF Ready, Mapped
<1>2. \A n \in 0..(TempBase - 1) : n \in 0..(TempBase + 2)
  BY LoweringAssumption
<1> QED BY <1>1, <1>2, NumbersFit

(* The types of a kernel, and those lowering turns them into, have         *)
(* encodings.                                                              *)
LEMMA TypesFit ==
  /\ Type \subseteq AnyType /\ "u64" \in AnyType /\ "u32" \in AnyType /\ "none" \in AnyType
  /\ \A ty \in Type \cup {"u64"} : ty \in AnyType /\ AecType(ty) \in AnyType
BY DEF AnyType, AecType, Type

(* Loading a parameter fits, in one word or in two halves.                 *)
LEMMA LoadParamFits ==
  ASSUME NEW i, NEW p, Ready(i, p), i.op = "ld", NEW offset \in 0..(W - 5)
  PROVE  LoadParam(i, offset, p) \in Seq(Fitting)
<1> DEFINE d == p.mapping[i.dst]
           Imm(n) == LoadImm(Temp(n), offset + 4 * n)
           Ld(n) == [Aec("LD", "u32") EXCEPT !.dest = d + n, !.src1 = Temp(n), !.space = "pmem"]
           Half(n) == <<Imm(n), Ld(n)>>
<1>1. d \in HalfWord /\ (i.dst \in Wide => d + 1 \in HalfWord)
  BY DestFits
<1>2. /\ offset + 4 * 0 \in Word /\ offset + 4 * 1 \in Word
      /\ Temp(0) \in HalfWord /\ Temp(1) \in HalfWord
  <2>1. W \in Nat /\ TempBase \in Nat
    BY PtxAssumption, LoweringAssumption
  <2>2. Temp(0) \in 0..(TempBase + 2) /\ Temp(1) \in 0..(TempBase + 2)
    BY <2>1 DEF Temp
  <2>3. offset + 4 * 0 \in Word /\ offset + 4 * 1 \in Word
    BY <2>1 DEF Word
  <2> QED BY <2>2, <2>3, NumbersFit
<1>3. "pmem" \in DOMAIN Spaces
  BY DEF Spaces
<1>4. d + 0 = d
  BY <1>1 DEF HalfWord
<1>5. Imm(0) \in Fitting /\ Imm(1) \in Fitting
  BY SMTT(60), <1>2, LoadImmFits
<1>6. \A e \in HalfWord, a \in HalfWord :
         [Aec("LD", "u32") EXCEPT !.dest = e, !.src1 = a, !.space = "pmem"] \in Fitting
  <2>1. "eq" \in DOMAIN Compares
    BY DEF Compares
  <2> QED BY <1>3, <2>1, AccessFits, TypesFit, NumbersFit
<1>7. Ld(0) \in Fitting /\ (i.dst \in Wide => Ld(1) \in Fitting)
  BY <1>1, <1>2, <1>4, <1>6
<1>8. LoadParam(i, offset, p) = IF i.dst \in Wide THEN Half(0) \o Half(1) ELSE Half(0)
  BY DEF LoadParam
<1> HIDE DEF Imm, Ld
<1> QED BY <1>5, <1>7, <1>8

(* A move fits, from a register, a constant or a special register.         *)
LEMMA MoveFits ==
  ASSUME NEW types, NEW i \in KernelItem, Lowerable(i, types), i.op = "mov",
         NEW p, Ready(i, p)
  PROVE  Move(i, p) \in Fitting
<1> DEFINE d == p.mapping[i.dst]
           o == i.srcs[1]
<1>1. d \in HalfWord
  BY DestFits DEF PureOp
<1>2. o \in Operand \cup {Tid, Ctaid} /\ DOMAIN i.srcs = 1..1
      /\ i.ty \in Type \cup {"u64"}
  BY OperandsFacts
<1>3. DOMAIN Specials = {"tid", "ctaid"} /\ \A s \in DOMAIN Specials : Specials[s] \in HalfWord
  BY DEF Specials, HalfWord
<1>4. CASE o[1] \in DOMAIN Specials
  <2>1. Move(i, p) = [Aec("CPY", "u32") EXCEPT !.dest = d, !.src1 = Specials[o[1]]]
    BY <1>3, <1>4 DEF Move
  <2>2. Specials[o[1]] \in HalfWord
    BY <1>3, <1>4
  <2>3. \A e, a \in HalfWord : [Aec("CPY", "u32") EXCEPT !.dest = e, !.src1 = a] \in Fitting
    BY CopyFits, TypesFit
  <2> HIDE DEF d, o
  <2> QED BY <1>1, <2>1, <2>2, <2>3
<1>5. CASE o[1] = "reg"
  <2>1. Move(i, p) = [Aec("CPY", AecType(i.ty)) EXCEPT !.dest = d, !.src1 = p.mapping[o[2]]]
    BY <1>3, <1>5 DEF Move
  <2>2. o[2] \in DOMAIN p.mapping
    BY <1>2, <1>5 DEF Ready
  <2>3. p.mapping[o[2]] \in HalfWord
    <3>1. p.mapping[o[2]] \in 0..(TempBase - 1)
      BY <2>2 DEF Ready, Mapped
    <3>2. \A n \in 0..(TempBase - 1) : n \in 0..(TempBase + 2)
      BY LoweringAssumption
    <3> QED BY <3>1, <3>2, NumbersFit
  <2>4. AecType(i.ty) \in AnyType
    BY <1>2, TypesFit
  <2> HIDE DEF d, o
  <2> QED BY ZenonT(60), <1>1, <2>1, <2>3, <2>4, CopyFits
<1>6. CASE o[1] \notin DOMAIN Specials /\ o[1] # "reg"
  <2> DEFINE op == IF i.ty = "u64" THEN "LOADI64" ELSE "LOADI"
  <2>1. Move(i, p) = [Aec(op, "none") EXCEPT !.dest = d, !.imm = o[2]]
    BY <1>6 DEF Move
  <2>2. o[2] \in Word
    BY <1>2, <1>3, <1>6 DEF Operand, Tid, Ctaid
  <2>3. op \in {"LOADI", "LOADI64"}
    OBVIOUS
  <2>4. \A q \in {"LOADI", "LOADI64"}, e \in HalfWord, v \in Word :
           [Aec(q, "none") EXCEPT !.dest = e, !.imm = v] \in Fitting
    BY ConstantFits
  <2> HIDE DEF d, o, op
  <2>5. [Aec(op, "none") EXCEPT !.dest = d, !.imm = o[2]] \in Fitting
    BY <1>1, <2>2, <2>3, <2>4
  <2> QED BY <2>1, <2>5
<1> QED BY <1>4, <1>5, <1>6

(* Arithmetic fits, and the constants that it needs in registers.          *)
LEMMA AluFits ==
  ASSUME NEW types, NEW i \in KernelItem, Lowerable(i, types),
         i.op \in {"add", "mul", "and", "fma"}, NEW p, Ready(i, p)
  PROVE  Alu(i, p) \in Seq(Fitting)
<1> DEFINE d == p.mapping[i.dst]
           op == AluOp[i.op]
           ty == IF i.dst \in Wide THEN "u32" ELSE AecType(i.ty)
           c == IF i.op = "fma" THEN OperandReg(i, 3, p) ELSE 0
           inst == [Aec(op, ty) EXCEPT !.dest = d, !.src1 = OperandReg(i, 1, p),
                                       !.src2 = OperandReg(i, 2, p), !.src3 = c]
           high == LoadImm(d + 1, 0)
<1>1. d \in HalfWord /\ (i.dst \in Wide => d + 1 \in HalfWord)
  BY DestFits DEF PureOp
<1>2. op \in {"ADD", "MUL", "AND", "FMA"}
  BY DEF AluOp
<1>3. ty \in AnyType
  BY OperandsFacts, TypesFit
<1>4. /\ OperandReg(i, 1, p) \in HalfWord /\ OperandReg(i, 2, p) \in Word
      /\ c \in Word
  <2>1. \A k \in DOMAIN i.srcs : OperandReg(i, k, p) \in 0..(TempBase + 2)
    BY OperandsFit
  <2>2. 1 \in DOMAIN i.srcs /\ 2 \in DOMAIN i.srcs /\ (i.op = "fma" => 3 \in DOMAIN i.srcs)
    BY OperandsFacts
  <2> QED BY <2>1, <2>2, NumbersFit
<1>5. Alu(i, p) = <<OwnGuard(i, inst)>> \o
                  IF i.dst \in Wide THEN <<OwnGuard(i, high)>> ELSE <<>>
  BY DEF Alu
<1> HIDE DEF op, ty, c
<1>6. inst \in Fitting
  BY ZenonT(60), <1>1, <1>2, <1>3, <1>4, PlainFits
<1>7. i.dst \in Wide => high \in Fitting
  BY <1>1, LoadImmFits, NumbersFit
<1> HIDE DEF inst, high
<1>8. OwnGuard(i, inst) \in Fitting /\ (i.dst \in Wide => OwnGuard(i, high) \in Fitting)
  BY <1>6, <1>7, OwnGuardFits
<1> QED BY <1>5, <1>8

(* Whatever an item becomes fits the format; a branch becomes one branch.  *)
LEMMA InstrsFit ==
  ASSUME NEW types, NEW i \in KernelItem, Lowerable(i, types), i.op # "label",
         NEW p, Ready(i, p),
         NEW offsets, \A n \in DOMAIN types : offsets[n] \in 0..(W - 5)
  PROVE  /\ Instrs(i, offsets, p) \in Seq(Fitting)
         /\ i.op = "bra" => /\ Len(Instrs(i, offsets, p)) = 1
                            /\ Instrs(i, offsets, p)[1].op \in {"BR", "BRX"}
<1>1. /\ i.op \in Op /\ AecType(i.ty) \in AnyType /\ i.cmp \in DOMAIN Compares
      /\ "eq" \in DOMAIN Compares /\ "gmem" \in DOMAIN Spaces
  <2>1. i.op \in Op /\ i.ty \in Type \cup {"u64"} /\ i.cmp \in DOMAIN Compares
    BY OperandsFacts
  <2>2. "eq" \in DOMAIN Compares /\ "gmem" \in DOMAIN Spaces
    BY DEF Compares, Spaces
  <2> QED BY <2>1, <2>2, TypesFit
<1>2. \A x \in Fitting : OwnGuard(i, x) \in Fitting /\ OwnGuard(i, x).op = x.op
  BY OwnGuardFits
<1>3. \A r \in DOMAIN p.mapping : p.mapping[r] \in HalfWord /\ p.mapping[r] \in Word
  <2>1. \A r \in DOMAIN p.mapping : p.mapping[r] \in 0..(TempBase - 1)
    BY DEF Ready, Mapped
  <2>2. \A n \in 0..(TempBase - 1) : n \in 0..(TempBase + 2)
    BY LoweringAssumption
  <2> QED BY <2>1, <2>2, NumbersFit
<1>4. CASE i.op = "ld" /\ i.srcs[1][1] = "param"
  <2>1. Instrs(i, offsets, p) = LoadParam(i, offsets[i.srcs[1][2]], p)
    BY <1>4 DEF Instrs
  <2>2. i.srcs[1] \in Registers \cup {Param(n) : n \in DOMAIN types}
    BY <1>4, OperandsFacts
  <2>3. i.srcs[1][2] \in DOMAIN types
    BY <1>4, <2>2 DEF Registers, Param
  <2> QED BY <1>4, <2>1, <2>3, LoadParamFits
<1>5. CASE i.op = "ld" /\ i.srcs[1][1] # "param"
  <2> DEFINE x == [Aec("LD", AecType(i.ty)) EXCEPT !.dest = p.mapping[i.dst],
                                           !.src1 = p.mapping[i.srcs[1][2]],
                                           !.space = "gmem"]
  <2>1. Instrs(i, offsets, p) = <<OwnGuard(i, x)>>
    BY <1>5 DEF Instrs
  <2>2. i.srcs[1] \in Registers \cup {Param(n) : n \in DOMAIN types} /\ 1 \in DOMAIN i.srcs
    BY <1>5, OperandsFacts
  <2>3. i.srcs[1][1] = "reg"
    BY <1>5, <2>2 DEF Registers, Param
  <2>4. i.srcs[1][2] \in DOMAIN p.mapping /\ i.dst \in DOMAIN p.mapping
    BY <1>5, <2>2, <2>3 DEF Ready
  <2>5. p.mapping[i.dst] \in HalfWord /\ p.mapping[i.srcs[1][2]] \in HalfWord
    BY SMTT(60), <1>3, <2>4
  <2>6. x \in Fitting
    BY <1>1, <2>5, AccessFits, NumbersFit
  <2> HIDE DEF x
  <2> QED BY <1>2, <1>5, <2>1, <2>6
<1>6. CASE i.op = "st"
  <2> DEFINE x == [Aec("ST", AecType(i.ty)) EXCEPT !.src1 = p.mapping[i.srcs[1][2]],
                                           !.src2 = p.mapping[i.srcs[2][2]],
                                           !.space = "gmem"]
  <2>1. Instrs(i, offsets, p) = <<OwnGuard(i, x)>>
    BY <1>6 DEF Instrs
  <2>2. DOMAIN i.srcs = 1..2 /\ i.srcs[1][1] = "reg" /\ i.srcs[2][1] = "reg"
    <3>1. DOMAIN i.srcs = 1..2 /\ \A k \in 1..2 : i.srcs[k] \in Registers
      BY <1>6, OperandsFacts
    <3> QED BY <3>1 DEF Registers
  <2>3. i.srcs[1][2] \in DOMAIN p.mapping /\ i.srcs[2][2] \in DOMAIN p.mapping
    BY <2>2 DEF Ready
  <2>4. p.mapping[i.srcs[1][2]] \in HalfWord /\ p.mapping[i.srcs[2][2]] \in Word
    BY SMTT(60), <1>3, <2>3
  <2>5. x \in Fitting
    BY <1>1, <2>4, AccessFits, NumbersFit
  <2> HIDE DEF x
  <2> QED BY <1>2, <1>6, <2>1, <2>5
<1>7. CASE i.op = "mov"
  <2>1. Instrs(i, offsets, p) = <<OwnGuard(i, Move(i, p))>>
    BY <1>7 DEF Instrs
  <2>2. Move(i, p) \in Fitting
    BY <1>7, MoveFits
  <2> QED BY <1>2, <1>7, <2>1, <2>2
<1>8. i.op \in {"add", "mul", "and", "setp", "fma"} => LoadConstants(i) \in Seq(Fitting)
  <2> SUFFICES ASSUME i.op \in {"add", "mul", "and", "setp", "fma"}
               PROVE  LoadConstants(i) \in Seq(Fitting)
    OBVIOUS
  <2> DEFINE N == Cardinality(Immediates(i))
  <2>1. N \in Nat /\ \A n \in 1..N : LoadConstants(i)[n] \in Fitting
    BY OperandsFit
  <2>2. LoadConstants(i) = [n \in 1..N |-> LoadConstants(i)[n]]
    BY DEF LoadConstants
  <2> HIDE DEF N
  <2> QED BY <2>1, <2>2
<1>9. CASE i.op = "setp"
  <2> DEFINE x == [Aec("CMPP", AecType(i.ty)) EXCEPT !.dest = i.dst, !.cmp = i.cmp,
                              !.src1 = OperandReg(i, 1, p), !.src2 = OperandReg(i, 2, p)]
  <2>1. Instrs(i, offsets, p) = LoadConstants(i) \o <<OwnGuard(i, x)>>
    BY <1>9 DEF Instrs
  <2>2. OperandReg(i, 1, p) \in HalfWord /\ OperandReg(i, 2, p) \in Word
    <3>1. \A k \in DOMAIN i.srcs : OperandReg(i, k, p) \in 0..(TempBase + 2)
      BY <1>9, OperandsFit
    <3>2. 1 \in DOMAIN i.srcs /\ 2 \in DOMAIN i.srcs
      BY <1>9, OperandsFacts
    <3> QED BY <3>1, <3>2, NumbersFit
  <2>3. i.dst \in HalfWord
    <3>1. i.dst \in 0..7
      BY SMTT(60), <1>9, LoweringAssumption DEF Lowerable
    <3> QED BY <3>1 DEF HalfWord
  <2>4. x \in Fitting
    BY <1>1, <2>2, <2>3, AccessFits
  <2> HIDE DEF x
  <2>5. OwnGuard(i, x) \in Fitting
    BY <1>2, <2>4
  <2> QED BY <1>8, <1>9, <2>1, <2>5
<1>10. CASE i.op = "bra" /\ i.guard
  <2>1. Instrs(i, offsets, p) = <<OwnGuard(i, Aec("BRX", "none"))>>
    BY <1>10 DEF Instrs
  <2>2. /\ OwnGuard(i, Aec("BRX", "none")) \in Fitting
        /\ OwnGuard(i, Aec("BRX", "none")).op = "BRX"
    BY <1>2, ControlFits
  <2> QED BY <2>1, <2>2
<1>11. CASE i.op = "bra" /\ ~ i.guard
  <2>1. Instrs(i, offsets, p) = <<Aec("BR", "none")>>
    BY <1>11 DEF Instrs
  <2>2. Aec("BR", "none") \in Fitting /\ Aec("BR", "none").op = "BR"
    BY ControlFits
  <2> QED BY <2>1, <2>2
<1>12. CASE i.op = "ret"
  <2>1. Instrs(i, offsets, p) = <<Aec("HALT", "none")>>
    BY <1>12 DEF Instrs
  <2> QED BY <1>12, <2>1, ControlFits
<1>13. CASE i.op \in {"add", "mul", "and", "fma"}
  <2>1. Instrs(i, offsets, p) = LoadConstants(i) \o Alu(i, p)
    BY <1>13 DEF Instrs
  <2>2. Alu(i, p) \in Seq(Fitting)
    BY <1>13, AluFits
  <2> QED BY SMTT(60), <1>8, <1>13, <2>1, <2>2
<1>14. i.op \in {"mov", "add", "mul", "and", "ld", "setp", "fma", "st", "bra", "ret"}
  BY <1>1 DEF Op, PureOp
<1> QED BY <1>4, <1>5, <1>6, <1>7, <1>9, <1>10, <1>11, <1>12, <1>13, <1>14

-----------------------------------------------------------------------------
(* Lowering an item: the code stays made of instructions that fit, branches*)
(* wait for the addresses of labels that the code has reached.             *)
GuardsFit(p) == /\ "guards" \in DOMAIN p
                /\ \A k \in DOMAIN p.guards : /\ p.guards[k][1] \in 0..7
                                              /\ p.guards[k][2] \in BOOLEAN
Lowered(o, items, done) ==
    /\ Mapped(o) /\ o.code \in Seq(Fitting)
    /\ \A b \in o.branches : /\ b[1] \in 1..Len(o.code) /\ b[2] \in DOMAIN items
                             /\ o.code[b[1]].op \in {"BR", "BRX"}
                             /\ items[b[2]].op = "bra"
    /\ \A k \in DOMAIN o.labels : o.labels[k] \in 0..Len(o.code)
    /\ \A k \in 1..done : items[k].op = "label" => k \in DOMAIN o.labels

(* The guard that the control plan gives to an item fits what is emitted   *)
(* for it.                                                                 *)
LEMMA GuardedFits ==
  ASSUME NEW x \in Fitting, NEW k, NEW p, GuardsFit(p)
  PROVE  Guarded(x, k, p) \in Fitting /\ Guarded(x, k, p).op = x.op
<1>1. CASE k \in DOMAIN p.guards /\ x.pred = NoPredicate
  <2>1. p.guards[k][1] \in 0..7 /\ p.guards[k][2] \in BOOLEAN
    BY <1>1 DEF GuardsFit
  <2>2. Guarded(x, k, p) = [x EXCEPT !.pred = p.guards[k][1], !.neg = p.guards[k][2]]
    BY <1>1 DEF Guarded
  <2>3. \A n \in 0..7, b \in BOOLEAN : /\ [x EXCEPT !.pred = n, !.neg = b] \in Fitting
                                      /\ [x EXCEPT !.pred = n, !.neg = b].op = x.op
    BY GuardFits
  <2> QED BY ZenonT(60), <2>1, <2>2, <2>3
<1>2. CASE ~ (k \in DOMAIN p.guards /\ x.pred = NoPredicate)
  <2>1. Guarded(x, k, p) = x
    BY <1>2 DEF Guarded
  <2> QED BY <2>1
<1> QED BY SMTT(60), <1>1, <1>2

(* Lowering one more item emits instructions that fit, or fails; labels    *)
(* and branches are recorded at positions of the code.                     *)
LEMMA LowerItemFacts ==
  ASSUME NEW types, NEW items \in Seq(KernelItem),
         \A n \in DOMAIN items : Lowerable(items[n], types),
         NEW offsets, \A n \in DOMAIN types : offsets[n] \in 0..(W - 5),
         NEW p, GuardsFit(p), NEW k \in 1..Len(items),
         NEW o, Lowered(o, items, k - 1), ~ o.failed
  PROVE  LET q == LowerItem(k, items, offsets, p, o)
         IN  q.failed \/ Lowered(q, items, k)
<1> DEFINE i == items[k]
           q == LowerItem(k, items, offsets, p, o)
           placed == PlaceAll(o, i)
           new == Instrs(i, offsets, placed)
           guarded == [n \in DOMAIN new |-> Guarded(new[n], k, p)]
           more == IF i.op = "bra" THEN placed.branches \cup {<<Len(o.code) + 1, k>>}
                   ELSE placed.branches
<1>1. /\ Mapped(o) /\ DOMAIN o = OutputFields /\ o.code \in Seq(Fitting)
      /\ Len(o.code) \in Nat /\ DOMAIN o.code = 1..Len(o.code)
  BY DEF Lowered, Mapped
<1>2. k \in Nat /\ k \in DOMAIN items /\ i \in KernelItem /\ Lowerable(i, types)
  OBVIOUS
<1>3. \A n \in 1..k : n \in 1..(k - 1) \/ n = k
  BY <1>2
<1>4. CASE i.op = "label"
  <2> DEFINE labels == [n \in {k} \cup DOMAIN o.labels |->
                           IF n = k THEN Len(o.code) ELSE o.labels[n]]
  <2>1. q = [o EXCEPT !.labels = labels]
    BY <1>4 DEF LowerItem
  <2> HIDE DEF q
  <2>2. /\ DOMAIN q = OutputFields /\ q.code = o.code /\ q.mapping = o.mapping
        /\ q.next = o.next /\ q.branches = o.branches /\ q.failed = o.failed
        /\ q.labels = labels
    BY <1>1, <2>1 DEF OutputFields
  <2>3. Mapped(q)
    BY <1>1, <2>2 DEF Mapped
  <2>4. \A n \in DOMAIN labels : labels[n] \in 0..Len(o.code)
    BY <1>1 DEF Lowered
  <2>5. \A n \in 1..k : items[n].op = "label" => n \in DOMAIN labels
    BY <1>3 DEF Lowered
  <2> HIDE DEF labels
  <2>6. Lowered(q, items, k)
    BY <2>2, <2>3, <2>4, <2>5 DEF Lowered
  <2> QED BY <2>6 DEF q
<1>5. CASE i.op # "label" /\ k \in p.skipped
  <2>1. q = o
    BY <1>5 DEF LowerItem
  <2>2. Lowered(o, items, k)
    BY <1>3, <1>5 DEF Lowered
  <2> QED BY <2>1, <2>2
<1>6. CASE /\ i.op # "label" /\ k \notin p.skipped
           /\ NotUniform(k, i, p) \/ placed.failed
  <2>1. q = [o EXCEPT !.failed = TRUE]
    BY <1>6 DEF LowerItem
  <2>2. q.failed
    BY <1>1, <2>1 DEF OutputFields
  <2> QED BY <2>2
<1>7. CASE /\ i.op # "label" /\ k \notin p.skipped
           /\ ~ (NotUniform(k, i, p) \/ placed.failed)
  <2>1. q = [placed EXCEPT !.code = @ \o guarded, !.branches = more]
    BY <1>7, Zenon DEF LowerItem
  <2>2. /\ Len(NamedBy(i)) \in Nat
        /\ \A r : /\ Mapped(r) /\ ~ r.failed
                  /\ \A n \in 1..Len(NamedBy(i)) : Placed(r, NamedBy(i)[n])
                  => Ready(i, r)
    BY <1>2, <1>7, NamedFacts
  <2>3. Later(o, placed) /\ Ready(i, placed)
    <3>1. /\ Later(o, placed)
          /\ \A n \in 1..Len(NamedBy(i)) : Placed(placed, NamedBy(i)[n])
      BY <1>1, <2>2, PlaceAllFacts
    <3> HIDE DEF placed
    <3>2. Mapped(placed) /\ ~ placed.failed
      BY <1>7, <3>1 DEF Later
    <3> QED BY <2>2, <3>1, <3>2
  <2> HIDE DEF q, placed
  <2>4. /\ new \in Seq(Fitting)
        /\ i.op = "bra" => Len(new) = 1 /\ new[1].op \in {"BR", "BRX"}
    BY <1>2, <1>7, <2>3, InstrsFit
  <2>5. /\ guarded \in Seq(Fitting)
        /\ i.op = "bra" => Len(guarded) = 1 /\ guarded[1].op \in {"BR", "BRX"}
    <3> HIDE DEF new
    <3>1. DOMAIN new = 1..Len(new) /\ Len(new) \in Nat
      BY <2>4
    <3>2. \A n \in DOMAIN new : new[n] \in Fitting
      BY <2>4
    <3>3. \A n \in DOMAIN new : /\ Guarded(new[n], k, p) \in Fitting
                                /\ Guarded(new[n], k, p).op = new[n].op
      BY <3>2, GuardedFits
    <3>4. guarded \in Seq(Fitting) /\ Len(guarded) = Len(new)
      BY <3>1, <3>3
    <3> QED BY <2>4, <3>1, <3>3, <3>4
  <2> HIDE DEF guarded, more, new
  <2>6. /\ DOMAIN placed = OutputFields /\ placed.code = o.code
        /\ placed.labels = o.labels /\ placed.branches = o.branches
    BY <2>3 DEF Later, Mapped
  <2>7. /\ DOMAIN q = OutputFields /\ q.code = o.code \o guarded /\ q.branches = more
        /\ q.mapping = placed.mapping /\ q.next = placed.next /\ q.failed = placed.failed
        /\ q.labels = o.labels
    BY <2>1, <2>6 DEF OutputFields
  <2>8. Mapped(q)
    BY <2>3, <2>7 DEF Later, Mapped
  <2>9. /\ q.code \in Seq(Fitting) /\ Len(q.code) = Len(o.code) + Len(guarded)
        /\ Len(guarded) \in Nat
        /\ \A n \in 1..Len(o.code) : q.code[n] = o.code[n]
        /\ \A n \in 1..Len(guarded) : q.code[Len(o.code) + n] = guarded[n]
    BY <1>1, <2>5, <2>7
  <2>10. \A b \in q.branches : /\ b[1] \in 1..Len(q.code) /\ b[2] \in DOMAIN items
                               /\ q.code[b[1]].op \in {"BR", "BRX"}
                               /\ items[b[2]].op = "bra"
    <3> SUFFICES ASSUME NEW b \in q.branches
                 PROVE  /\ b[1] \in 1..Len(q.code) /\ b[2] \in DOMAIN items
                        /\ q.code[b[1]].op \in {"BR", "BRX"} /\ items[b[2]].op = "bra"
      OBVIOUS
    <3>1. CASE b \in o.branches
      <4>1. /\ b[1] \in 1..Len(o.code) /\ b[2] \in DOMAIN items
            /\ o.code[b[1]].op \in {"BR", "BRX"} /\ items[b[2]].op = "bra"
        BY <3>1 DEF Lowered
      <4>2. q.code[b[1]] = o.code[b[1]]
        BY <2>9, <4>1
      <4>3. b[1] \in 1..Len(q.code)
        BY <1>1, <2>9, <4>1
      <4> QED BY <4>1, <4>2, <4>3
    <3>2. CASE b \notin o.branches
      <4>1. b = <<Len(o.code) + 1, k>> /\ i.op = "bra"
        BY <2>6, <2>7, <3>2 DEF more
      <4>2. Len(guarded) = 1 /\ guarded[1].op \in {"BR", "BRX"}
        BY <2>5, <4>1
      <4>3. q.code[Len(o.code) + 1] = guarded[1]
        BY <2>9, <4>2
      <4> QED BY SMTT(60), <1>1, <1>2, <2>9, <4>1, <4>2, <4>3
    <3> QED BY <3>1, <3>2
  <2>11. \A n \in DOMAIN q.labels : q.labels[n] \in 0..Len(q.code)
    <3>1. \A n \in DOMAIN o.labels : o.labels[n] \in 0..Len(o.code)
      BY DEF Lowered
    <3>2. \A m \in 0..Len(o.code) : m \in 0..Len(q.code)
      BY <1>1, <2>9
    <3> QED BY <2>7, <3>1, <3>2
  <2>12. \A n \in 1..k : items[n].op = "label" => n \in DOMAIN q.labels
    BY <1>3, <1>7, <2>7 DEF Lowered
  <2>13. Lowered(q, items, k)
    BY <2>8, <2>9, <2>10, <2>11, <2>12 DEF Lowered
  <2> QED BY <2>13 DEF q
<1> QED BY <1>4, <1>5, <1>6, <1>7

(* A label that a branch names has an address once all items are lowered:  *)
(* what is patched is a program that fits.                                 *)
LEMMA PatchedFits ==
  ASSUME NEW items \in Seq(KernelItem), ~ Malformed(items),
         NEW o, Lowered(o, items, Len(items)), Len(o.code) < W
  PROVE  /\ DOMAIN Patched(items, o) = DOMAIN o.code
         /\ \A n \in DOMAIN o.code : Patched(items, o)[n] \in Fitting
<1>1. /\ o.code \in Seq(Fitting) /\ Len(o.code) \in Nat /\ DOMAIN o.code = 1..Len(o.code)
      /\ W \in Nat /\ DOMAIN items = 1..Len(items)
  BY PtxAssumption DEF Lowered
<1>2. DOMAIN Patched(items, o) = DOMAIN o.code
  BY DEF Patched
<1>3. ASSUME NEW n \in DOMAIN o.code PROVE Patched(items, o)[n] \in Fitting
  <2>1. o.code[n] \in Fitting
    BY <1>1
  <2>2. CASE ~ \E b \in o.branches : b[1] = n
    <3>1. Patched(items, o)[n] = o.code[n]
      BY <2>2 DEF Patched
    <3> QED BY SMTT(60), <2>1, <3>1
  <2>3. CASE \E b \in o.branches : b[1] = n
    <3> DEFINE b == CHOOSE c \in o.branches : c[1] = n
               address == o.labels[LabelAt(items[b[2]].lbl, items)]
    <3>1. b \in o.branches /\ b[1] = n
      BY SMTT(60), <2>3
    <3>2. Patched(items, o)[n] = [o.code[n] EXCEPT !.imm = address]
      BY <2>3 DEF Patched
    <3> HIDE DEF b
    <3>3. b[2] \in DOMAIN items /\ items[b[2]].op = "bra" /\ o.code[n].op \in {"BR", "BRX"}
      BY <3>1 DEF Lowered
    <3>4. \E k \in Positions(items, {"label"}) : items[k].lbl = items[b[2]].lbl
      <4>1. b[2] \in Positions(items, {"bra"})
        BY <3>3 DEF Positions
      <4> QED BY <4>1 DEF Malformed, UndefinedTarget
    <3> DEFINE k == LabelAt(items[b[2]].lbl, items)
    <3>5. k \in Positions(items, {"label"})
      BY <3>4 DEF LabelAt
    <3> HIDE DEF k
    <3>6. k \in 1..Len(items) /\ items[k].op = "label"
      BY <1>1, <3>5 DEF Positions
    <3>7. k \in DOMAIN o.labels
      BY <3>6 DEF Lowered
    <3>8. o.labels[k] \in 0..Len(o.code)
      BY <3>7 DEF Lowered
    <3>9. address \in Word
      BY <1>1, <3>8 DEF Word, k
    <3> HIDE DEF address
    <3> DEFINE x == [o.code[n] EXCEPT !.imm = address]
    <3>10. o.code[n] \in Fields /\ Proper(o.code[n])
      BY <2>1 DEF Fitting
    <3>11. x \in Fields
      <4>1. address \in DoubleWord
        BY <3>9, NumbersFit
      <4>2. \A f \in Fields : [f EXCEPT !.imm = address] \in Fields
        BY <4>1 DEF Fields
      <4> QED BY <3>10, <4>2
    <3>12. /\ x.op = o.code[n].op /\ x.cmp = o.code[n].cmp /\ x.space = o.code[n].space
           /\ x.src2 = o.code[n].src2 /\ x.src3 = o.code[n].src3
      OBVIOUS
    <3>13. x.imm = address
      BY <3>10 DEF Fields
    <3> HIDE DEF x
    <3>14. Proper(x)
      BY <3>3, <3>9, <3>10, <3>12, <3>13 DEF Proper, UsesImmediate
    <3>15. x \in Fitting
      BY <3>11, <3>14 DEF Fitting
    <3> QED BY <3>2, <3>15 DEF x
  <2> QED BY <2>2, <2>3
<1> QED BY <1>2, <1>3

-----------------------------------------------------------------------------
(* What holds while a kernel goes through the compiler: nothing is emitted *)
(* before lowering, guards have numbers, what is emitted so far fits, and  *)
(* while the simulator runs the code is what the output means.             *)
DecodedAsMeant ==
    code = [n \in DOMAIN Patched(its, out) |-> Meant(Patched(its, out)[n])]
IInv == /\ kernel \in Kernels
        /\ stage \in {"source", "plan"} => out = StartOutput
        /\ stage \in {"plan", "lower"} => ~ Malformed(its) /\ GuardsFit(plan)
        /\ stage = "lower" => /\ at \in 1..(Len(its) + 1)
                              /\ out.failed \/ Lowered(out, its, at - 1)
        /\ stage = "run" /\ Len(out.code) < W => DecodedAsMeant

(* A kernel is a sequence of items that lowering has methods for.          *)
LEMMA KernelFacts ==
  ASSUME kernel \in Kernels
  PROVE  /\ its \in Seq(KernelItem) /\ Len(its) \in Nat /\ DOMAIN its = 1..Len(its)
         /\ \A n \in DOMAIN its : Lowerable(its[n], kernel.types)
         /\ \A n \in DOMAIN kernel.types : Offsets[n] \in 0..(W - 5)
<1>1. /\ its \in Seq(KernelItem)
      /\ \A n \in DOMAIN its : Lowerable(its[n], kernel.types)
      /\ \A n \in DOMAIN kernel.types : Offsets[n] \in 0..(W - 5)
  BY KernelsAssumption DEF its, Offsets
<1>2. Len(its) \in Nat /\ DOMAIN its = 1..Len(its)
  BY <1>1
<1> QED BY <1>1, <1>2

(* A branch that is legalised gives the items in its region the guard of   *)
(* its own predicate.                                                      *)
LEMMA LegaliseFits ==
  ASSUME kernel \in Kernels, GuardsFit(plan), NEW b \in ConditionalBranches(its)
  PROVE  GuardsFit(LegaliseBranch(b, its, plan))
<1>1. b \in DOMAIN its /\ its[b].guard
  BY DEF ConditionalBranches, Positions
<1>2. its[b].pred \in 0..7 /\ its[b].neg \in BOOLEAN
  <2>1. its[b] \in KernelItem /\ Lowerable(its[b], kernel.types)
    BY <1>1, KernelFacts
  <2>2. its[b].pred \in 0..7
    BY <1>1, <2>1, LoweringAssumption DEF Lowerable
  <2> QED BY <2>1, <2>2, OperandsFacts
<1> DEFINE guarded == RegionOf(b, its) \ UniformControl(RegionOf(b, its), its, plan)
           guards == [k \in guarded \cup DOMAIN plan.guards |->
                         IF k \in guarded THEN GuardOf(b, its) ELSE plan.guards[k]]
<1>3. GuardOf(b, its)[1] \in 0..7 /\ GuardOf(b, its)[2] \in BOOLEAN
  BY <1>2 DEF GuardOf
<1>4. \A k \in DOMAIN guards : guards[k][1] \in 0..7 /\ guards[k][2] \in BOOLEAN
  BY <1>3 DEF GuardsFit
<1>5. CASE Legalisable(b, its, plan)
  <2>1. LegaliseBranch(b, its, plan) = [plan EXCEPT !.skipped = @ \cup {b}, !.guards = guards]
    BY <1>5, Zenon DEF LegaliseBranch
  <2> HIDE DEF guards
  <2> QED BY <1>4, <2>1 DEF GuardsFit
<1>6. CASE ~ Legalisable(b, its, plan) /\ BranchClasses(its)[b] = "varying"
  <2>1. LegaliseBranch(b, its, plan) = [plan EXCEPT !.legacy = @ \cup {b}]
    BY <1>6, Zenon DEF LegaliseBranch
  <2> QED BY <2>1 DEF GuardsFit
<1>7. CASE ~ Legalisable(b, its, plan) /\ BranchClasses(its)[b] # "varying"
  <2>1. LegaliseBranch(b, its, plan) = plan
    BY <1>7, Zenon DEF LegaliseBranch
  <2> QED BY <2>1
<1> QED BY <1>5, <1>6, <1>7

(* Nothing is planned, lowered or decoded at the start.                    *)
LEMMA InitInv == Init => IInv
BY DEF Init, IInv

(* Nothing changes the code once the simulator has it.                     *)
LEMMA RunKeeps ==
  ASSUME IInv, Run
  PROVE  IInv'
<1>1. stage = "run" /\ stage' \in {"run", "end"} /\ UNCHANGED <<kernel, out, code>>
  BY DEF Run, Execute, Branch, BranchX, Halt, Running, compiling
<1>2. its' = its
  BY <1>1 DEF its
<1>3. Patched(its, out)' = Patched(its, out)
  BY <1>1, <1>2 DEF Patched
<1>4. DecodedAsMeant' <=> DecodedAsMeant
  BY <1>1, <1>3 DEF DecodedAsMeant
<1>5. (Len(out.code) < W)' <=> Len(out.code) < W
  BY <1>1
<1> QED BY <1>1, <1>4, <1>5 DEF IInv

(* What is assembled is decoded as it was meant.                           *)
LEMMA AssembleKeeps ==
  ASSUME IInv, Assemble
  PROVE  IInv'
<1> DEFINE patched == Patched(its, out)
           decoded == [n \in DOMAIN patched |-> Decode(Encode(patched[n]))]
<1>1. /\ stage = "lower" /\ at > Len(its) /\ ~ out.failed
      /\ UNCHANGED <<kernel, plan, at, out>>
  BY DEF Assemble
<1>2. \/ /\ \A n \in DOMAIN patched : Encodable(patched[n])
         /\ code' = decoded /\ stage' = "run"
      \/ stage' = "refused"
  BY DEF Assemble
<1>3. its' = its /\ kernel' \in Kernels
  BY <1>1 DEF its, IInv
<1>4. CASE stage' = "refused"
  BY <1>3, <1>4 DEF IInv
<1>5. CASE /\ \A n \in DOMAIN patched : Encodable(patched[n])
           /\ code' = decoded /\ stage' = "run"
  <2>1. Patched(its, out)' = patched /\ (Len(out.code) < W)' = (Len(out.code) < W)
    BY <1>1, <1>3
  <2>2. Len(out.code) < W => code' = [n \in DOMAIN patched |-> Meant(patched[n])]
    <3> SUFFICES ASSUME Len(out.code) < W
                 PROVE  decoded = [n \in DOMAIN patched |-> Meant(patched[n])]
      BY <1>5
    <3>1. at - 1 = Len(its) /\ Lowered(out, its, at - 1) /\ ~ Malformed(its)
      BY <1>1, KernelFacts DEF IInv
    <3>2. its \in Seq(KernelItem) /\ Lowered(out, its, Len(its))
      BY <3>1, KernelFacts DEF IInv
    <3>3. \A n \in DOMAIN patched : patched[n] \in Fitting
      BY <3>1, <3>2, PatchedFits
    <3>4. \A n \in DOMAIN patched : Decode(Encode(patched[n])) = Meant(patched[n])
      BY <1>5, <3>3, RoundTrip
    <3> HIDE DEF patched
    <3> QED BY <3>4
  <2> HIDE DEF patched
  <2>3. Len(out'.code) < W => DecodedAsMeant'
    BY <2>1, <2>2 DEF DecodedAsMeant
  <2> QED BY <1>3, <1>5, <2>3 DEF IInv
<1> QED BY <1>2, <1>4, <1>5

(* Every step of the compiler, and of the simulator, keeps the invariant.  *)
LEMMA StepInv == IInv /\ [Next]_vars => IInv'
<1> SUFFICES ASSUME IInv, [Next]_vars PROVE IInv'
  OBVIOUS
<1>1. kernel' = kernel /\ its' = its /\ kernel' \in Kernels
  <2>1. kernel' = kernel
    BY DEF Next, vars, StepSource, Analyse, Legalise, StartLowering, Lower, CompileError,
           Assemble, Run, Execute, Branch, BranchX, Halt
  <2> QED BY <2>1 DEF IInv, its
<1>2. CASE StepSource
  <2>1. stage = "source" /\ stage' = stage /\ out' = out
    BY <1>2 DEF StepSource, compiling
  <2> QED BY <1>1, <2>1 DEF IInv
<1>3. CASE Analyse
  <2>1. /\ stage = "source" /\ out' = out
        /\ stage' = IF Malformed(its) THEN "refused" ELSE "plan"
        /\ plan' = IF Malformed(its) THEN plan ELSE StartPlan(its)
    BY <1>3 DEF Analyse
  <2>2. GuardsFit(StartPlan(its))
    <3>1. "guards" \in DOMAIN StartPlan(its) /\ StartPlan(its).guards = <<>>
      BY DEF StartPlan
    <3> QED BY <3>1 DEF GuardsFit
  <2> QED BY <1>1, <2>1, <2>2 DEF IInv
<1>4. CASE Legalise
  <2>1. /\ stage = "plan" /\ stage' = stage /\ out' = out
        /\ ToLegalise # {} /\ at' = CHOOSE b \in ToLegalise : \A c \in ToLegalise : b <= c
        /\ plan' = LegaliseBranch(at', its, plan)
    BY <1>4 DEF Legalise
  <2>2. at' \in ConditionalBranches(its)
    <3>1. ToLegalise \subseteq Nat
      BY KernelFacts DEF IInv, ToLegalise, ConditionalBranches
    <3>2. \E b \in ToLegalise : \A c \in ToLegalise : b <= c
      BY <2>1, <3>1, LeastNumber
    <3>3. at' \in ToLegalise
      BY <2>1, <3>2
    <3> QED BY <3>3 DEF ToLegalise
  <2>3. GuardsFit(plan')
    BY <2>1, <2>2, LegaliseFits DEF IInv
  <2> QED BY <1>1, <2>1, <2>3 DEF IInv
<1>5. CASE StartLowering
  <2>1. /\ stage = "plan" /\ stage' = "lower" /\ at' = 1 /\ out' = out /\ plan' = plan
        /\ out = StartOutput
    BY <1>5 DEF StartLowering, IInv
  <2>2. Lowered(StartOutput, its, 0)
    <3>1. Mapped(StartOutput)
      BY DEF Mapped, StartOutput, OutputFields
    <3>2. /\ StartOutput.code \in Seq(Fitting) /\ StartOutput.branches = {}
          /\ DOMAIN StartOutput.labels = {}
      BY DEF StartOutput
    <3> QED BY <3>1, <3>2 DEF Lowered
  <2>3. 1 \in 1..(Len(its) + 1) /\ 1 - 1 = 0
    BY KernelFacts DEF IInv
  <2> QED BY <1>1, <2>1, <2>2, <2>3 DEF IInv
<1>6. CASE Lower
  <2>1. /\ stage = "lower" /\ at <= Len(its) /\ ~ out.failed /\ stage' = stage
        /\ out' = LowerItem(at, its, Offsets, plan, out) /\ at' = at + 1 /\ plan' = plan
    BY <1>6 DEF Lower
  <2>2. at \in 1..Len(its) /\ Lowered(out, its, at - 1) /\ GuardsFit(plan)
    BY <2>1, KernelFacts DEF IInv
  <2>3. out'.failed \/ Lowered(out', its, at)
    BY <2>1, <2>2, KernelFacts, LowerItemFacts DEF IInv
  <2>4. at' \in 1..(Len(its) + 1) /\ at' - 1 = at
    BY <2>1, <2>2, KernelFacts DEF IInv
  <2> QED BY <1>1, <2>1, <2>3, <2>4 DEF IInv
<1>7. CASE CompileError
  <2>1. stage' = "refused"
    BY <1>7 DEF CompileError
  <2> QED BY <1>1, <2>1 DEF IInv
<1>8. CASE Assemble
  BY <1>8, AssembleKeeps
<1>9. CASE Run
  BY <1>9, RunKeeps
<1>10. CASE UNCHANGED vars
  <2>1. UNCHANGED <<kernel, stage, plan, at, out, code>>
    BY <1>10 DEF vars, compiling
  <2>2. DecodedAsMeant' <=> DecodedAsMeant
    BY <1>1, <2>1 DEF DecodedAsMeant, Patched
  <2> QED BY <1>1, <2>1, <2>2 DEF IInv
<1> QED BY <1>2, <1>3, <1>4, <1>5, <1>6, <1>7, <1>8, <1>9, <1>10 DEF Next

(* A kernel that is compiled is, in every state, at the point that the     *)
(* invariant describes.                                                    *)
THEOREM Invariant == Spec => []IInv
BY InitInv, StepInv, PTL DEF Spec

(* What the simulator decodes is what was lowered, instruction by          *)
(* instruction, whatever registers, guards and constants the kernel has,   *)
(* as long as the addresses of the program fit in a word                   *)
(* (write_binary, instructions_to_bytes and decode_bytes).                 *)
THEOREM DecodedIsMeant == Spec => [](Len(out.code) < W => DecodesToWhatWasMeant)
<1>1. IInv => (Len(out.code) < W => DecodesToWhatWasMeant)
  BY DEF IInv, DecodedAsMeant, DecodesToWhatWasMeant
<1> QED BY <1>1, Invariant, PTL

=============================================================================
