-------------------------------- MODULE AecIsa --------------------------------
(***************************************************************************)
(* isa.py: instructions, their encoding in four words under the profile    *)
(* C1_DEFAULT, and the decoding of the words.  The control half of word 3  *)
(* is a set of bit numbers; the other words are the numbers in them.       *)
(***************************************************************************)
EXTENDS Ptx, FiniteSets

Opcodes == [ADD |-> 1, MUL |-> 3, FMA |-> 5, AND |-> 16, CMPP |-> 33, LD |-> 48,
            ST |-> 49, BR |-> 64, BRX |-> 65, HALT |-> 69, CPY |-> 84,
            LOADI |-> 85, LOADI64 |-> 86]
Types == [b32 |-> 0, b64 |-> 1, u32 |-> 2, s32 |-> 3, f32 |-> 8, none |-> 15]
Spaces == [gmem |-> 0, smem |-> 1, cmem |-> 2, lmem |-> 3, pmem |-> 4]
Compares == [eq |-> 0, ne |-> 1, lt |-> 2, le |-> 3, gt |-> 4, ge |-> 5]
Specials == [tid |-> 256, ctaid |-> 258]

NoPredicate == -1
Aec(op, ty) == [op |-> op, ty |-> ty, dest |-> 0, src1 |-> 0, src2 |-> 0, src3 |-> 0,
                imm |-> 0, pred |-> NoPredicate, neg |-> FALSE, cmp |-> "none", space |-> "none"]

(* Immediates have no type, whatever the instruction says.                 *)
EncodedType(i) == IF i.op \in {"LOADI", "LOADI64", "BR", "BRX"} THEN "none"
                  ELSE IF i.op = "SHL" /\ i.ty = "b32" THEN "u32" ELSE i.ty
UsesImmediate(op) == op \in {"LOADI", "LOADI64", "BR", "BRX"}

(* A number as width bits from the bit shift on, and back.                 *)
Bits(n, width, shift) ==
    {b + shift : b \in {c \in 0..(width - 1) : (n \div 2^c) % 2 = 1}}
Field(bits, width, shift) ==
    LET Below[c \in 0..width] ==
            IF c = 0 THEN 0
            ELSE Below[c - 1] + (IF shift + c - 1 \in bits THEN 2^(c - 1) ELSE 0)
    IN  Below[width]

TypeShift == 3
FamilyShift == 8
SpaceShift == 11
NegateBit == 14
EnableBit == 15

(* What does not make encode_instruction raise EncodeError.                *)
Encodable(i) == /\ i.op \in DOMAIN Opcodes /\ EncodedType(i) \in DOMAIN Types
                /\ i.op = "BRX" \/ i.neg => i.pred # NoPredicate
                /\ i.cmp # "none" => i.cmp \in DOMAIN Compares
                /\ i.cmp = "none" /\ i.space # "none" => i.space \in DOMAIN Spaces

SpaceBitsInTwo(i) == Bits(Spaces[i.space], 2, SpaceShift)  \* a mutant
SpaceBits(i) == Bits(Spaces[i.space], 3, SpaceShift)
Control(i) ==
    Bits(Types[EncodedType(i)], 4, TypeShift)
      \cup (IF i.pred = NoPredicate THEN {}
            ELSE {EnableBit} \cup Bits(i.pred, 3, 0) \cup (IF i.neg THEN {NegateBit} ELSE {}))
      \cup (IF i.cmp # "none" THEN Bits(Compares[i.cmp], 3, FamilyShift)
            ELSE IF i.space # "none" THEN SpaceBits(i) ELSE {})

Encode(i) ==
    [opcode |-> Opcodes[i.op], control |-> Control(i),
     dest |-> i.dest % 2^16, src1 |-> i.src1 % 2^16,
     word1 |-> IF i.op = "LOADI64" THEN (i.imm \div W) % W
               ELSE i.src2 % W,
     word0 |-> IF UsesImmediate(i.op) THEN i.imm % W ELSE i.src3 % W]

-----------------------------------------------------------------------------
(* What does not make decode_words_to_instruction raise EncodeError.       *)
Named(table, n) == {name \in DOMAIN table : table[name] = n}
The(names) == CHOOSE name \in names : TRUE
Decodable(w) ==
    LET op == The(Named(Opcodes, w.opcode))
    IN  /\ Named(Opcodes, w.opcode) # {}
        /\ Named(Types, Field(w.control, 4, TypeShift)) # {}
        /\ op = "CMPP" => Named(Compares, Field(w.control, 3, FamilyShift)) # {}
        /\ op \in {"LD", "ST"} => Named(Spaces, Field(w.control, 3, SpaceShift)) # {}

Decode(w) ==
    LET op == The(Named(Opcodes, w.opcode))
        guarded == op = "BRX" \/ EnableBit \in w.control
    IN  [op |-> op,
         ty |-> The(Named(Types, Field(w.control, 4, TypeShift))),
         dest |-> w.dest, src1 |-> w.src1,
         src2 |-> IF op = "LOADI64" THEN 0 ELSE w.word1,
         src3 |-> IF UsesImmediate(op) THEN 0 ELSE w.word0,
         imm |-> CASE op = "LOADI64" -> w.word1 * W + w.word0
                   [] UsesImmediate(op) /\ op # "LOADI64" -> w.word0
                   [] OTHER -> 0,
         pred |-> IF guarded THEN Field(w.control, 3, 0) ELSE NoPredicate,
         neg |-> guarded /\ NegateBit \in w.control,
         cmp |-> IF op = "CMPP" THEN The(Named(Compares, Field(w.control, 3, FamilyShift)))
                 ELSE "none",
         space |-> IF op \in {"LD", "ST"}
                   THEN The(Named(Spaces, Field(w.control, 3, SpaceShift))) ELSE "none"]

(* The instruction that is meant: numbers that fit, and the encoded type.  *)
Meant(i) == [i EXCEPT !.ty = EncodedType(i), !.imm = @ % (W * W)]

=============================================================================
