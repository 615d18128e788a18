------------------------- MODULE InstructionDecoder --------------------------
(***************************************************************************)
(* Instruction::new: from a 32-bit word to a decoded instruction, or to a  *)
(* panic.  A u32 is the set of its one bits: a mask is a range of bits, &  *)
(* is \cap, | is \cup, and a shift moves every bit.                        *)
(***************************************************************************)
EXTENDS InstructionSet, Integers

Bits == 0 .. 31

(* `<<` and `>>` on u32, and `>>` on i32.                                  *)
Shl(w, n) == {b + n : b \in w} \cap Bits
Shr(w, n) == {b - n : b \in w \cap n .. 31}
Sar(w, n) == Shr(w, n) \cup IF 31 \in w THEN 32 - n .. 31 ELSE {}

(* The number of at most seven bits, as every field has, and the bits of   *)
(* a number.                                                               *)
Number(w) ==
  LET Bit(b, weight) == IF b \in w THEN weight ELSE 0 IN
  Bit(0, 1) + Bit(1, 2) + Bit(2, 4) + Bit(3, 8) + Bit(4, 16) + Bit(5, 32) + Bit(6, 64)
BitsOf(n) == {b \in 0 .. 30 : (n \div 2 ^ b) % 2 = 1}

(* consts.rs: the masks of the fields, and how far each is shifted.        *)
OPCODE_MASK == 0 .. 6
RD_MASK     == 7 .. 11
FUNCT3_MASK == 12 .. 14
RS1_MASK    == 15 .. 19
RS2_MASK    == 20 .. 24
FUNCT7_MASK == 25 .. 31
RS3_MASK    == 27 .. 31

(* `(inst & MASK) >> SHIFT`. *)
Field(inst, mask, shift) == Number(Shr(inst \cap mask, shift))

Rd(inst)     == Field(inst, RD_MASK, 7)
Funct3(inst) == Field(inst, FUNCT3_MASK, 12)
Rs1(inst)    == Field(inst, RS1_MASK, 15)
Rs2(inst)    == Field(inst, RS2_MASK, 20)
Funct7(inst) == Field(inst, FUNCT7_MASK, 25)
Rs3(inst)    == Field(inst, RS3_MASK, 27)

-----------------------------------------------------------------------------

(* The outcome of a match, or of the decoder, when it panics.              *)
Undecodable == NULL

OpcodeOf(inst) ==
  LET code == Field(inst, OPCODE_MASK, 0) IN
  CASE code = \b0110111 -> "Lui"     [] code = \b0010111 -> "AuiPc"
    [] code = \b1101111 -> "Jal"     [] code = \b1100111 -> "Jalr"
    [] code = \b1100011 -> "Branch"  [] code = \b0000011 -> "Load"
    [] code = \b0100011 -> "Store"   [] code = \b0110011 -> "Op"
    [] code = \b0010011 -> "OpImm"   [] code = \b0001111 -> "MiscMem"
    [] code = \b1110011 -> "System"  [] code = \b0101111 -> "Amo"
    [] code = \b0000111 -> "LoadFp"  [] code = \b0100111 -> "StoreFp"
    [] code = \b1000011 -> "Fmadd"   [] code = \b1000111 -> "Fmsub"
    [] code = \b1001011 -> "Fnmsub"  [] code = \b1001111 -> "Fnmadd"
    [] code = \b1010011 -> "OpFp"    [] OTHER -> Undecodable

(* Mutant: the immediate of a jal is sign-extended from bit 11.            *)
NarrowSignShift(opcode) ==
  CASE opcode \in {"Lui", "AuiPc"} -> 0
    [] opcode = "Branch"           -> 19
    [] OTHER                       -> 20

(* How far an immediate is shifted up, and back arithmetically.            *)
SignShift(opcode) ==
  CASE opcode \in {"Lui", "AuiPc"} -> 0
    [] opcode = "Jal"              -> 11
    [] opcode = "Branch"           -> 19
    [] OTHER                       -> 20

(* The bits of the immediate, gathered from where the format has them.     *)
RawImm(inst, format, opcode) ==
  CASE format = "I" -> IF opcode = "OpImm" /\ Funct3(inst) \in {1, 5}
                         THEN Shr(inst \cap RS2_MASK, 20)
                         ELSE Shr(inst \cap 20 .. 31, 20)
    [] format = "S" -> Shr(inst \cap 25 .. 31, 20) \cup Shr(inst \cap 7 .. 11, 7)
    [] format = "B" -> Shr(inst \cap {31}, 19) \cup Shl(inst \cap {7}, 4)
                         \cup Shr(inst \cap 25 .. 30, 20) \cup Shr(inst \cap 8 .. 11, 7)
    [] format = "U" -> inst \cap 12 .. 31
    [] format = "J" -> Shr(inst \cap {31}, 11) \cup (inst \cap 12 .. 19)
                         \cup Shr(inst \cap {20}, 9) \cup Shr(inst \cap 21 .. 30, 20)
    [] OTHER        -> {}

Imm(inst, format, opcode) ==
  LET n == SignShift(opcode) IN Sar(Shl(RawImm(inst, format, opcode), n), n)

(* Mutant: stores and branches have a destination.                         *)
FieldsWithRd(inst, format, opcode) ==
  [ rd  |-> Rd(inst),
    rs1 |-> IF HasRs1(format) THEN Rs1(inst) ELSE NULL,
    rs2 |-> IF HasRs2(format) THEN Rs2(inst) ELSE NULL,
    imm |-> IF HasImm(format) THEN Imm(inst, format, opcode) ELSE NULL ]

(* Fields::new.  Only the fields of the format are Some.                   *)
Fields(inst, format, opcode) ==
  LET Some(present, field) == IF present THEN field ELSE NULL IN
  [ rd  |-> Some(HasRd(format),  Rd(inst)),
    rs1 |-> Some(HasRs1(format), Rs1(inst)),
    rs2 |-> Some(HasRs2(format), Rs2(inst)),
    imm |-> Some(HasImm(format), Imm(inst, format, opcode)) ]

-----------------------------------------------------------------------------
(* Function::new, an opcode at a time                                      *)

BranchFunction(funct3) ==
  CASE funct3 = 0 -> "Beq" [] funct3 = 1 -> "Bne"  [] funct3 = 4 -> "Blt"
    [] funct3 = 5 -> "Bge" [] funct3 = 6 -> "Bltu" [] funct3 = 7 -> "Bgeu"
    [] OTHER -> Undecodable

LoadFunction(funct3) ==
  CASE funct3 = 0 -> "Lb"  [] funct3 = 1 -> "Lh" [] funct3 = 2 -> "Lw"
    [] funct3 = 4 -> "Lbu" [] funct3 = 5 -> "Lhu" [] OTHER -> Undecodable

StoreFunction(funct3) ==
  CASE funct3 = 0 -> "Sb" [] funct3 = 1 -> "Sh" [] funct3 = 2 -> "Sw"
    [] OTHER -> Undecodable

FenceFunction(funct3) ==
  CASE funct3 = 0 -> "Fence" [] funct3 = 1 -> "Fencei" [] OTHER -> Undecodable

(* Mutant: funct7 of srli is not checked. *)
AnyShiftRight(funct7) == IF funct7 = 32 THEN "Srai" ELSE "Srli"

ShiftRightFunction(funct7) ==
  CASE funct7 = 0 -> "Srli" [] funct7 = 32 -> "Srai" [] OTHER -> Undecodable

(* Only the shifts right look at funct7. *)
OpImmFunction(funct3, funct7) ==
  CASE funct3 = 0 -> "Addi" [] funct3 = 1 -> "Slli"  [] funct3 = 2 -> "Slti"
    [] funct3 = 3 -> "Sltiu" [] funct3 = 4 -> "Xori" [] funct3 = 6 -> "Ori"
    [] funct3 = 7 -> "Andi" [] OTHER -> ShiftRightFunction(funct7)

OpFunction(funct3, funct7) ==
  CASE funct7 = 0 ->
         CASE funct3 = 0 -> "Add" [] funct3 = 1 -> "Sll" [] funct3 = 2 -> "Slt"
           [] funct3 = 3 -> "Sltu" [] funct3 = 4 -> "Xor" [] funct3 = 5 -> "Srl"
           [] funct3 = 6 -> "Or" [] OTHER -> "And"
    [] funct7 = 1 ->
         CASE funct3 = 0 -> "Mul" [] funct3 = 1 -> "Mulh" [] funct3 = 2 -> "Mulhsu"
           [] funct3 = 3 -> "Mulhu" [] funct3 = 4 -> "Div" [] funct3 = 5 -> "Divu"
           [] funct3 = 6 -> "Rem" [] OTHER -> "Remu"
    [] funct7 = 32 ->
         CASE funct3 = 0 -> "Sub" [] funct3 = 5 -> "Sra" [] OTHER -> Undecodable
    [] OTHER -> Undecodable

SystemFunction(funct3, imm) ==
  CASE funct3 # 0 -> Undecodable
    [] funct3 = 0 -> IF imm = {0} THEN "Ebreak" ELSE "Ecall"

(* By the five high bits, which Fields calls rs3. *)
AmoFunction(funct3, rs3) ==
  IF funct3 # 2 THEN Undecodable
  ELSE CASE rs3 = \b00010 -> "Lrw"      [] rs3 = \b00011 -> "Scw"
         [] rs3 = \b00001 -> "Amoswapw" [] rs3 = \b00000 -> "Amoaddw"
         [] rs3 = \b00100 -> "Amoxorw"  [] rs3 = \b01100 -> "Amoandw"
         [] rs3 = \b01000 -> "Amoorw"   [] rs3 = \b10000 -> "Amominw"
         [] rs3 = \b10100 -> "Amomaxw"  [] rs3 = \b11000 -> "Amominuw"
         [] rs3 = \b11100 -> "Amomaxuw" [] OTHER -> Undecodable

(* Which OpFp words have a function: fadd, fsub, fmul, fdiv and the         *)
(* conversions whatever their funct3, the others with theirs.              *)
OpFpDecodes(funct3, funct7, rs2) ==
  \/ funct7 \in {\b0000000, \b0000100, \b0001000, \b0001100, \b1100000, \b1101000}
  \/ funct7 = \b0101100 /\ rs2 = 0
  \/ funct7 = \b0010000 /\ funct3 \in 0 .. 2
  \/ funct7 = \b0010100 /\ funct3 \in 0 .. 1
  \/ funct7 = \b1010000 /\ funct3 \in 0 .. 2
  \/ funct7 = \b1110000 /\ funct3 \in 0 .. 1 /\ rs2 = 0
  \/ funct7 = \b1111000 /\ funct3 = 0 /\ rs2 = 0

FunctionOf(inst, opcode, imm) ==
  LET funct3 == Funct3(inst)
      funct7 == Funct7(inst)
  IN
  CASE opcode = "Branch"  -> BranchFunction(funct3)
    [] opcode = "Load"    -> LoadFunction(funct3)
    [] opcode = "Store"   -> StoreFunction(funct3)
    [] opcode = "MiscMem" -> FenceFunction(funct3)
    [] opcode = "OpImm"   -> OpImmFunction(funct3, funct7)
    [] opcode = "Op"      -> OpFunction(funct3, funct7)
    [] opcode = "System"  -> SystemFunction(funct3, imm)
    [] opcode = "Amo"     -> AmoFunction(funct3, Rs3(inst))
    [] opcode = "OpFp"    -> IF OpFpDecodes(funct3, funct7, Rs2(inst)) THEN "OpFp"
                             ELSE Undecodable
    [] OTHER              -> opcode

-----------------------------------------------------------------------------

NOP == BitsOf(\h13)

(* Moves between x-registers and fcsr, which startup code executes.        *)
Unnecessary == {BitsOf(\h003027f3), BitsOf(\h00351073)}

(* Instruction::new; the opcode is looked up before anything else.         *)
NewInstruction(value) ==
  LET inst     == IF value \in Unnecessary THEN NOP ELSE value
      opcode   == OpcodeOf(inst)
      fields   == Fields(inst, FormatOf(opcode), opcode)
      function == FunctionOf(inst, opcode, fields.imm)
  IN
  IF opcode = Undecodable THEN Undecodable
  ELSE IF function = Undecodable THEN Undecodable
  ELSE [opcode |-> opcode, function |-> function, rd |-> fields.rd,
        rs1 |-> fields.rs1, rs2 |-> fields.rs2, imm |-> fields.imm]
=============================================================================
