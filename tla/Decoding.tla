------------------------------ MODULE Decoding -------------------------------
(***************************************************************************)
(* The decoder against the instruction formats of the RISC-V manual: an    *)
(* assembler places the fields of an instruction in a word, the simulator  *)
(* decodes the word, and the instruction must be the same.  Words that no  *)
(* assembler writes are decoded too.                                       *)
(***************************************************************************)
EXTENDS InstructionDecoder

CONSTANTS
  Sources,     \* instructions to assemble
  Words,       \* words to decode as they are
  Undecoded    \* inst before the word is decoded

VARIABLES
  source,   \* the instruction assembled, or NULL for a raw word
  word,     \* the word in memory
  inst      \* what the simulator made of it

vars == <<source, word, inst>>

-----------------------------------------------------------------------------
(* The encodings of the manual                                             *)

Major(opcode) ==
  CASE opcode = "Lui" -> 55   [] opcode = "AuiPc" -> 23   [] opcode = "Jal" -> 111
    [] opcode = "Jalr" -> 103 [] opcode = "Branch" -> 99  [] opcode = "Load" -> 3
    [] opcode = "Store" -> 35 [] opcode = "OpImm" -> 19   [] opcode = "Op" -> 51
    [] opcode = "MiscMem" -> 15 [] opcode = "System" -> 115 [] opcode = "Amo" -> 47

FunctThree(function) ==
  CASE function \in {"Jalr", "Beq", "Lb", "Sb", "Addi", "Add", "Sub", "Mul", "Fence",
                     "Ecall", "Ebreak"}                              -> 0
    [] function \in {"Bne", "Lh", "Sh", "Slli", "Sll", "Mulh", "Fencei"} -> 1
    [] function \in {"Lw", "Sw", "Slti", "Slt", "Mulhsu"} \cup FunctionsOf("Amo") -> 2
    [] function \in {"Sltiu", "Sltu", "Mulhu"}                       -> 3
    [] function \in {"Blt", "Lbu", "Xori", "Xor", "Div"}             -> 4
    [] function \in {"Bge", "Lhu", "Srli", "Srai", "Srl", "Sra", "Divu"} -> 5
    [] function \in {"Bltu", "Ori", "Or", "Rem"}                     -> 6
    [] function \in {"Bgeu", "Andi", "And", "Remu"}                  -> 7

(* The bits above rs2, where a function has them. *)
FunctSeven(function) ==
  CASE function \in {"Sub", "Sra", "Srai"}                   -> 32
    [] function \in MulFunctions \cup DivFunctions           -> 1
    [] function = "Amoswapw" -> 4  [] function = "Lrw"       -> 8
    [] function = "Scw"      -> 12 [] function = "Amoxorw"   -> 16
    [] function = "Amoorw"   -> 32 [] function = "Amoandw"   -> 48
    [] function = "Amominw"  -> 64 [] function = "Amomaxw"   -> 80
    [] function = "Amominuw" -> 96 [] function = "Amomaxuw"  -> 112
    [] OTHER                                                 -> 0

ImmShift(function) == function \in {"Slli", "Srli", "Srai"}

(* The bits of an immediate that the word has: the highest is the sign.    *)
LowBit(format)  == CASE format \in {"I", "S"} -> 0 [] format \in {"B", "J"} -> 1
                     [] format = "U" -> 12
SignBit(format) == CASE format \in {"I", "S"} -> 11 [] format = "B" -> 12
                     [] format = "J" -> 20 [] format = "U" -> 31

(* Where the word has them. *)
Scattered(imm, format) ==
  LET Moved(bits, by) == {k + by : k \in imm \cap bits} IN
  CASE format = "I" -> Moved(0 .. 11, 20)
    [] format = "S" -> Moved(0 .. 4, 7) \cup Moved(5 .. 11, 20)
    [] format = "B" -> Moved(1 .. 4, 7) \cup Moved(5 .. 10, 20) \cup Moved({11}, -4)
                         \cup Moved({12}, 19)
    [] format = "U" -> Moved(12 .. 31, 0)
    [] format = "J" -> Moved(1 .. 10, 20) \cup Moved({11}, 9) \cup Moved(12 .. 19, 0)
                         \cup Moved({20}, 11)

Placed(n, position) == {position + b : b \in BitsOf(n)}
Unless(absent, bits) == IF absent THEN {} ELSE bits

Assembled(i) ==
  LET format == FormatOf(i.opcode)
  IN  Placed(Major(i.opcode), 0)
        \cup Unless(i.rd = NULL,  Placed(i.rd, 7))
        \cup Unless(i.rs1 = NULL, Placed(i.rs1, 15))
        \cup Unless(i.rs2 = NULL, Placed(i.rs2, 20))
        \cup Unless(format \in {"U", "J"}, Placed(FunctThree(i.function), 12))
        \cup Unless(HasImm(format) /\ ~ImmShift(i.function),
                    Placed(FunctSeven(i.function), 25))
        \cup Unless(~HasImm(format), Scattered(i.imm, format))

(* The instructions the manual defines: an immediate is sign-extended, a   *)
(* shift amount has five bits, ecall and ebreak differ in theirs.  The     *)
(* registers of an ecall, zero in the manual, may be any here: the decoder *)
(* keeps them.                                                             *)
Assemblable(i) ==
  LET format == FormatOf(i.opcode)
      sign   == SignBit(format)
  IN
  /\ i \in [opcode : Opcode \ FpOpcodes, function : Function,
            rd : 0 .. 31 \cup {NULL}, rs1 : 0 .. 31 \cup {NULL}, rs2 : 0 .. 31 \cup {NULL},
            imm : (SUBSET Bits) \cup {NULL}]
  /\ Decoded(i)
  /\ HasImm(format) => /\ i.imm \subseteq LowBit(format) .. 31
                       /\ i.imm \cap sign .. 31 \in {{}, sign .. 31}
  /\ ImmShift(i.function) => i.imm \subseteq 0 .. 4
  /\ i.function = "Ecall"  => i.imm = {}
  /\ i.function = "Ebreak" => i.imm = {0}

(* None is no opcode, function, field or immediate: the bits from 20 on are *)
(* the sign of all immediates but those of a lui or auipc.                 *)
ASSUME NoneAssumption ==
  /\ NULL \notin Opcode \cup Function /\ NULL \notin Nat
  /\ \A low \in SUBSET (0 .. 19) : NULL # low /\ NULL # low \cup 20 .. 31
  /\ \A high \in SUBSET (12 .. 31) : NULL # high

ASSUME InstructionAssumption ==
  /\ \A i \in Sources : Assemblable(i)
  /\ Words \subseteq SUBSET Bits

(* The bits the decoder does not look at: aq and rl of an atomic, funct3   *)
(* of a jalr, funct7 of slli, and the immediate of an ecall.               *)
Ignored(i) ==
  CASE i.opcode = "Amo"     -> 25 .. 26
    [] i.opcode = "Jalr"    -> FUNCT3_MASK
    [] i.function = "Slli"  -> FUNCT7_MASK
    [] i.function = "Ecall" -> 20 .. 31
    [] OTHER                -> {}

-----------------------------------------------------------------------------

Init == /\ \/ source \in Sources /\ word = Assembled(source)
           \/ source = NULL /\ word \in Words
        /\ inst = Undecoded

Decode == /\ inst = Undecoded
          /\ inst' = NewInstruction(word)
          /\ UNCHANGED <<source, word>>

Spec == Init /\ [][Decode]_vars

-----------------------------------------------------------------------------

(* What the assembler wrote is what the simulator executes: every field,   *)
(* sign-extended immediates with their scattered bits included, survives   *)
(* Fields::new and Function::new.                                          *)
DecodesWhatWasAssembled ==
  (source # NULL /\ inst # Undecoded) => inst = source

(* The decoder takes no word for an integer instruction that the manual    *)
(* encodes otherwise, but for the bits it does not look at and the two     *)
(* words it turns into no-ops.                                             *)
DecodesNothingElse ==
  \/ inst \in {Undecoded, Undecodable}
  \/ inst.opcode \in FpOpcodes
  \/ word \in Unnecessary
  \/ word \ Ignored(inst) = Assembled(inst) \ Ignored(inst)

(* What the decoder produces is an instruction as the pipeline's set of    *)
(* instructions has them: a function of its opcode, exactly the fields of  *)
(* its format, and those in their range.                                   *)
DecodesToInstructions ==
  inst \notin {Undecoded, Undecodable} =>
    /\ inst.opcode \in Opcode /\ Decoded(inst)
    /\ {inst.rd, inst.rs1, inst.rs2} \subseteq 0 .. 31 \cup {NULL}
    /\ inst.imm \in (SUBSET Bits) \cup {NULL}
=============================================================================
