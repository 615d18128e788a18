--------------------------- MODULE InstructionSet ----------------------------
(***************************************************************************)
(* Decoded instructions: the opcodes, formats and functions of             *)
(* instruction.rs and the fields each format has.  The decoder produces    *)
(* them and the pipeline executes them.                                    *)
(***************************************************************************)

CONSTANT NULL   \* Rust's None, and the Err side of a load's Result

FpOpcodes == {"LoadFp", "StoreFp", "OpFp", "Fmadd", "Fmsub", "Fnmadd", "Fnmsub"}

Opcode == {"Lui", "AuiPc", "Jal", "Jalr", "Branch", "Load", "Store", "Op",
           "OpImm", "MiscMem", "System", "Amo"} \cup FpOpcodes

FormatOf(opcode) ==
  CASE opcode \in {"Lui", "AuiPc"}           -> "U"
    [] opcode = "Jal"                        -> "J"
    [] opcode = "Branch"                     -> "B"
    [] opcode \in {"Store", "StoreFp"}       -> "S"
    [] opcode \in {"Op", "OpFp"}             -> "R"
    [] opcode \in {"Amo", "Fmadd", "Fmsub", "Fnmadd", "Fnmsub"} -> "R4"
    [] opcode \in {"Jalr", "Load", "LoadFp", "OpImm", "MiscMem", "System"} -> "I"

MulFunctions == {"Mul", "Mulh", "Mulhsu", "Mulhu"}
DivFunctions == {"Div", "Divu", "Rem", "Remu"}

(* The functions of an opcode.  Pipeline::issue replaces a floating-point  *)
(* instruction by a no-op, so those need no functions of their own.        *)
FunctionsOf(opcode) ==
  CASE opcode = "Branch"  -> {"Beq", "Bne", "Blt", "Bge", "Bltu", "Bgeu"}
    [] opcode = "Load"    -> {"Lb", "Lh", "Lw", "Lbu", "Lhu"}
    [] opcode = "Store"   -> {"Sb", "Sh", "Sw"}
    [] opcode = "OpImm"   -> {"Addi", "Slti", "Sltiu", "Xori", "Ori", "Andi",
                              "Slli", "Srli", "Srai"}
    [] opcode = "Op"      -> {"Add", "Sub", "Sll", "Slt", "Sltu", "Xor", "Srl",
                              "Sra", "Or", "And"} \cup MulFunctions \cup DivFunctions
    [] opcode = "MiscMem" -> {"Fence", "Fencei"}
    [] opcode = "System"  -> {"Ecall", "Ebreak"}
    [] opcode = "Amo"     -> {"Lrw", "Scw", "Amoswapw", "Amoaddw", "Amoxorw",
                              "Amoandw", "Amoorw", "Amominw", "Amomaxw",
                              "Amominuw", "Amomaxuw"}
    [] opcode \in FpOpcodes \cup {"Lui", "AuiPc", "Jal", "Jalr"} -> {opcode}

(* Which fields a format has: the others are None. *)
HasRd(format)  == format \notin {"S", "B"}
HasRs1(format) == format \notin {"U", "J"}
HasRs2(format) == format \in {"R", "R4", "S", "B"}
HasImm(format) == format \notin {"R", "R4"}

(* An instruction word the decoder accepts, an ecall that names a register *)
(* included (the ISA has none, but the decoder does not look at rd).       *)
Decoded(i) ==
  LET format == FormatOf(i.opcode) IN
  /\ i.function \in FunctionsOf(i.opcode)
  /\ HasRd(format)  <=> i.rd # NULL
  /\ HasRs1(format) <=> i.rs1 # NULL
  /\ HasRs2(format) <=> i.rs2 # NULL
  /\ HasImm(format) <=> i.imm # NULL

Function == UNION {FunctionsOf(opcode) : opcode \in Opcode}
=============================================================================
