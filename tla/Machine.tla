------------------------------- MODULE Machine -------------------------------
(***************************************************************************)
(* The parameters of the simulated machine and the vocabulary every other  *)
(* module shares: words, operands and decoded instructions.  The simulator *)
(* fixes the parameters (32-bit words, 4-byte instructions, 32 registers,  *)
(* 10-cycle loads); the specifications keep them as constants, so that TLC *)
(* can use a small machine and the proofs cover every machine.             *)
(***************************************************************************)
EXTENDS InstructionSet, Integers, Sequences, FiniteSets

CONSTANTS
  WordMod,        \* number of values of a u32
  ByteMod,        \* number of values of a u8
  WordSize,       \* consts::WORD_SIZE, bytes in a word and in an instruction
  HalfSize,       \* consts::HALFWORD_SIZE
  NumRegs,        \* length of RegisterFile::gpr
  MemCycle,       \* consts::MEM_CYCLE
  MulCycle,       \* clocks of a multiplication
  DivCycle,       \* clocks of a division
  Nodes           \* heap addresses a reorder buffer node can have

CONSTANTS
  Alu(_, _, _),        \* alu::alu: function, two words -> word
  AluPanics(_, _, _),  \* whether alu::alu panics on them
  AmoValue(_, _, _),   \* what an atomic stores: function, old word, rs2
  AmoPanics(_, _, _)   \* whether computing it panics

-----------------------------------------------------------------------------

(* Words and their arithmetic. *)
Word == 0 .. (WordMod - 1)
Byte == 0 .. (ByteMod - 1)
Regs == 0 .. (NumRegs - 1)

WrapAdd(a, b) == (a + b) % WordMod

(* The pc after pc: wrapping_add of the size of an instruction. *)
NextPc(pc) == WrapAdd(pc, WordSize)

(* `bool as u32`. *)
AsWord(b) == IF b THEN 1 ELSE 0

-----------------------------------------------------------------------------

(* Operand: a value, the node of the instruction that will produce it, or  *)
(* nothing yet.                                                            *)
Value(v)  == [tag |-> "Value", val |-> v]
Rob(node) == [tag |-> "Rob", idx |-> node]
NoOperand == [tag |-> "None"]

Operand == [tag : {"Value"}, val : Word] \cup [tag : {"Rob"}, idx : Nodes]
             \cup [tag : {"None"}]

IsValue(op) == op.tag = "Value"
WaitsFor(op, node) == op.tag = "Rob" /\ op.idx = node

-----------------------------------------------------------------------------

(* An instruction of the pipeline: its fields are registers and a word. *)
Instruction ==
  {i \in [opcode : Opcode, function : Function, rd : Regs \cup {NULL},
          rs1 : Regs \cup {NULL}, rs2 : Regs \cup {NULL}, imm : Word \cup {NULL}] :
     Decoded(i)}

(* Instruction::default(): addi x0, x0, 0. *)
Nop == [opcode |-> "OpImm", function |-> "Addi", rd |-> 0, rs1 |-> 0,
        rs2 |-> NULL, imm |-> 0]

(* Option::unwrap_or(0). *)
OrZero(field) == IF field = NULL THEN 0 ELSE field

IsStoring(inst) == inst.opcode \in {"Store", "Amo"} /\ inst.function # "Lrw"

-----------------------------------------------------------------------------

ASSUME SizeAssumption ==
  /\ WordMod \in Nat /\ WordMod > 1
  /\ ByteMod \in Nat /\ ByteMod > 1
  /\ WordSize \in 1 .. 4
  /\ WordSize < WordMod
  /\ HalfSize \in 1 .. WordSize
  /\ NumRegs \in Nat /\ NumRegs > 2

ASSUME CycleAssumption ==
  /\ MemCycle \in Nat \ {0}
  /\ MulCycle \in Nat \ {0}
  /\ DivCycle \in Nat \ {0}

(* None is no value and no address. *)
ASSUME NullAssumption == NULL \notin Int /\ NULL \notin Nodes

ASSUME AluAssumption ==
  \A f \in Function, a, b \in Word : Alu(f, a, b) \in Word

ASSUME AmoAssumption ==
  \A f \in FunctionsOf("Amo"), a, b \in Word : AmoValue(f, a, b) \in Word

(* The units add for a jalr and leave 0 for an sc.                         *)
ASSUME UnitAssumption ==
  /\ \A p \in Word : Alu("Jalr", p, WordSize) = NextPc(p)
  /\ Alu("Scw", 0, 0) = 0 /\ ~AluPanics("Scw", 0, 0)
=============================================================================
