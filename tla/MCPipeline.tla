----------------------------- MODULE MCPipeline ------------------------------
(***************************************************************************)
(* Values of the constants for TLC: instructions, and the sets of programs *)
(* each run executes.  With WordSize = 1 the instructions of a program are *)
(* at 0, 1, 2...                                                           *)
(***************************************************************************)
EXTENDS DataFlow, ArithmeticLogicUnit

I(opcode, function, rd, rs1, rs2, imm) ==
  [opcode |-> opcode, function |-> function, rd |-> rd, rs1 |-> rs1, rs2 |-> rs2,
   imm |-> imm]

OpImm(f, rd, rs1, imm)    == I("OpImm", f, rd, rs1, NULL, imm)
Op(f, rd, rs1, rs2)       == I("Op", f, rd, rs1, rs2, NULL)
LoadI(f, rd, imm, rs1)    == I("Load", f, rd, rs1, NULL, imm)
StoreI(f, rs2, imm, rs1)  == I("Store", f, NULL, rs1, rs2, imm)
BranchI(f, rs1, rs2, imm) == I("Branch", f, NULL, rs1, rs2, imm)
Jal(rd, imm)              == I("Jal", "Jal", rd, NULL, NULL, imm)
Jalr(rd, rs1, imm)        == I("Jalr", "Jalr", rd, rs1, NULL, imm)
Lui(rd, imm)              == I("Lui", "Lui", rd, NULL, NULL, imm)
AuiPc(rd, imm)            == I("AuiPc", "AuiPc", rd, NULL, NULL, imm)
AmoI(f, rd, rs2, rs1)     == I("Amo", f, rd, rs1, rs2, NULL)
Ecall                     == I("System", "Ecall", 0, 0, NULL, 0)
Ebreak                    == I("System", "Ebreak", 0, 0, NULL, 1)
Fence                     == I("MiscMem", "Fence", 0, 0, NULL, 0)
FpAdd                     == I("OpFp", "OpFp", 1, 1, 1, NULL)

Program(insts) == [p \in 0 .. (Len(insts) - 1) |-> insts[p + 1]]

(* Programs of instructions of WordSize bytes, from the first read-only    *)
(* byte on.                                                                *)
WordProgram(insts) ==
  [p \in {ReadOnlyStart + WordSize * k : k \in 0 .. (Len(insts) - 1)} |->
     insts[(p - ReadOnlyStart) \div WordSize + 1]]

(* Every program of n instructions of an alphabet between a prologue and   *)
(* two exits.                                                              *)
AllPrograms(prologue, alphabet, n) ==
  {Program(prologue \o body \o <<Ecall, Ecall>>) : body \in [1 .. n -> alphabet]}

(* Allocation: the lowest free address, or any.                            *)
FirstFree(free) == IF free = {} THEN {} ELSE {CHOOSE n \in free : \A m \in free : n <= m}
AnyFree(free)   == free

(* Cleared memory, and a memory of different bytes.                        *)
ZeroMemory     == [a \in Mapped |-> 0]
NumberedMemory == [a \in Mapped |-> a % ByteMod]

OnlyExit   == [n \in Word |-> "exit"]
NoHost     == {0}

(* x0, x1, sp = x2, and x3 and x4.  A load at the head keeps the body in   *)
(* flight.                                                                 *)
CoreAlphabet ==
  { OpImm("Addi", 1, 1, 1),
    Op("Mul", 4, 1, 1),
    LoadI("Lw", 1, 0, 2),
    StoreI("Sw", 1, 0, 2),
    StoreI("Sw", 4, 1, 2),
    BranchI("Bne", 1, 0, 2),
    BranchI("Beq", 4, 1, 2),
    Jal(4, 2),
    Jalr(1, 4, 1) }

CorePrograms ==
  AllPrograms(<<LoadI("Lw", 3, 0, 2), OpImm("Addi", 4, 0, 4)>>, CoreAlphabet, 3)

(* Words of three bytes: x4 holds an unmapped address, sp a stack address, *)
(* the word at 0 is writable, and the one at 3 begins the read-only range. *)
AtomicAlphabet ==
  { OpImm("Addi", 1, 1, 3),
    Op("Divu", 1, 4, 1),
    LoadI("Lw", 1, 0, 2),
    LoadI("Lw", 1, 0, 4),
    StoreI("Sw", 1, 0, 2),
    StoreI("Sw", 1, 3, 0),
    BranchI("Bne", 1, 0, 6),
    AmoI("Amoaddw", 1, 1, 2),
    AmoI("Amoswapw", 1, 4, 2),
    AmoI("Amomaxw", 1, 1, 4),
    AmoI("Amoorw", 1, 2, 0),
    AmoI("Lrw", 1, 0, 2),
    AmoI("Scw", 1, 1, 2) }

AtomicPrograms ==
  {WordProgram(<<OpImm("Addi", 4, 0, 40)>> \o body \o <<Ecall, Ecall>>) :
     body \in [1 .. 3 -> AtomicAlphabet]}

(* Bytes, half words and words at sp and behind it.  Two accesses touch    *)
(* the same bytes only if they start at the same one.                      *)
WidthAlphabet ==
  { StoreI("Sb", 4, 0, 2),
    StoreI("Sh", 4, 0, 2),
    LoadI("Lb", 1, 0, 2),
    LoadI("Lhu", 1, 0, 2),
    LoadI("Lw", 1, 0, 2),
    StoreI("Sw", 1, 3, 2),
    LoadI("Lh", 4, 3, 2),
    BranchI("Bne", 1, 0, 6),
    AmoI("Amoaddw", 1, 4, 2) }

WidthPrograms ==
  {WordProgram(<<LoadI("Lw", 3, 6, 2), OpImm("Addi", 4, 0, 62)>> \o body
                 \o <<Ecall, Ecall>>) :
     body \in [1 .. 3 -> WidthAlphabet]}

MemoryPrograms == AtomicPrograms \cup WidthPrograms

(* a7 = x3, a0 = x4, a1 = x1, a2 = x5. *)
SyscallsByNumber ==
  [n \in Word |-> CASE n = 0 -> "exit" [] n = 1 -> "id" [] n = 2 -> "write"
                    [] n = 3 -> "fstat" [] n = 4 -> "uname" [] n = 5 -> "readlinkat"
                    [] OTHER -> "unknown"]

TwoIds  == {5, 9}
TwoData == {1, 2}

SyscallAlphabet ==
  { OpImm("Addi", 3, 3, 1),
    OpImm("Ori", 3, 0, 2),
    OpImm("Addi", 4, 4, 8),
    OpImm("Addi", 1, 1, 2),
    StoreI("Sw", 4, 0, 2),
    LoadI("Lw", 4, 0, 1),
    BranchI("Beq", 4, 0, 2),
    Ecall }

(* a3 = x6.  A link is read into data or stack, and the buffer is used.    *)
ReadlinkAlphabet ==
  { OpImm("Addi", 6, 6, 1),
    StoreI("Sw", 6, 0, 5),
    LoadI("Lw", 5, 0, 5),
    LoadI("Lw", 4, 1, 5),
    Ecall }

ReadlinkPrograms ==
  {Program(<<OpImm("Addi", 3, 0, 5), OpImm("Addi", 5, 0, buffer)>>
            \o body \o <<Ecall, OpImm("Andi", 3, 0, 0), Ecall>>) :
     buffer \in {8, 12}, body \in [1 .. 3 -> ReadlinkAlphabet]}

(* Memory 6 and 7 is read-only, and behind the text. *)
ReadlinkIntoReadOnly ==
  { Program(<<OpImm("Addi", 3, 0, 5), OpImm("Addi", 5, 0, 6), OpImm("Addi", 6, 0, 1),
              Ecall, Ecall>>) }

(* Faults on and off the path: a load from nowhere behind a branch that    *)
(* waits for a load.                                                       *)
SpeculativeAlphabet ==
  { LoadI("Lw", 1, 0, 2),
    LoadI("Lw", 4, 0, 6),
    BranchI("Beq", 1, 0, 2),
    BranchI("Bne", 1, 0, 6),
    OpImm("Addi", 6, 6, 1),
    Jal(0, 2) }

SpeculativePrograms == AllPrograms(<<OpImm("Addi", 6, 0, 10)>>, SpeculativeAlphabet, 4)

SyscallPrograms == ReadlinkPrograms \cup SpeculativePrograms \cup
  {Program(<<OpImm("Addi", 1, 0, 8), OpImm("Addi", 5, 0, 2)>>
            \o body \o <<Ecall, OpImm("Andi", 3, 0, 0), Ecall>>) :
     body \in [1 .. 3 -> SyscallAlphabet]}

(* Every two instructions of an alphabet with a load from nowhere, in a    *)
(* loop of three iterations; and a countdown, a countdown through memory,  *)
(* two nested loops, and a subroutine called in a loop.                    *)
LoopAlphabet ==
  { OpImm("Addi", 4, 4, 1),
    Op("Mul", 4, 4, 1),
    LoadI("Lw", 4, 0, 2),
    LoadI("Lw", 4, 11, 0),
    StoreI("Sw", 4, 0, 2),
    BranchI("Bne", 4, 1, 2),
    AmoI("Amoaddw", 4, 1, 2) }

LoopPrograms ==
  {Program(<<OpImm("Addi", 1, 0, 3)>> \o body
            \o <<Fence, OpImm("Addi", 1, 1, 15), BranchI("Bne", 1, 0, 12), Ecall>>) :
     body \in [1 .. 2 -> LoopAlphabet]}
  \cup
  { Program(<<OpImm("Addi", 1, 0, 4), OpImm("Addi", 1, 1, 15),
              StoreI("Sw", 1, 0, 2), BranchI("Bne", 1, 0, 14), Ecall>>),
    Program(<<OpImm("Addi", 1, 0, 3), StoreI("Sw", 1, 0, 2), LoadI("Lw", 4, 0, 2),
              OpImm("Addi", 1, 4, 15), BranchI("Beq", 1, 0, 2), Jal(0, 12), Ecall>>),
    Program(<<OpImm("Addi", 1, 0, 2), OpImm("Addi", 4, 0, 2), OpImm("Addi", 4, 4, 15),
              BranchI("Bne", 4, 0, 15), OpImm("Addi", 1, 1, 15),
              BranchI("Bne", 1, 0, 12), Ecall>>),
    Program(<<OpImm("Addi", 1, 0, 2), Jal(4, 4), BranchI("Bne", 1, 0, 15), Ecall, Fence,
              OpImm("Addi", 1, 1, 15), FpAdd, Jalr(0, 4, 0)>>) }

(* One program, so that allocation can be left open: three writers of x1,  *)
(* a reader after the first has retired, a misprediction and its refetch.  *)
ReusePrograms ==
  { Program(<<OpImm("Addi", 1, 1, 2), Op("Mul", 1, 1, 1), Jal(0, 1), Jal(0, 1),
              OpImm("Addi", 4, 1, 1), BranchI("Bne", 4, 0, 2), LoadI("Lw", 1, 0, 2),
              StoreI("Sw", 4, 0, 2), Ecall>>) }

(* A store whose address comes from a load and an addition, and a load of  *)
(* the stored word: mem[13] + 15 = 12 = sp + 15.                           *)
SlowStoreAddress ==
  { Program(<<OpImm("Addi", 4, 0, 5), Fence,
              LoadI("Lw", 1, 0, 2), OpImm("Addi", 1, 1, 15),
              StoreI("Sw", 4, 0, 1), LoadI("Lw", 3, 15, 2), Ecall>>) }

(* A word stored from two bytes below the read-only range on.              *)
StoreIntoReadOnly == { WordProgram(<<StoreI("Sw", 0, ReadOnlyStart - 2, 0), Ecall>>) }

(* An ecall, which asks for an id, whose word names x1; and the exit.      *)
EcallWithRd ==
  { Program(<<OpImm("Addi", 3, 0, 1), [Ecall EXCEPT !.rd = 1], OpImm("Andi", 3, 0, 0),
              Ecall>>) }

(* A load of the last byte of memory and two more, which a branch on a     *)
(* loaded word skips.                                                      *)
SkippedOverrun ==
  { WordProgram(<<LoadI("Lw", 1, 0, 2), BranchI("Beq", 1, 0, 6), LoadI("Lw", 4, 9, 2),
                  Ecall>>) }

(* A byte stored within the word that is loaded next, behind a slow load.  *)
ByteIntoWord ==
  { WordProgram(<<LoadI("Lw", 3, 2, 2), StoreI("Sb", 2, 1, 2), LoadI("Lw", 1, 0, 2),
                  Ecall>>) }

(* Back to address 0 once, and then the exit.                              *)
JumpToZero ==
  { Program(<<BranchI("Bne", 1, 0, 3), OpImm("Addi", 1, 0, 1), Jalr(4, 0, 0), Ecall>>) }

(* A division by zero that a branch on a loaded word skips.                *)
GuardedDivision ==
  { Program(<<LoadI("Lw", 1, 0, 2), BranchI("Beq", 1, 0, 2), Op("Div", 4, 4, 3),
              Ecall>>) }
=============================================================================
