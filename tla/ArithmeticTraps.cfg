SPECIFICATION Spec
CONSTANTS
  WordMod = 16
  ByteMod = 2
  WordBits = 4
  OverflowChecks = TRUE
  WordSize = 4
  HalfSize = 2
  NumRegs = 3
  MemCycle = 1
  MulCycle = 1
  DivCycle = 1
  Nodes = {}
  NULL = NULL
  Alu <- AluOp
  AluPanics <- AluPanicsOp
  AmoValue <- AmoValueOp
  AmoPanics <- AmoPanicsOp
  DataEnd = 0
  ReadOnlyStart = 0
  ReadOnlyEnd = 0
  StackStart = 8
INVARIANTS
  ArithmeticNeverTraps
