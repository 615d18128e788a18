SPECIFICATION FairSpec
CONSTANTS
  WordMod = 16
  ByteMod = 16
  WordBits = 4
  OverflowChecks = TRUE
  WordSize = 1
  HalfSize = 1
  NumRegs = 5
  MemCycle = 3
  MulCycle = 2
  DivCycle = 3
  Nodes = {1, 2, 3, 4, 5, 6, 7, 8, 9, 10, 11, 12, 13, 14, 15, 16, 17, 18, 19, 20, 21, 22, 23, 24, 25, 26, 27, 28}
  NULL = NULL
  Alu <- AluOp
  AluPanics <- AluPanicsOp
  AmoValue <- AmoValueOp
  AmoPanics <- AmoPanicsOp
  DataEnd = 10
  ReadOnlyStart = 0
  ReadOnlyEnd = 8
  StackStart = 12
  SyscallNumReg = 3
  SyscallRetReg = 4
  SyscallArg1Reg = 4
  SyscallArg2Reg = 1
  SyscallArg3Reg = 2
  SyscallArg4Reg = 2
  SyscallKind <- OnlyExit
  HostIds <- NoHost
  HostData <- NoHost
  HostRecordSize = 1
  Programs <- LoopPrograms
  InitialMemory <- ZeroMemory
  EntryPoint = 0
  StackPointer = 13
  AllocChoice <- FirstFree
INVARIANTS
  TypeOK
  DataInv
PROPERTIES
  ImplementsSequentialMachine
  EveryInstructionLeaves
  Terminates
