SPECIFICATION Spec
CONSTANTS
  WordMod = 64
  ByteMod = 4
  WordBits = 6
  OverflowChecks = TRUE
  WordSize = 3
  HalfSize = 2
  NumRegs = 5
  MemCycle = 3
  MulCycle = 2
  DivCycle = 3
  Nodes = {1, 2, 3, 4, 5, 6, 7, 8, 9, 10}
  NULL = NULL
  Alu <- AluOp
  AluPanics <- AluPanicsOp
  AmoValue <- AmoValueOp
  AmoPanics <- AmoPanicsOp
  DataEnd = 30
  ReadOnlyStart = 3
  ReadOnlyEnd = 24
  StackStart = 54
  SyscallNumReg = 3
  SyscallRetReg = 4
  SyscallArg1Reg = 4
  SyscallArg2Reg = 1
  SyscallArg3Reg = 2
  SyscallArg4Reg = 2
  SyscallKind <- OnlyExit
  HostIds <- NoHost
  HostData <- NoHost
  HostRecordSize = 1
  Programs <- StoreIntoReadOnly
  InitialMemory <- NumberedMemory
  EntryPoint = 3
  StackPointer = 54
  AllocChoice <- FirstFree
PROPERTIES
  ReadOnlyMemoryIsKept
