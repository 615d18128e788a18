----------------------------- MODULE SystemCall ------------------------------
(***************************************************************************)
(* Pipeline::system_call: what an ecall does to the registers and the      *)
(* memory.  The host behind it is nondeterministic: it may refuse a write  *)
(* or an fstat, and it chooses the bytes it fills in.  Call numbers are    *)
(* abstracted to kinds; brk, which changes the ranges of the memory, is    *)
(* ProgramBreak.                                                           *)
(***************************************************************************)
EXTENDS ProcessMemory

CONSTANTS
  SyscallNumReg, SyscallRetReg,                    \* a7 and a0
  SyscallArg1Reg, SyscallArg2Reg,                  \* a0, a1
  SyscallArg3Reg, SyscallArg4Reg,                  \* a2, a3
  SyscallKind,     \* the arm of the match each number selects
  HostIds,         \* what getuid and its like return
  HostData,        \* contents of a stat or utsname record, or of a link
  HostRecordSize   \* its size in bytes

SyscallKinds == {"exit", "id", "write", "fstat", "uname", "readlinkat",
                 "unknown"}

ASSUME SyscallAssumption ==
  /\ {SyscallNumReg, SyscallRetReg, SyscallArg1Reg, SyscallArg2Reg, SyscallArg3Reg,
      SyscallArg4Reg} \subseteq Regs \ {0}
  /\ SyscallNumReg # SyscallRetReg
  /\ SyscallKind \in [Word -> SyscallKinds]
  /\ HostIds \subseteq Word
  /\ HostData \subseteq Word
  /\ HostRecordSize \in 1 .. 4

KindOf(gpr) == SyscallKind[gpr[SyscallNumReg]]

(* The buffer of write, and the record fstat and uname fill in.            *)
WriteBufferReadable(gpr) == Readable(gpr[SyscallArg2Reg], gpr[SyscallArg3Reg])

RecordAddress(gpr) ==
  IF KindOf(gpr) = "fstat" THEN gpr[SyscallArg2Reg] ELSE gpr[SyscallArg1Reg]

FillRecord(mem, gpr, data) ==
  Written(mem, RecordAddress(gpr), HostRecordSize, data)

(* readlinkat reads its path from the first byte on, up to a NUL wherever  *)
(* that is, and fills its buffer without asking whether it is writable.    *)
LinkReadable(gpr) ==
  Readable(gpr[SyscallArg2Reg], 1) /\ Readable(gpr[SyscallArg3Reg], gpr[SyscallArg4Reg])

CopyLink(mem, gpr, length, link) == Written(mem, gpr[SyscallArg3Reg], length, link)

(* system_call returned Ok: the value for a0 and the memory it left.       *)
SyscallReturns(gpr, mem, ret, mem2) ==
  \/ KindOf(gpr) = "exit"  /\ ret = 0 /\ mem2 = mem
  \/ KindOf(gpr) = "id"    /\ ret \in HostIds /\ mem2 = mem
  \/ /\ KindOf(gpr) = "write"
     /\ WriteBufferReadable(gpr)
     /\ ret \in 0 .. gpr[SyscallArg3Reg]
     /\ mem2 = mem
  \/ /\ KindOf(gpr) \in {"fstat", "uname"}
     /\ WriteFits(RecordAddress(gpr), HostRecordSize)
     /\ ret = 0
     /\ \E data \in HostData : mem2 = FillRecord(mem, gpr, data)
  \/ /\ KindOf(gpr) = "readlinkat"
     /\ LinkReadable(gpr)
     /\ ret \in 0 .. gpr[SyscallArg4Reg]
     /\ \E link \in HostData : mem2 = CopyLink(mem, gpr, ret, link)

(* system_call returned Err or panicked: retire's unwrap panics either way. *)
SyscallFails(gpr) ==
  \/ KindOf(gpr) \in {"write", "fstat", "readlinkat", "unknown"}
  \/ KindOf(gpr) = "uname" /\ ~WriteFits(RecordAddress(gpr), HostRecordSize)

(* The program asked to stop (Pipeline::is_program_finished). *)
AsksToExit(gpr) == KindOf(gpr) = "exit"
=============================================================================
