-------------------------- MODULE SequentialMachine --------------------------
(***************************************************************************)
(* What the pipeline promises: a machine that executes one instruction at  *)
(* a time, in program order, each on the registers and the memory the one  *)
(* before it left.  It has no clock, no buffers, no speculation, and the   *)
(* instruction it cannot execute (a fault) simply has no step.             *)
(***************************************************************************)
EXTENDS SystemCall

VARIABLES code, mem, pc, gpr, status

archVars == <<code, mem, pc, gpr, status>>

Inst == IF code[pc].opcode \in FpOpcodes THEN Nop ELSE code[pc]
Rs1  == gpr[OrZero(Inst.rs1)]
Rs2  == gpr[OrZero(Inst.rs2)]
Imm  == OrZero(Inst.imm)

(* x0 is never written. *)
SetRd(value) == [r \in Regs |-> IF r = OrZero(Inst.rd) /\ r # 0 THEN value ELSE gpr[r]]

MemAddr == IF Inst.opcode = "Amo" THEN Rs1 ELSE WrapAdd(Rs1, Imm)
Size    == AccessSize(Inst.function)

-----------------------------------------------------------------------------

LeftOperand ==
  CASE Inst.opcode \in {"AuiPc", "Jal", "Jalr"} -> pc
    [] Inst.opcode = "Lui"                      -> 0
    [] OTHER                                    -> Rs1

RightOperand ==
  CASE Inst.opcode \in {"Jal", "Jalr"} -> WordSize
    [] Inst.rs2 # NULL                 -> Rs2
    [] OTHER                           -> Imm

ReadsMemory  == Inst.opcode = "Load" \/ (Inst.opcode = "Amo" /\ Inst.function # "Scw")
Computes     == Inst.opcode \notin {"Load", "Store", "Amo"}

(* The instruction at pc cannot be executed. *)
Faulting ==
  \/ pc \notin DOMAIN code
  \/ ReadsMemory /\ ~Readable(MemAddr, Size)
  \/ IsStoring(Inst) /\ ~WriteFits(MemAddr, Size)
  \/ /\ ReadsMemory /\ IsStoring(Inst)
     /\ AmoPanics(Inst.function, LoadValue(mem, Inst.function, MemAddr), Rs2)
  \/ Computes /\ AluPanics(Inst.function, LeftOperand, RightOperand)

(* Or may fail: a system call can depend on the host.                      *)
MayFault == Faulting \/ (Inst.function = "Ecall" /\ SyscallFails(gpr))

-----------------------------------------------------------------------------

(* An instruction that is neither a branch, a jalr nor a system call.      *)
Computation ==
  /\ Computes /\ Inst.opcode \notin {"Branch", "Jalr"} /\ Inst.function # "Ecall"
  /\ gpr' = SetRd(Alu(Inst.function, LeftOperand, RightOperand))
  /\ pc' = IF Inst.opcode = "Jal" THEN WrapAdd(pc, Imm) ELSE NextPc(pc)
  /\ UNCHANGED <<mem, status>>

Branching ==
  /\ Inst.opcode = "Branch"
  /\ pc' = IF Alu(Inst.function, Rs1, Rs2) = 1 THEN WrapAdd(pc, Imm) ELSE NextPc(pc)
  /\ UNCHANGED <<mem, gpr, status>>

JumpAndLink ==
  /\ Inst.opcode = "Jalr"
  /\ gpr' = SetRd(NextPc(pc))
  /\ pc' = MemAddr
  /\ UNCHANGED <<mem, status>>

Loading ==
  /\ Inst.opcode = "Load"
  /\ gpr' = SetRd(LoadValue(mem, Inst.function, MemAddr))
  /\ pc' = NextPc(pc)
  /\ UNCHANGED <<mem, status>>

Storing ==
  /\ Inst.opcode = "Store"
  /\ mem' = Written(mem, MemAddr, Size, Rs2)
  /\ pc' = NextPc(pc)
  /\ UNCHANGED <<gpr, status>>

(* An atomic leaves the old word in rd; sc always succeeds and leaves 0.   *)
Atomic ==
  /\ Inst.opcode = "Amo"
  /\ LET old == IF Inst.function = "Scw" THEN 0
                ELSE LoadValue(mem, Inst.function, MemAddr)
         new == IF Inst.function = "Scw" THEN Rs2
                ELSE AmoValue(Inst.function, old, Rs2)
     IN  /\ gpr' = SetRd(old)
         /\ mem' = IF IsStoring(Inst) THEN Written(mem, MemAddr, Size, new) ELSE mem
  /\ pc' = NextPc(pc)
  /\ UNCHANGED status

SystemCalling ==
  /\ Inst.function = "Ecall"
  /\ \E ret \in Word : /\ SyscallReturns(gpr, mem, ret, mem')
                       /\ gpr' = [gpr EXCEPT ![SyscallRetReg] = ret]
  /\ status' = IF AsksToExit(gpr) THEN "finished" ELSE status
  /\ pc' = NextPc(pc)

Step ==
  /\ status = "running"
  /\ ~Faulting
  /\ code' = code
  /\ \/ Computation \/ Branching \/ JumpAndLink \/ Loading \/ Storing \/ Atomic
     \/ SystemCalling

(* Initially the loader's memory and registers. *)
StartsAt(programs, image, entry, sp) ==
  /\ code \in programs
  /\ mem = image
  /\ pc = entry
  /\ gpr = [r \in Regs |-> IF r = 2 THEN sp ELSE 0]
  /\ status = "running"

Steps == [][Step]_archVars
=============================================================================
