--------------------------- MODULE RefinementProofs ---------------------------
(***************************************************************************)
(* Proof that the pipeline implements the sequential machine.  By DataInv  *)
(* the oldest instruction in flight holds what the sequential machine      *)
(* computes for it, so the step that retires it, or stores for it, is the  *)
(* sequential machine's; all others leave the architectural state alone.   *)
(***************************************************************************)
EXTENDS DataFlowProofs

(* What an instruction computes with, on the registers g. *)
LeftOf(e, g)  == IF ReadsLeft(e.inst) THEN g[OrZero(e.inst.rs1)] ELSE FixedLeft(e)
RightOf(e, g) == IF ReadsRight(e.inst) THEN g[e.inst.rs2] ELSE FixedRight(e)

AddressOf(e, g) ==
  IF e.inst.opcode = "Amo" THEN g[OrZero(e.inst.rs1)]
  ELSE WrapAdd(g[OrZero(e.inst.rs1)], OrZero(e.inst.imm))

-----------------------------------------------------------------------------
(* The oldest instruction in flight                                        *)

LEMMA OldestSees == ASSUME NEW P, NEW g, NEW r, NEW v, Sees(P, g, 1, r, v) PROVE v = g[r]
<1>1. \A j \in 1 .. 1 - 1 : FALSE
  OBVIOUS
<1> QED BY <1>1 DEF Sees

LEMMA OldestIsRight ==
  ASSUME NEW P, NEW g, NEW st, NEW ad, NEW load, NEW m, DataAt(P, g, st, ad, load, m, 1)
  PROVE  LET e == P[1].e
             f == e.inst.function
         IN  /\ (UsesStation(e.inst) /\ e.reg_value # NULL) =>
                  /\ e.reg_value = Alu(f, LeftOf(e, g), RightOf(e, g))
                  /\ ~AluPanics(f, LeftOf(e, g), RightOf(e, g))
             /\ IsValue(e.addr) => e.addr.val = AddressOf(e, g)
             /\ (/\ e.inst.opcode = "Store" \/ (e.inst.opcode = "Amo" /\ f = "Scw")
                 /\ IsValue(e.mem_value)) => e.mem_value.val = g[OrZero(e.inst.rs2)]
<1> DEFINE e == P[1].e
           f == e.inst.function
<1>1. ASSUME UsesStation(e.inst), e.reg_value # NULL
      PROVE  /\ e.reg_value = Alu(f, LeftOf(e, g), RightOf(e, g))
             /\ ~AluPanics(f, LeftOf(e, g), RightOf(e, g))
  <2>1. PICK a, b \in Word : /\ LeftIs(P, g, 1, a) /\ RightIs(P, g, 1, b)
                             /\ e.reg_value = Alu(f, a, b) /\ ~AluPanics(f, a, b)
    BY <1>1 DEF DataAt, ResultIsComputed, Computed
  <2>2. a = LeftOf(e, g) /\ b = RightOf(e, g)
    BY <2>1, OldestSees DEF LeftIs, RightIs, LeftOf, RightOf
  <2> QED BY <2>1, <2>2
<1>2. ASSUME IsValue(e.addr) PROVE e.addr.val = AddressOf(e, g)
  <2>1. Aims(P, g, 1, e.addr.val)
    BY <1>2 DEF DataAt, AddressIsAimed, Aimed
  <2> QED BY <2>1, OldestSees DEF Aims, AddressOf
<1>3. ASSUME e.inst.opcode = "Store" \/ (e.inst.opcode = "Amo" /\ f = "Scw"),
             IsValue(e.mem_value)
      PROVE  e.mem_value.val = g[OrZero(e.inst.rs2)]
  <2>1. e.inst.opcode = "Amo" => ~IsLoaded(P[1], load)
    BY <1>3 DEF IsLoaded, UsesLoadBuffer
  <2>2. Carries(P, g, 1, OrZero(e.inst.rs2), e.mem_value)
    BY <1>3, <2>1 DEF DataAt, StoreIsRight
  <2> QED BY <1>3, <2>2, OldestSees DEF Carries
<1> QED BY <1>1, <1>2, <1>3

LEMMA OldestHasRead ==
  ASSUME NEW P, NEW g, NEW st, NEW ad, NEW load, NEW m, DataAt(P, g, st, ad, load, m, 1),
         UsesLoadBuffer(P[1].e.inst), P[1].e.reg_value # NULL,
         P[1].node \notin DOMAIN load, ~HasStored(P[1].e)
  PROVE  LET e == P[1].e
             f == e.inst.function
             b == g[OrZero(e.inst.rs2)]
         IN  /\ IsValue(e.addr)
             /\ e.mem_exception = "Err" => ~InAddressSpace(e.addr.val)
             /\ e.mem_exception # "Err" =>
                  /\ Readable(e.addr.val, AccessSize(f))
                  /\ e.reg_value = LoadValue(m, f, e.addr.val)
                  /\ (e.inst.opcode = "Amo" /\ f # "Lrw") =>
                       /\ e.mem_value = Value(AmoValue(f, e.reg_value, b))
                       /\ ~AmoPanics(f, e.reg_value, b)
<1> DEFINE e == P[1].e
           f == e.inst.function
           b == g[OrZero(e.inst.rs2)]
<1>1. IsLoaded(P[1], load)
  BY DEF IsLoaded
<1>2. LoadedAs(P[1], load) = IF e.mem_exception = "Err" THEN NULL ELSE e.reg_value
  BY DEF LoadedAs
<1>3. ReadFrom(e, LoadedAs(P[1], load), m)
  BY <1>1 DEF DataAt, LoadIsCurrent, StoredAt
<1>4. ASSUME e.mem_exception # "Err", e.inst.opcode = "Amo", f # "Lrw"
      PROVE  e.mem_value = Value(AmoValue(f, e.reg_value, b)) /\ ~AmoPanics(f, e.reg_value, b)
  <2>1. Combined(P, g, 1, e.reg_value, e.mem_value)
    BY <1>1, <1>2, <1>4 DEF DataAt, StoreIsRight
  <2> QED BY <2>1, OldestSees DEF Combined
<1> QED BY <1>2, <1>3, <1>4 DEF ReadFrom

-----------------------------------------------------------------------------
(* The sequential machine in the pipeline's terms                          *)

(* The two machines share their vocabulary. *)
LEMMA SameVocabulary ==
  /\ Arch!FpOpcodes = FpOpcodes /\ Arch!Nop = Nop /\ Arch!Regs = Regs
  /\ \A x : Arch!OrZero(x) = OrZero(x) /\ Arch!NextPc(x) = NextPc(x)
            /\ Arch!AccessSize(x) = AccessSize(x) /\ (Arch!IsStoring(x) <=> IsStoring(x))
  /\ \A x, y : /\ Arch!WrapAdd(x, y) = WrapAdd(x, y)
               /\ Arch!Readable(x, y) <=> Readable(x, y)
               /\ Arch!WriteFits(x, y) <=> WriteFits(x, y)
  /\ \A x, y, z : Arch!LoadValue(x, y, z) = LoadValue(x, y, z)
  /\ \A x, y, z, v : Arch!Written(x, y, z, v) = Written(x, y, z, v)
<1>1. Arch!FpOpcodes = FpOpcodes
  BY DEF Arch!FpOpcodes, FpOpcodes
<1>2. Arch!Nop = Nop
  BY DEF Arch!Nop, Nop
<1>3. Arch!Regs = Regs
  BY DEF Arch!Regs, Regs
<1>4. \A x, y : Arch!WrapAdd(x, y) = WrapAdd(x, y)
  BY DEF Arch!WrapAdd, WrapAdd
<1>5. \A x : Arch!OrZero(x) = OrZero(x) /\ Arch!NextPc(x) = NextPc(x)
  BY <1>4 DEF Arch!OrZero, OrZero, Arch!NextPc, NextPc
<1>6. \A x : Arch!AccessSize(x) = AccessSize(x) /\ (Arch!IsStoring(x) <=> IsStoring(x))
  BY DEF Arch!AccessSize, AccessSize, Arch!IsStoring, IsStoring
<1>7. \A x, y : /\ Arch!Readable(x, y) <=> Readable(x, y)
                /\ Arch!WriteFits(x, y) <=> WriteFits(x, y)
  BY DEF Arch!Readable, Readable, Arch!WriteFits, WriteFits, Arch!InAddressSpace, InAddressSpace,
         Arch!SliceFits, SliceFits, Arch!IsWritable, IsWritable
<1>8. \A n : Arch!Weight(n) = Weight(n)
  BY DEF Arch!Weight, Weight
<1>9. \A x, y, z : Arch!LittleEndian(x, y, z) = LittleEndian(x, y, z)
  BY <1>8 DEF Arch!LittleEndian, LittleEndian
<1>10. \A x, y : Arch!SignExtend(x, y) = SignExtend(x, y)
  BY <1>8 DEF Arch!SignExtend, SignExtend
<1>11. \A x, y, z : Arch!LoadValue(x, y, z) = LoadValue(x, y, z)
  BY <1>6, <1>9, <1>10 DEF Arch!LoadValue, LoadValue
<1>12. \A x, n : Arch!ByteOf(x, n) = ByteOf(x, n)
  BY <1>8 DEF Arch!ByteOf, ByteOf
<1>13. \A x, y : Arch!Footprint(x, y) = Footprint(x, y)
  BY DEF Arch!Footprint, Footprint
<1>14. Arch!Mapped = Mapped
  BY DEF Arch!Mapped, Mapped
<1>15. \A x, y, z, v : Arch!Written(x, y, z, v) = Written(x, y, z, v)
  BY <1>12, <1>13, <1>14 DEF Arch!Written, Written
<1> QED BY <1>1, <1>2, <1>3, <1>4, <1>5, <1>6, <1>7, <1>11, <1>15

LEMMA SameSystemCalls ==
  /\ \A g : Arch!AsksToExit(g) <=> AsksToExit(g)
  /\ \A g, m, ret, m2 : Arch!SyscallReturns(g, m, ret, m2) <=> SyscallReturns(g, m, ret, m2)
<1>1. \A g : Arch!KindOf(g) = KindOf(g)
  BY DEF Arch!KindOf, KindOf
<1>2. \A g : Arch!RecordAddress(g) = RecordAddress(g)
  BY <1>1 DEF Arch!RecordAddress, RecordAddress
<1>3. \A g : /\ Arch!WriteBufferReadable(g) <=> WriteBufferReadable(g)
             /\ Arch!LinkReadable(g) <=> LinkReadable(g)
  BY SameVocabulary DEF Arch!WriteBufferReadable, WriteBufferReadable, Arch!LinkReadable,
                        LinkReadable
<1>4. \A m, g, d, l : /\ Arch!FillRecord(m, g, d) = FillRecord(m, g, d)
                      /\ Arch!CopyLink(m, g, l, d) = CopyLink(m, g, l, d)
  BY <1>2, SameVocabulary DEF Arch!FillRecord, FillRecord, Arch!CopyLink, CopyLink
<1>5. \A g : Arch!AsksToExit(g) <=> AsksToExit(g)
  BY <1>1 DEF Arch!AsksToExit, AsksToExit
<1>6. \A g, m, ret, m2 : Arch!SyscallReturns(g, m, ret, m2) <=> SyscallReturns(g, m, ret, m2)
  BY <1>1, <1>2, <1>3, <1>4, SameVocabulary DEF Arch!SyscallReturns, SyscallReturns
<1> QED BY <1>5, <1>6

(* The sequential machine is at the instruction of the entry e. *)
AtEntry(e) ==
  /\ ArchPc = e.pc /\ ArchGpr = gpr /\ ArchStatus = "running"
  /\ e.pc \in DOMAIN code /\ e.inst = FetchedAt(e.pc) /\ e.rd = OrZero(e.inst.rd)
  /\ e.inst \in Instruction
  /\ gpr \in [Regs -> Word]

LEMMA ArchReads ==
  ASSUME NEW e, AtEntry(e)
  PROVE  /\ Arch!Inst = e.inst
         /\ Arch!Rs1 = gpr[OrZero(e.inst.rs1)] /\ Arch!Rs2 = gpr[OrZero(e.inst.rs2)]
         /\ Arch!Imm = OrZero(e.inst.imm)
         /\ Arch!MemAddr = AddressOf(e, gpr)
         /\ Arch!Size = AccessSize(e.inst.function)
         /\ \A v : Arch!SetRd(v) = WriteReg(gpr, e.rd, v)
         /\ Arch!ReadsMemory <=> UsesLoadBuffer(e.inst)
         /\ Arch!Computes <=> e.inst.opcode \notin {"Load", "Store", "Amo"}
<1>1. Arch!Inst = e.inst
  BY SameVocabulary DEF AtEntry, Arch!Inst, FetchedAt
<1>2. /\ Arch!Rs1 = gpr[OrZero(e.inst.rs1)] /\ Arch!Rs2 = gpr[OrZero(e.inst.rs2)]
      /\ Arch!Imm = OrZero(e.inst.imm)
  BY <1>1, SameVocabulary DEF AtEntry, Arch!Rs1, Arch!Rs2, Arch!Imm
<1>3. Arch!MemAddr = AddressOf(e, gpr)
  BY <1>1, <1>2, SameVocabulary DEF Arch!MemAddr, AddressOf
<1>4. Arch!Size = AccessSize(e.inst.function)
  BY <1>1, SameVocabulary DEF Arch!Size
<1>5. ASSUME NEW v PROVE Arch!SetRd(v) = WriteReg(gpr, e.rd, v)
  <2>1. Arch!SetRd(v) = [r \in Regs |-> IF r = e.rd /\ r # 0 THEN v ELSE gpr[r]]
    BY <1>1, SameVocabulary DEF AtEntry, Arch!SetRd
  <2> QED BY <2>1 DEF AtEntry, WriteReg
<1>6. Arch!ReadsMemory <=> UsesLoadBuffer(e.inst)
  BY <1>1 DEF Arch!ReadsMemory, UsesLoadBuffer
<1>7. Arch!Computes <=> e.inst.opcode \notin {"Load", "Store", "Amo"}
  BY <1>1 DEF Arch!Computes
<1> QED BY <1>1, <1>2, <1>3, <1>4, <1>5, <1>6, <1>7

LEMMA SecondRegister ==
  ASSUME NEW inst \in Instruction
  PROVE  /\ inst.opcode \in {"Jal", "Jalr"} => inst.rs2 = NULL
         /\ inst.opcode = "Branch" => inst.rs2 # NULL
<1>1. Decoded(inst)
  BY DEF Instruction
<1>2. FormatOf("Jalr") = "I" /\ FormatOf("Jal") = "J" /\ FormatOf("Branch") = "B"
  BY DEF FormatOf, FpOpcodes
<1>3. ~HasRs2("I") /\ ~HasRs2("J") /\ HasRs2("B")
  BY DEF HasRs2
<1> QED BY <1>1, <1>2, <1>3 DEF Decoded

(* What the sequential machine's unit is given. *)
LEMMA ArchOperands ==
  ASSUME NEW e, AtEntry(e), e.inst.opcode \notin {"Load", "Store", "Amo"}
  PROVE  Arch!LeftOperand = LeftOf(e, gpr) /\ Arch!RightOperand = RightOf(e, gpr)
<1>1. Arch!Inst = e.inst /\ ArchPc = e.pc
  BY ArchReads DEF AtEntry
<1>2. e.inst.rs2 # NULL => OrZero(e.inst.rs2) = e.inst.rs2
  BY DEF OrZero
<1>3. Arch!LeftOperand = LeftOf(e, gpr)
  BY <1>1, ArchReads DEF Arch!LeftOperand, LeftOf, ReadsLeft, FixedLeft
<1>4. Arch!RightOperand = RightOf(e, gpr)
  <2>1. CASE e.inst.opcode \in {"Jal", "Jalr"}
    <3>1. e.inst.rs2 = NULL
      BY <2>1, SecondRegister DEF AtEntry
    <3> QED BY <1>1, <2>1, <3>1 DEF Arch!RightOperand, RightOf, ReadsRight, FixedRight
  <2>2. CASE e.inst.opcode \notin {"Jal", "Jalr"} /\ e.inst.rs2 # NULL
    BY <1>1, <1>2, <2>2, ArchReads DEF Arch!RightOperand, RightOf, ReadsRight
  <2>3. CASE e.inst.opcode \notin {"Jal", "Jalr"} /\ e.inst.rs2 = NULL
    BY <1>1, <2>3, ArchReads DEF Arch!RightOperand, RightOf, ReadsRight, FixedRight
  <2> QED BY <2>1, <2>2, <2>3
<1> QED BY <1>3, <1>4

-----------------------------------------------------------------------------
(* Its steps                                                               *)

(* The architectural state after the instruction of e. *)
Leaves(e, g2) ==
  /\ code' = code /\ ArchStatus' = "running"
  /\ ArchGpr' = g2 /\ ArchPc' = Successor(e)

Writing(e, g2) == Leaves(e, g2) /\ g2 = WriteReg(gpr, e.rd, e.reg_value)

UnitIsRight(e) ==
  /\ e.reg_value = Alu(e.inst.function, LeftOf(e, gpr), RightOf(e, gpr))
  /\ ~AluPanics(e.inst.function, LeftOf(e, gpr), RightOf(e, gpr))

LEMMA NoMemoryFault ==
  ASSUME NEW e, AtEntry(e), e.inst.opcode \notin {"Load", "Store", "Amo"}, UnitIsRight(e)
  PROVE  ~Arch!Faulting
<1>1. Arch!Inst = e.inst /\ ArchPc \in DOMAIN code
  BY ArchReads DEF AtEntry
<1>2. ~Arch!ReadsMemory /\ ~Arch!IsStoring(Arch!Inst)
  BY <1>1, ArchReads, SameVocabulary DEF UsesLoadBuffer, IsStoring
<1>3. ~AluPanics(Arch!Inst.function, Arch!LeftOperand, Arch!RightOperand)
  BY <1>1, ArchOperands DEF UnitIsRight
<1> QED BY <1>1, <1>2, <1>3 DEF Arch!Faulting

LEMMA ArchComputes ==
  ASSUME NEW e, AtEntry(e), NEW g2, Writing(e, g2), UnitIsRight(e), mem' = mem,
         e.inst.opcode \notin {"Load", "Store", "Amo", "Branch", "Jalr"}, ~IsEcall(e)
  PROVE  Arch!Step
<1>1. Arch!Inst = e.inst /\ ArchPc = e.pc /\ ArchStatus = "running"
  BY ArchReads DEF AtEntry
<1>2. ArchGpr' = Arch!SetRd(Alu(Arch!Inst.function, Arch!LeftOperand, Arch!RightOperand))
  BY <1>1, ArchReads, ArchOperands DEF UnitIsRight, Writing, Leaves
<1>3. ArchPc' = IF Arch!Inst.opcode = "Jal" THEN Arch!WrapAdd(ArchPc, Arch!Imm)
                ELSE Arch!NextPc(ArchPc)
  <2>1. CASE e.inst.opcode = "Jal"
    <3>1. OrZero(e.inst.imm) = e.inst.imm
      BY <2>1, InstructionFields, WordFacts, NullAssumption DEF AtEntry, OrZero
    <3>2. Successor(e) = WrapAdd(e.pc, e.inst.imm)
      BY <2>1 DEF Successor, FetchNext
    <3> QED BY <1>1, <2>1, <3>1, <3>2, ArchReads, SameVocabulary DEF Writing, Leaves
  <2>2. CASE e.inst.opcode # "Jal"
    <3>1. Successor(e) = NextPc(e.pc)
      BY <2>2 DEF Successor, FetchNext
    <3> QED BY <1>1, <2>2, <3>1, SameVocabulary DEF Writing, Leaves
  <2> QED BY <2>1, <2>2
<1>4. Arch!Computes /\ Arch!Inst.opcode \notin {"Branch", "Jalr"} /\ Arch!Inst.function # "Ecall"
  BY <1>1, ArchReads DEF IsEcall
<1>5. Arch!Computation
  BY <1>1, <1>2, <1>3, <1>4 DEF Arch!Computation, Writing, Leaves
<1> QED BY <1>1, <1>5, NoMemoryFault DEF Arch!Step, Writing, Leaves

LEMMA ArchJumps ==
  ASSUME NEW e, AtEntry(e), NEW g2, Writing(e, g2), UnitIsRight(e), mem' = mem,
         e.inst.opcode = "Jalr", IsValue(e.addr), e.addr.val = AddressOf(e, gpr), e.pc \in Word
  PROVE  Arch!Step
<1>1. Arch!Inst = e.inst /\ ArchPc = e.pc /\ ArchStatus = "running"
  BY ArchReads DEF AtEntry
<1>2. e.inst.function = "Jalr"
  BY InstructionFields DEF AtEntry, FunctionsOf, FpOpcodes
<1>3. LeftOf(e, gpr) = e.pc /\ RightOf(e, gpr) = WordSize
  BY DEF LeftOf, RightOf, ReadsLeft, ReadsRight, FixedLeft, FixedRight
<1>4. e.reg_value = NextPc(e.pc)
  BY <1>2, <1>3, UnitAssumption DEF UnitIsRight
<1>5. ArchGpr' = Arch!SetRd(Arch!NextPc(ArchPc))
  BY <1>1, <1>4, ArchReads, SameVocabulary DEF Writing, Leaves
<1>6. ArchPc' = Arch!MemAddr
  BY ArchReads DEF Writing, Leaves, Successor
<1>7. Arch!JumpAndLink
  BY <1>1, <1>5, <1>6 DEF Arch!JumpAndLink, Writing, Leaves
<1> QED BY <1>1, <1>7, NoMemoryFault DEF Arch!Step, Writing, Leaves

LEMMA ArchBranches ==
  ASSUME NEW e, AtEntry(e), UnitIsRight(e), e.inst.opcode = "Branch",
         code' = code, mem' = mem, ArchStatus' = "running", ArchGpr' = gpr,
         ArchPc' = BranchTarget(e)
  PROVE  Arch!Step
<1>1. Arch!Inst = e.inst /\ ArchPc = e.pc /\ ArchStatus = "running" /\ ArchGpr = gpr
  BY ArchReads DEF AtEntry
<1>2. Arch!Rs1 = LeftOf(e, gpr) /\ Arch!Rs2 = RightOf(e, gpr)
  <2>1. e.inst.rs2 # NULL /\ OrZero(e.inst.rs2) = e.inst.rs2
    BY SecondRegister DEF AtEntry, OrZero
  <2> QED BY <2>1, ArchReads DEF LeftOf, RightOf, ReadsLeft, ReadsRight
<1>3. Arch!Imm = e.inst.imm
  BY ArchReads, InstructionFields, WordFacts, NullAssumption DEF AtEntry, OrZero
<1>4. ArchPc' = IF Alu(Arch!Inst.function, Arch!Rs1, Arch!Rs2) = 1
                THEN Arch!WrapAdd(ArchPc, Arch!Imm) ELSE Arch!NextPc(ArchPc)
  BY <1>1, <1>2, <1>3, SameVocabulary DEF UnitIsRight, BranchTarget
<1>5. Arch!Branching
  BY <1>1, <1>4 DEF Arch!Branching
<1> QED BY <1>1, <1>5, NoMemoryFault DEF Arch!Step

LEMMA ArchCallsSystem ==
  ASSUME NEW e, AtEntry(e), UnitIsRight(e), IsEcall(e), e.inst.opcode = "System",
         code' = code, ArchPc' = Successor(e),
         NEW ret \in Word, SyscallReturns(gpr, mem, ret, mem'),
         ArchGpr' = WriteReg(gpr, SyscallRetReg, ret),
         ArchStatus' = IF AsksToExit(gpr) THEN "finished" ELSE "running"
  PROVE  Arch!Step
<1>1. Arch!Inst = e.inst /\ ArchPc = e.pc /\ ArchStatus = "running" /\ ArchGpr = gpr
  BY ArchReads DEF AtEntry
<1>2. WriteReg(gpr, SyscallRetReg, ret) = [gpr EXCEPT ![SyscallRetReg] = ret]
  BY SyscallAssumption DEF WriteReg
<1>3. ret \in Arch!Word
  BY DEF Arch!Word, Word
<1>4. ArchPc' = Arch!NextPc(ArchPc)
  BY <1>1, SameVocabulary DEF Successor, FetchNext
<1>5. Arch!SystemCalling
  BY <1>1, <1>2, <1>3, <1>4, SameSystemCalls DEF Arch!SystemCalling, IsEcall
<1> QED BY <1>1, <1>5, NoMemoryFault DEF Arch!Step

(* The accesses of memory. *)
LEMMA ArchLoads ==
  ASSUME NEW e, AtEntry(e), NEW g2, Writing(e, g2), mem' = mem, e.inst.opcode = "Load",
         NEW a, a = AddressOf(e, gpr), Readable(a, AccessSize(e.inst.function)),
         e.reg_value = LoadValue(mem, e.inst.function, a)
  PROVE  Arch!Step
<1>1. Arch!Inst = e.inst /\ ArchPc = e.pc /\ ArchStatus = "running" /\ ArchPc \in DOMAIN code
  BY ArchReads DEF AtEntry
<1>2. Arch!MemAddr = a /\ Arch!Size = AccessSize(e.inst.function)
  BY ArchReads
<1>3. ~Arch!IsStoring(Arch!Inst) /\ ~Arch!Computes /\ Arch!Readable(Arch!MemAddr, Arch!Size)
  BY <1>1, <1>2, ArchReads, SameVocabulary DEF IsStoring
<1>4. ~Arch!Faulting
  BY <1>1, <1>3 DEF Arch!Faulting
<1>5. ArchGpr' = Arch!SetRd(Arch!LoadValue(mem, Arch!Inst.function, Arch!MemAddr))
  BY <1>1, <1>2, ArchReads, SameVocabulary DEF Writing, Leaves
<1>6. ArchPc' = Arch!NextPc(ArchPc)
  BY <1>1, SameVocabulary DEF Writing, Leaves, Successor, FetchNext
<1>7. Arch!Loading
  BY <1>1, <1>5, <1>6 DEF Arch!Loading, Writing, Leaves
<1> QED BY <1>1, <1>4, <1>7 DEF Arch!Step, Writing, Leaves

LEMMA ArchStores ==
  ASSUME NEW e, AtEntry(e), code' = code, ArchStatus' = "running", ArchGpr' = gpr,
         ArchPc' = NextPc(e.pc), e.inst.opcode = "Store",
         NEW a, a = AddressOf(e, gpr), WriteFits(a, AccessSize(e.inst.function)),
         mem' = Written(mem, a, AccessSize(e.inst.function), gpr[OrZero(e.inst.rs2)])
  PROVE  Arch!Step
<1>1. Arch!Inst = e.inst /\ ArchPc = e.pc /\ ArchStatus = "running" /\ ArchPc \in DOMAIN code
      /\ ArchGpr = gpr
  BY ArchReads DEF AtEntry
<1>2. /\ Arch!MemAddr = a /\ Arch!Size = AccessSize(e.inst.function)
      /\ Arch!Rs2 = gpr[OrZero(e.inst.rs2)]
  BY ArchReads
<1>3. ~Arch!ReadsMemory /\ ~Arch!Computes /\ Arch!WriteFits(Arch!MemAddr, Arch!Size)
  BY <1>1, <1>2, ArchReads, SameVocabulary DEF UsesLoadBuffer
<1>4. ~Arch!Faulting
  BY <1>1, <1>3 DEF Arch!Faulting
<1>5. Arch!Storing
  BY <1>1, <1>2, SameVocabulary DEF Arch!Storing
<1> QED BY <1>1, <1>4, <1>5 DEF Arch!Step

LEMMA ArchAtomics ==
  ASSUME NEW e, AtEntry(e), code' = code, ArchStatus' = "running",
         ArchGpr' = WriteReg(gpr, e.rd, e.reg_value), ArchPc' = NextPc(e.pc),
         e.inst.opcode = "Amo",
         NEW a, a = AddressOf(e, gpr), NEW f, f = e.inst.function, NEW b,
         b = gpr[OrZero(e.inst.rs2)],
         e.reg_value = IF f = "Scw" THEN 0 ELSE LoadValue(mem, f, a),
         f # "Scw" => Readable(a, AccessSize(f)),
         f # "Scw" /\ f # "Lrw" => ~AmoPanics(f, e.reg_value, b),
         f # "Lrw" => WriteFits(a, AccessSize(f)),
         mem' = IF f = "Lrw" THEN mem
                ELSE Written(mem, a, AccessSize(f),
                             IF f = "Scw" THEN b ELSE AmoValue(f, e.reg_value, b))
  PROVE  Arch!Step
<1>1. Arch!Inst = e.inst /\ ArchPc = e.pc /\ ArchStatus = "running" /\ ArchPc \in DOMAIN code
      /\ ArchGpr = gpr
  BY ArchReads DEF AtEntry
<1>2. /\ Arch!MemAddr = a /\ Arch!Size = AccessSize(f) /\ Arch!Rs2 = b
      /\ Arch!Inst.function = f /\ Arch!Inst.opcode = "Amo"
  BY <1>1, ArchReads
<1>3. /\ Arch!ReadsMemory <=> f # "Scw"
      /\ Arch!IsStoring(Arch!Inst) <=> f # "Lrw"
      /\ ~Arch!Computes
  BY <1>1, <1>2, ArchReads, SameVocabulary DEF UsesLoadBuffer, IsStoring
<1>4. /\ f # "Scw" => Arch!Readable(Arch!MemAddr, Arch!Size)
      /\ f # "Lrw" => Arch!WriteFits(Arch!MemAddr, Arch!Size)
      /\ f # "Scw" => Arch!LoadValue(mem, Arch!Inst.function, Arch!MemAddr) = e.reg_value
  BY <1>2, SameVocabulary
<1>5. ~Arch!Faulting
  BY <1>1, <1>2, <1>3, <1>4 DEF Arch!Faulting
<1>6. ArchGpr' = Arch!SetRd(IF f = "Scw" THEN 0 ELSE LoadValue(mem, f, a))
  BY ArchReads
<1>7. Arch!Atomic
  <2>1. ArchPc' = Arch!NextPc(ArchPc) /\ UNCHANGED ArchStatus
    BY <1>1, SameVocabulary
  <2>2. \A v : Arch!Written(mem, Arch!MemAddr, Arch!Size, v) = Written(mem, a, AccessSize(f), v)
    BY <1>2, SameVocabulary
  <2>3. CASE f = "Scw"
    BY <1>2, <1>3, <1>6, <2>1, <2>2, <2>3 DEF Arch!Atomic
  <2>4. CASE f # "Scw"
    BY <1>2, <1>3, <1>4, <1>6, <2>1, <2>2, <2>4 DEF Arch!Atomic
  <2> QED BY <2>3, <2>4
<1> QED BY <1>1, <1>5, <1>7 DEF Arch!Step

-----------------------------------------------------------------------------
(* The architectural state                                                 *)

LEMMA PendingIsEmpty == ASSUME PipelineInv PROVE Pending = <<>> <=> Len(Pending) = 0
<1> DEFINE S == [node : Nodes, e : ReorderBufferEntry]
           front == SubSeq(completed, retired + 1, Len(completed))
           back == [k \in 1 .. Len(buf) |-> [node |-> buf[k], e |-> entry[buf[k]]]]
<1>1. /\ completed \in Seq(S) /\ retired \in Nat /\ Len(completed) \in Nat
      /\ Len(buf) \in Nat
  BY ListFacts DEF PipelineInv, TypeOK
<1>2. \A k \in 1 .. Len(completed) : completed[k] \in S
  BY <1>1, ElementOfSeq
<1>3. \A k \in 1 .. Len(buf) : [node |-> buf[k], e |-> entry[buf[k]]] \in S
  BY ListFacts
<1>4. back \in Seq(S)
  BY <1>1, <1>3
<1> HIDE DEF S
<1>5. front \in Seq(S)
  <2>1. /\ retired + 1 \in Int /\ Len(completed) \in Int
        /\ \A k \in retired + 1 .. Len(completed) : completed[k] \in S
    BY <1>1, <1>2
  <2> QED BY <2>1, SubSeqProperties
<1>6. Pending = front \o back
  BY DEF Pending
<1> HIDE DEF front, back
<1>7. Pending \in Seq(S)
  BY <1>4, <1>5, <1>6, ConcatProperties
<1> QED BY <1>7, EmptySeq

(* It is that of the oldest instruction without effect. *)
ArchIs ==
  /\ Len(Pending) \in Nat
  /\ Len(Pending) = 0 => ArchPc = pc /\ ArchGpr = gpr
  /\ Len(Pending) # 0 => LET e == Pending[1].e IN
       /\ ~HasStored(e) => ArchPc = e.pc /\ ArchGpr = gpr
       /\ HasStored(e) =>
            /\ ArchPc = NextPc(e.pc)
            /\ ArchGpr = IF e.inst.opcode = "Amo" THEN WriteReg(gpr, e.rd, e.reg_value) ELSE gpr

LEMMA ArchNow == PipelineInv => ArchIs
<1> SUFFICES ASSUME PipelineInv PROVE ArchIs
  OBVIOUS
<1>1. Len(Pending) \in Nat
  BY PendingNow DEF PendingIs
<1>2. Pending = <<>> <=> Len(Pending) = 0
  BY PendingIsEmpty
<1> QED BY <1>1, <1>2 DEF ArchIs, ArchPc, ArchGpr, HeadHasStored, PendingAt

LEMMA ArchNext == PipelineInv' => ArchIs'
<1>1. PipelineInv => ArchIs
  BY ArchNow
<1> QED BY <1>1, PTL

(* No exit has been retired: before commit's loop, and within it as long   *)
(* as there is an entry to retire.                                         *)
LEMMA NoExitYet ==
  ASSUME PipelineInv, OrderInv, DataInv, stage # "retire" \/ retired < Len(completed)
  PROVE  ~ExitRetired
<1>1. retired \in Nat /\ Len(completed) \in Nat /\ retired <= Len(completed)
  BY ListFacts
<1>2. CASE stage # "retire"
  <2>1. Len(completed) = 0
    BY <1>2 DEF OrderInv, PoppedAreCompleted
  <2>2. 1 .. retired = {}
    BY <1>1, <2>1
  <2> QED BY <2>2 DEF ExitRetired
<1>3. CASE retired < Len(completed)
  <2>1. ASSUME NEW k \in 1 .. retired PROVE ~IsEcall(completed[k].e)
    <3>1. k \in 1 .. Len(completed) /\ k # Len(completed)
      BY <1>1, <1>3
    <3> QED BY <3>1 DEF DataInv, EcallEndsCommit
  <2> QED BY <2>1 DEF ExitRetired
<1> QED BY <1>2, <1>3

NoExit == (stage # "retire" \/ retired < Len(completed)) => ~ExitRetired

LEMMA NoExitNext == PipelineInv' /\ OrderInv' /\ DataInv' => NoExit'
<1>1. PipelineInv /\ OrderInv /\ DataInv => NoExit
  BY NoExitYet DEF NoExit
<1> QED BY <1>1, PTL

LEMMA RunsYet ==
  ASSUME PipelineInv, OrderInv, DataInv, stage # "retire" \/ retired < Len(completed),
         status = "running"
  PROVE  ArchStatus = "running"
BY NoExitYet DEF ArchStatus

-----------------------------------------------------------------------------
(* The steps that leave it alone                                           *)

Stutters == UNCHANGED <<code, mem, ArchPc, ArchGpr, ArchStatus>>

LEMMA OldestStays ==
  ASSUME PipelineInv, PipelineInv', UNCHANGED gpr,
         Len(Pending') = Len(Pending),
         Len(Pending) = 0 => pc' = pc,
         Len(Pending) # 0 =>
           LET e  == Pending[1].e
               e2 == Pending'[1].e
           IN  e2.pc = e.pc /\ (e2 = e \/ (~HasStored(e) /\ ~HasStored(e2)))
  PROVE  ArchPc' = ArchPc /\ ArchGpr' = ArchGpr
BY ArchNow, ArchNext DEF ArchIs

LEMMA SameStutters ==
  ASSUME PipelineInv, PipelineInv', SamePending, UNCHANGED <<code, mem, pc, gpr, ArchStatus>>
  PROVE  Stutters
<1>1. Len(Pending) \in Nat
  BY ArchNow DEF ArchIs
<1>2. Len(Pending) # 0 => 1 \in InFlight
  BY <1>1 DEF InFlight
<1> QED BY <1>2, OldestStays DEF SamePending, Stutters

LEMMA QuietStutters ==
  ASSUME PipelineInv, PipelineInv',
         \/ RetirePanics \/ ExecutePanics \/ IssuePanics \/ IssueStalls \/ Ended
         \/ UNCHANGED vars
  PROVE  Stutters
<1>1. Quiet
  BY QuietSteps DEF RetirePanics, ExecutePanics, IssuePanics
<1>2. UNCHANGED <<code, mem, gpr>> /\ (status' = status \/ (status = "running" /\ status' = "panicked"))
  BY DEF RetirePanics, Retiring, ExecutePanics, IssuePanics, Fetching, At, Panic, IssueStalls,
         Ended, vars, regVars
<1>3. ArchStatus' = ArchStatus
  BY <1>1, <1>2 DEF Quiet, ArchStatus, ExitRetired
<1>4. SamePending /\ pc' = pc
  BY <1>1, QuietIsSame DEF Quiet
<1> QED BY <1>2, <1>3, <1>4, SameStutters

LEMMA PopStutters ==
  ASSUME PipelineInv, PipelineInv', OrderInv, DataInv, PopCompleted PROVE Stutters
<1>1. /\ stage = "commit" /\ status = "running" /\ retired' = 0
      /\ UNCHANGED <<code, mem, pc, gpr, status>>
  BY DEF PopCompleted, At, regVars
<1>2. SamePending
  <2>1. PICK n \in 0 .. Len(buf) : Pops(n)
    BY PopCompletedPops
  <2> QED BY <1>1, <2>1, PopIsSame
<1>3. ArchStatus = "running"
  BY <1>1, RunsYet
<1>4. ArchStatus' = "running"
  BY <1>1 DEF ArchStatus, ExitRetired
<1> QED BY <1>1, <1>2, <1>3, <1>4, SameStutters

LEMMA DrainStutters ==
  ASSUME PipelineInv, PipelineInv', CommitDone PROVE Stutters
<1>1. SamePending
  BY CommitDoneDrains, DrainIsSame
<1>2. UNCHANGED <<code, mem, pc, gpr>> /\ status = "running" /\ retired' = 0
  BY DEF CommitDone, At, regVars
<1>3. ArchStatus' = ArchStatus
  <2>1. ~ExitRetired'
    BY <1>2 DEF ExitRetired
  <2>2. status' = IF ExitRetired THEN "finished" ELSE status
    BY DEF CommitDone, ExitRetired
  <2> QED BY <1>2, <2>1, <2>2 DEF ArchStatus
<1> QED BY <1>1, <1>2, <1>3, SameStutters

LEMMA WriteResultStutters ==
  ASSUME PipelineInv, PipelineInv', OrderInv, OrderInv', DataInv, DataInv', WriteResult
  PROVE  Stutters
<1>1. /\ stage = "write_result" /\ stage' = "execute" /\ status = "running"
      /\ UNCHANGED <<code, mem, pc, gpr, buf, status>>
  BY DEF WriteResult, At, regVars
<1>2. ArchStatus = "running" /\ ArchStatus' = "running"
  <2>1. ~ExitRetired /\ ~ExitRetired'
    BY <1>1, NoExitYet, NoExitNext DEF NoExit
  <2> QED BY <1>1, <2>1 DEF ArchStatus
<1>3. PendingIsList /\ PendingIsList'
  BY <1>1, ListNow, ListNext DEF BetweenCommits
<1>4. Len(Pending') = Len(Pending) /\ Len(Pending) = Len(buf) /\ Len(buf) \in Nat
  BY <1>1, <1>3 DEF PendingIsList
<1>5. ASSUME Len(Pending) # 0
      PROVE  /\ Pending'[1].e.pc = Pending[1].e.pc
             /\ ~HasStored(Pending[1].e) /\ ~HasStored(Pending'[1].e)
  <2>1. 1 \in 1 .. Len(buf) /\ 1 \in 1 .. Len(buf')
    BY <1>1, <1>4, <1>5
  <2>2. /\ Pending[1].e = entry[buf[1]] /\ buf[1] \in DOMAIN entry
        /\ Pending'[1].e = entry'[buf'[1]]
    BY <1>3, <2>1 DEF PendingIsList
  <2>3. entry'[buf[1]].pc = entry[buf[1]].pc
    BY <2>2, WriteResultAdvances DEF Advances
  <2> QED BY <1>1, <2>1, <2>2, <2>3 DEF DataInv, StoresLeave, Listed, Ith
<1>6. ArchPc' = ArchPc /\ ArchGpr' = ArchGpr
  BY <1>1, <1>4, <1>5, OldestStays
<1> QED BY <1>1, <1>2, <1>6 DEF Stutters

(* What issue appends has stored nothing. *)
LEMMA IssueStutters ==
  ASSUME PipelineInv, PipelineInv', OrderInv, OrderInv', DataInv, DataInv', Issue
  PROVE  Stutters
<1>1. /\ stage # "retire" /\ stage' # "retire" /\ UNCHANGED <<code, mem, gpr>>
      /\ \E node : Appended(node, Fetched)
  BY IssueAppends
<1>2. status = "running" /\ status' = status
  BY DEF Issue, Fetching, At
<1>3. ArchStatus = "running" /\ ArchStatus' = "running"
  <2>1. ~ExitRetired /\ ~ExitRetired'
    BY <1>1, NoExitYet, NoExitNext DEF NoExit
  <2> QED BY <1>2, <2>1 DEF ArchStatus
<1>4. PICK node : Appended(node, Fetched)
  BY <1>1
<1>5. Len(Pending) \in Nat /\ Len(Pending') = Len(Pending) + 1 /\ Len(Pending') # 0
  BY <1>4 DEF Appended
<1>6. CASE Len(Pending) # 0
  <2>1. 1 \in InFlight
    BY <1>5, <1>6 DEF InFlight
  <2>2. Pending'[1].e = Pending[1].e
    BY <1>4, <2>1 DEF Appended
  <2>3. ArchPc' = ArchPc /\ ArchGpr' = ArchGpr
    BY <1>1, <1>5, <1>6, <2>2, ArchNow, ArchNext DEF ArchIs
  <2> QED BY <1>1, <1>3, <2>3 DEF Stutters
<1>7. CASE Len(Pending) = 0
  <2> DEFINE new == NewEntry(regs, entry, pc, Fetched, Prediction(Fetched))
  <2>1. Pending'[1].e = new
    BY <1>4, <1>7 DEF Appended
  <2>2. new.pc = pc /\ new.reg_value = NULL /\ new.mem_rem_cycle = MemCycle
    BY DEF NewEntry
  <2> HIDE DEF new
  <2>3. ~HasStored(new)
    BY <2>2, CycleAssumption DEF HasStored, IsStoring, IsCompleted
  <2>4. ArchPc' = ArchPc /\ ArchGpr' = ArchGpr
    BY <1>1, <1>5, <1>7, <2>1, <2>2, <2>3, ArchNow, ArchNext DEF ArchIs
  <2> QED BY <1>1, <1>3, <2>4 DEF Stutters
<1> QED BY <1>6, <1>7

-----------------------------------------------------------------------------
(* execute                                                                 *)

(* The head of the list before and after, and the entry in between that    *)
(* execute_store works on.                                                 *)
LEMMA HeadExecuted ==
  ASSUME PipelineInv, PipelineInv', OrderInv, OrderInv', DataInv, DataInv', Execute
  PROVE  /\ Len(Pending) \in Nat /\ Len(Pending') = Len(Pending)
         /\ buf # <<>> <=> Len(Pending) # 0
         /\ UNCHANGED <<code, gpr>>
         /\ ArchStatus = "running" /\ ArchStatus' = "running"
         /\ Len(Pending) # 0 =>
              /\ 1 \in InFlight /\ Executed(1)
              /\ HeadEntry = LoadedEntries[buf[1]] /\ HeadEntry \in ReorderBufferEntry
              /\ Pending'[1].e = IF HeadStores THEN [HeadEntry EXCEPT !.mem_rem_cycle = 0]
                                 ELSE HeadEntry
              /\ ~HasStored(Pending[1].e)
<1>1. /\ stage = "execute" /\ stage' = "issue" /\ status = "running"
      /\ UNCHANGED <<code, gpr, status>>
  BY DEF Execute, At
<1>2. ArchStatus = "running" /\ ArchStatus' = "running"
  <2>1. ~ExitRetired /\ ~ExitRetired'
    BY <1>1, NoExitYet, NoExitNext DEF NoExit
  <2> QED BY <1>1, <2>1 DEF ArchStatus
<1>3. /\ Len(Pending) \in Nat /\ Len(Pending') = Len(Pending) /\ Len(Pending) = Len(buf)
      /\ \A k \in InFlight : Executed(k)
  BY ExecutesAll
<1>4. buf # <<>> <=> Len(Pending) # 0
  BY <1>3, ListFacts
<1>5. ASSUME Len(Pending) # 0
      PROVE  /\ 1 \in InFlight /\ Executed(1)
             /\ HeadEntry = LoadedEntries[buf[1]] /\ HeadEntry \in ReorderBufferEntry
             /\ Pending'[1].e = IF HeadStores THEN [HeadEntry EXCEPT !.mem_rem_cycle = 0]
                                ELSE HeadEntry
             /\ ~HasStored(Pending[1].e)
  <2>1. 1 \in InFlight /\ 1 \in 1 .. Len(buf) /\ Head(buf) = buf[1] /\ buf' = buf
    BY <1>3, <1>4, <1>5, ListFacts DEF InFlight, Execute
  <2>2. Executed(1)
    BY <1>3, <2>1
  <2>3. HeadEntry = LoadedEntries[buf[1]] /\ HeadEntry \in ReorderBufferEntry
    BY <2>1, <2>2 DEF HeadEntry, Executed, LoadStep
  <2>4. buf[1] \in DOMAIN LoadedEntries
    BY <2>2, LoadedFacts DEF Execute, Executed
  <2>5. Pending'[1].e = IF HeadStores THEN [HeadEntry EXCEPT !.mem_rem_cycle = 0]
                        ELSE HeadEntry
    <3>1. Pending'[1].e = entry'[buf[1]]
      BY <2>1, <2>2 DEF Executed
    <3>2. entry' = IF HeadStores THEN [LoadedEntries EXCEPT ![buf[1]].mem_rem_cycle = 0]
                   ELSE LoadedEntries
      BY <2>1 DEF Execute
    <3> QED BY <2>3, <2>4, <3>1, <3>2
  <2>6. ~HasStored(Pending[1].e)
    <3>1. Pending[1].e = Ith(1)
      BY <2>2 DEF Executed, Ith
    <3> QED BY <1>1, <2>1, <3>1 DEF DataInv, StoresLeave, Listed
  <2> QED BY <2>1, <2>2, <2>3, <2>5, <2>6
<1> QED BY <1>1, <1>2, <1>3, <1>4, <1>5

LEMMA ExecuteStutters ==
  ASSUME PipelineInv, PipelineInv', OrderInv, OrderInv', DataInv, DataInv', Execute, ~HeadStores
  PROVE  Stutters
<1>1. mem' = mem
  BY DEF Execute
<1>2. Len(Pending) = 0 => pc' = pc
  <2> SUFFICES ASSUME Len(Pending) = 0 PROVE pc' = pc
    OBVIOUS
  <2>1. buf = <<>>
    BY HeadExecuted
  <2>2. DOMAIN addresses = {}
    <3>1. 1 .. Len(buf) = {}
      BY <2>1
    <3>2. DOMAIN entry = {}
      BY <3>1, ListFacts
    <3> QED BY <3>2 DEF PipelineInv, AddressesAreMissing
  <2>3. JalrTargets(addresses) = {}
    BY <2>2 DEF JalrTargets, ReadyAddresses
  <2> QED BY <2>3 DEF Execute
<1>3. Len(Pending) # 0 => Pending'[1].e.pc = Pending[1].e.pc /\ ~HasStored(Pending'[1].e)
  <2> SUFFICES ASSUME Len(Pending) # 0
               PROVE  Pending'[1].e.pc = Pending[1].e.pc /\ ~HasStored(Pending'[1].e)
    OBVIOUS
  <2>1. /\ Executed(1) /\ Pending'[1].e = HeadEntry /\ ~StoreReady(HeadEntry)
    BY HeadExecuted DEF HeadStores
  <2>2. ~HasStored(HeadEntry)
    BY <2>1 DEF StoreReady, HasStored, IsCompleted, IsStoring
  <2> QED BY <2>1, <2>2 DEF Executed
<1>4. ArchPc' = ArchPc /\ ArchGpr' = ArchGpr
  BY <1>2, <1>3, HeadExecuted, OldestStays
<1> QED BY <1>1, <1>4, HeadExecuted DEF Stutters

(* The store at the head of the list. *)
LEMMA ExecuteStores ==
  ASSUME PipelineInv, PipelineInv', OrderInv, OrderInv', DataInv, DataInv', Execute, HeadStores
  PROVE  Arch!Step
<1> DEFINE P == Pending
           Q == Pending'
           p == P[1].e
           q == Q[1].e
           h == HeadEntry
           f == q.inst.function
           a == AddressOf(q, gpr)
<1>1. /\ Len(P) \in Nat /\ Len(Q) = Len(P) /\ Len(P) # 0 /\ 1 \in InFlight /\ Executed(1)
      /\ h \in ReorderBufferEntry /\ q = [h EXCEPT !.mem_rem_cycle = 0]
      /\ ~HasStored(p)
      /\ UNCHANGED <<code, gpr>> /\ ArchStatus = "running" /\ ArchStatus' = "running"
      /\ h = LoadedEntries[buf[1]]
  BY HeadExecuted DEF HeadStores
<1>2. /\ q.inst = h.inst /\ q.pc = h.pc /\ q.rd = h.rd /\ q.reg_value = h.reg_value
      /\ q.addr = h.addr /\ q.mem_value = h.mem_value /\ q.mem_exception = h.mem_exception
      /\ q.mem_rem_cycle = 0 /\ q.inst \in Instruction
  <2> HIDE DEF q, h
  <2>1. q.mem_rem_cycle = 0
    BY <1>1 DEF ReorderBufferEntry
  <2> QED BY <1>1, <2>1 DEF ReorderBufferEntry
<1>3. LoadStep(P[1].node, p, h, load_buf, load_buf', mem)
  BY <1>1 DEF Executed
<1>4. /\ q.inst = p.inst /\ q.pc = p.pc /\ q.rd = p.rd /\ q.reg_value = p.reg_value
      /\ q.mem_exception = p.mem_exception
  BY <1>2, <1>3 DEF LoadStep
<1>5. /\ StoreReady(h) /\ StoreFits(h) /\ mem' = Stored(h, mem)
  BY DEF HeadStores, Execute, ExecutePanicking
<1>6. /\ IsStoring(q.inst) /\ IsValue(q.addr) /\ IsValue(q.mem_value)
      /\ q.inst.opcode = "Amo" => q.reg_value # NULL
      /\ WriteFits(q.addr.val, AccessSize(f))
      /\ mem' = Written(mem, q.addr.val, AccessSize(f), q.mem_value.val)
  BY <1>2, <1>5 DEF StoreReady, StoreFits, Stored
<1>7. AtEntry(q)
  <2>1. /\ p.pc \in DOMAIN code /\ p.inst = FetchedAt(p.pc) /\ p.rd = OrZero(p.inst.rd)
    BY <1>1 DEF DataInv, TextIsFetched, PendingAt
  <2>2. ArchPc = p.pc /\ ArchGpr = gpr
    BY <1>1, ArchNow DEF ArchIs
  <2>3. gpr \in [Regs -> Word]
    BY DEF PipelineInv, TypeOK
  <2> HIDE DEF p, q
  <2> QED BY <1>1, <1>2, <1>4, <2>1, <2>2, <2>3 DEF AtEntry
<1>8. /\ DataAt(P, gpr, station, addresses, load_buf, mem, 1)
      /\ DataAt(Q, gpr, station', addresses', load_buf', mem', 1)
  <2>1. DataAt(P, gpr, station, addresses, load_buf, mem, 1)
    BY <1>1 DEF DataInv, ValuesAreRight
  <2>2. 1 \in 1 .. Len(Pending')
    BY <1>1
  <2>3. DataAt(Pending', gpr', station', addresses', load_buf', mem', 1)
    BY <2>2 DEF DataInv, ValuesAreRight, InFlight
  <2> QED BY <1>1, <2>1, <2>3
<1> HIDE DEF P, Q
<1>9. /\ q.addr.val = a
      /\ (UsesStation(q.inst) /\ q.reg_value # NULL) =>
           q.reg_value = Alu(f, LeftOf(q, gpr), RightOf(q, gpr))
      /\ (q.inst.opcode = "Store" \/ (q.inst.opcode = "Amo" /\ f = "Scw")) =>
           q.mem_value.val = gpr[OrZero(q.inst.rs2)]
  BY <1>6, <1>8, OldestIsRight
<1>10. q.inst.opcode = "Store" \/ q.inst.opcode = "Amo"
  BY <1>6 DEF IsStoring
<1>11. f # "Lrw" /\ (UsesLoadBuffer(q.inst) <=> q.inst.opcode = "Amo" /\ f # "Scw")
  BY <1>6 DEF IsStoring, UsesLoadBuffer
<1>12. ASSUME UsesLoadBuffer(q.inst)
       PROVE  /\ q.mem_exception = "Ok"
              /\ Readable(a, AccessSize(f))
              /\ q.reg_value = LoadValue(mem, f, a)
              /\ q.mem_value.val = AmoValue(f, q.reg_value, gpr[OrZero(q.inst.rs2)])
              /\ ~AmoPanics(f, q.reg_value, gpr[OrZero(q.inst.rs2)])
  <2>1. P[1].node \notin DOMAIN load_buf
    <3>1. p.reg_value # NULL
      BY <1>4, <1>6, <1>11, <1>12
    <3> QED BY <1>1, <3>1, ResultHasLeft DEF P, Producing
  <2> DEFINE g == p.inst.function
             b == gpr[OrZero(p.inst.rs2)]
  <2>0. /\ IsValue(p.addr)
        /\ p.mem_exception = "Err" => ~InAddressSpace(p.addr.val)
        /\ p.mem_exception # "Err" =>
             /\ Readable(p.addr.val, AccessSize(g))
             /\ p.reg_value = LoadValue(mem, g, p.addr.val)
             /\ (p.inst.opcode = "Amo" /\ g # "Lrw") =>
                  /\ p.mem_value = Value(AmoValue(g, p.reg_value, b))
                  /\ ~AmoPanics(g, p.reg_value, b)
    <3>1. UsesLoadBuffer(p.inst) /\ p.reg_value # NULL /\ ~HasStored(p)
      BY <1>1, <1>4, <1>6, <1>11, <1>12
    <3>2. DataAt(P, gpr, station, addresses, load_buf, mem, 1)
      BY <1>8
    <3> QED BY <2>1, <3>1, <3>2, OldestHasRead
  <2>2. /\ IsValue(p.addr)
        /\ p.mem_exception = "Err" => ~InAddressSpace(p.addr.val)
        /\ p.mem_exception # "Err" =>
             /\ Readable(p.addr.val, AccessSize(f))
             /\ q.reg_value = LoadValue(mem, f, p.addr.val)
             /\ p.mem_value = Value(AmoValue(f, q.reg_value, gpr[OrZero(q.inst.rs2)]))
             /\ ~AmoPanics(f, q.reg_value, gpr[OrZero(q.inst.rs2)])
    BY <1>4, <1>11, <1>12, <2>0
  <2>3. q.mem_value = p.mem_value /\ q.addr = p.addr
    <3>1. p.addr # NoOperand
      BY <2>2 DEF IsValue, NoOperand
    <3> QED BY <1>2, <1>3, <2>1, <3>1 DEF LoadStep
  <2>4. q.mem_exception = "Ok"
    <3>1. InAddressSpace(q.addr.val)
      BY <1>6 DEF WriteFits, Readable
    <3>2. q.mem_exception # "Err"
      BY <1>4, <2>2, <2>3, <3>1
    <3> QED BY <1>1, <1>2, <3>2 DEF ReorderBufferEntry
  <2>5. p.mem_exception # "Err"
    BY <1>4, <2>4
  <2> HIDE DEF p, q, a
  <2> QED BY <1>9, <2>2, <2>3, <2>4, <2>5 DEF Value
<1>13. q.mem_exception = "Ok"
  <2>1. q.mem_exception = "Err" => UsesLoadBuffer(q.inst)
    BY <1>8 DEF DataAt, StoreIsOldest
  <2> QED BY <1>1, <1>2, <1>12, <2>1 DEF ReorderBufferEntry
<1>14. HasStored(q)
  BY <1>2, <1>6, <1>10, <1>13 DEF HasStored, IsCompleted
<1>15. /\ ArchPc' = NextPc(q.pc)
       /\ ArchGpr' = IF q.inst.opcode = "Amo" THEN WriteReg(gpr, q.rd, q.reg_value) ELSE gpr
  <2>1. Len(Pending') # 0 /\ gpr' = gpr
    BY <1>1 DEF P, Q
  <2> QED BY <1>14, <2>1, ArchNext DEF ArchIs, Q
<1> HIDE DEF p, h
<1>16. CASE q.inst.opcode = "Store"
  <2> HIDE DEF q
  <2> QED BY <1>1, <1>6, <1>7, <1>9, <1>15, <1>16, ArchStores
<1>17. CASE q.inst.opcode = "Amo"
  <2>1. q.reg_value = IF f = "Scw" THEN 0 ELSE LoadValue(mem, f, a)
    <3>1. CASE f = "Scw"
      <4>1. LeftOf(q, gpr) = 0 /\ RightOf(q, gpr) = 0
        BY <1>17 DEF LeftOf, RightOf, ReadsLeft, ReadsRight, FixedLeft, FixedRight
      <4>2. UsesStation(q.inst) /\ q.reg_value # NULL
        BY <1>6, <1>17, <3>1 DEF UsesStation
      <4> QED BY <1>9, <3>1, <4>1, <4>2, UnitAssumption
    <3>2. CASE f # "Scw"
      BY <1>11, <1>12, <1>17, <3>2
    <3> QED BY <3>1, <3>2
  <2>2. /\ f # "Scw" => /\ Readable(a, AccessSize(f))
                        /\ ~AmoPanics(f, q.reg_value, gpr[OrZero(q.inst.rs2)])
        /\ WriteFits(a, AccessSize(f))
        /\ mem' = Written(mem, a, AccessSize(f),
                          IF f = "Scw" THEN gpr[OrZero(q.inst.rs2)]
                          ELSE AmoValue(f, q.reg_value, gpr[OrZero(q.inst.rs2)]))
    BY <1>6, <1>9, <1>11, <1>12, <1>17
  <2> DEFINE b == gpr[OrZero(q.inst.rs2)]
             g == q.inst.function
  <2>3. /\ code' = code /\ ArchStatus' = "running" /\ ArchPc' = NextPc(q.pc)
        /\ ArchGpr' = WriteReg(gpr, q.rd, q.reg_value)
        /\ q.reg_value = IF g = "Scw" THEN 0 ELSE LoadValue(mem, g, a)
        /\ g # "Scw" => Readable(a, AccessSize(g))
        /\ g # "Scw" /\ g # "Lrw" => ~AmoPanics(g, q.reg_value, b)
        /\ g # "Lrw" => WriteFits(a, AccessSize(g))
        /\ mem' = IF g = "Lrw" THEN mem
                  ELSE Written(mem, a, AccessSize(g),
                               IF g = "Scw" THEN b ELSE AmoValue(g, q.reg_value, b))
    BY <1>1, <1>11, <1>15, <1>17, <2>1, <2>2
  <2>4. a = AddressOf(q, gpr)
    OBVIOUS
  <2> HIDE DEF q, a
  <2>5. g = q.inst.function /\ b = gpr[OrZero(q.inst.rs2)]
    OBVIOUS
  <2> HIDE DEF b, g
  <2> QED BY <1>7, <1>17, <2>3, <2>4, <2>5, ArchAtomics
<1> QED BY <1>10, <1>16, <1>17

-----------------------------------------------------------------------------
(* commit                                                                  *)

(* The entry that is retired, which may have had its effect before.        *)
LEMMA OldestRetires ==
  ASSUME PipelineInv, OrderInv, DataInv, Retiring
  PROVE  LET e == Current.e IN
         /\ Len(Pending) \in Nat \ {0} /\ 1 \in InFlight /\ Pending[1] = Current
         /\ e \in ReorderBufferEntry /\ e.inst \in Instruction /\ IsCompleted(e)
         /\ ArchStatus = "running"
         /\ ~HasStored(e) => AtEntry(e)
         /\ HasStored(e) =>
              /\ ArchPc = NextPc(e.pc)
              /\ ArchGpr = IF e.inst.opcode = "Amo" THEN WriteReg(gpr, e.rd, e.reg_value) ELSE gpr
         /\ UsesStation(e.inst) => UnitIsRight(e)
         /\ IsValue(e.addr) => e.addr.val = AddressOf(e, gpr)
         /\ (UsesLoadBuffer(e.inst) /\ ~HasStored(e) /\ e.mem_exception = "Ok") =>
              /\ IsValue(e.addr)
              /\ Readable(e.addr.val, AccessSize(e.inst.function))
              /\ e.reg_value = LoadValue(mem, e.inst.function, e.addr.val)
<1> DEFINE e == Current.e
<1>1. PendingIs
  BY PendingNow
<1>2. /\ retired < Len(completed) /\ status = "running"
      /\ 1 \in 1 .. Len(completed) - retired /\ Len(Pending) \in Nat \ {0} /\ 1 \in InFlight
  BY <1>1 DEF Retiring, At, PendingIs, InFlight
<1>3. Pending[1] = Current
  BY <1>1, <1>2 DEF PendingIs, Current
<1>4. /\ e \in ReorderBufferEntry /\ e.inst \in Instruction /\ IsCompleted(e)
      /\ Current.node \notin Producing
  BY CurrentIsFree
<1>5. ArchStatus = "running"
  BY <1>2, RunsYet
<1>6. /\ ~HasStored(e) => ArchPc = e.pc /\ ArchGpr = gpr
      /\ HasStored(e) =>
           /\ ArchPc = NextPc(e.pc)
           /\ ArchGpr = IF e.inst.opcode = "Amo" THEN WriteReg(gpr, e.rd, e.reg_value) ELSE gpr
  BY <1>2, <1>3, ArchNow DEF ArchIs
<1>7. ~HasStored(e) => AtEntry(e)
  <2>1. e.pc \in DOMAIN code /\ e.inst = FetchedAt(e.pc) /\ e.rd = OrZero(e.inst.rd)
    BY <1>2, <1>3 DEF DataInv, TextIsFetched, PendingAt
  <2>2. gpr \in [Regs -> Word]
    BY DEF PipelineInv, TypeOK
  <2> HIDE DEF e
  <2> QED BY <1>4, <1>5, <1>6, <2>1, <2>2 DEF AtEntry
<1> DEFINE P == Pending
<1>8. DataAt(P, gpr, station, addresses, load_buf, mem, 1) /\ P[1] = Current
  BY <1>2, <1>3 DEF DataInv, ValuesAreRight
<1>9. P[1].node \notin DOMAIN load_buf
  BY <1>4, <1>8 DEF Producing
<1> HIDE DEF P
<1>10. e.reg_value # NULL \/ e.inst.opcode = "Store"
  BY <1>4, CompletedFacts
<1>11. /\ (UsesStation(e.inst) /\ e.reg_value # NULL) => UnitIsRight(e)
       /\ IsValue(e.addr) => e.addr.val = AddressOf(e, gpr)
  BY <1>8, OldestIsRight DEF UnitIsRight
<1>12. UsesStation(e.inst) => UnitIsRight(e)
  BY <1>10, <1>11, UnitFacts
<1>13. ASSUME UsesLoadBuffer(e.inst), ~HasStored(e), e.mem_exception = "Ok"
       PROVE  /\ IsValue(e.addr)
              /\ Readable(e.addr.val, AccessSize(e.inst.function))
              /\ e.reg_value = LoadValue(mem, e.inst.function, e.addr.val)
  <2>1. e.reg_value # NULL /\ e.mem_exception # "Err"
    BY <1>10, <1>13 DEF UsesLoadBuffer
  <2> QED BY <1>8, <1>9, <1>13, <2>1, OldestHasRead
<1> QED BY <1>2, <1>3, <1>4, <1>5, <1>6, <1>7, <1>11, <1>12, <1>13

(* Then the machine is at the next.                                        *)
LEMMA NextIsOldest ==
  ASSUME PipelineInv, PipelineInv', OrderInv, DataInv, PathInv, RetiresOne, UNCHANGED pc
  PROVE  ArchPc' = Successor(Current.e) /\ ArchGpr' = gpr'
<1>1. ShiftedPending
  BY RetireShifts
<1>2. /\ Len(Pending) \in Nat \ {0} /\ Len(Pending') = Len(Pending) - 1
      /\ Pending[1] = Current
  BY <1>1 DEF ShiftedPending
<1>3. Pending # <<>>
  BY <1>2, PendingIsEmpty
<1>4. FetchFollowsPrediction
  BY PathImpliesProperty
<1>5. CASE Len(Pending') = 0
  <2>1. Len(Pending) = 1
    BY <1>2, <1>5
  <2>2. pc' = Successor(Current.e)
    BY <1>2, <1>3, <1>4, <2>1 DEF FetchFollowsPrediction, PendingAt
  <2> QED BY <1>5, <2>2, ArchNext DEF ArchIs
<1>6. CASE Len(Pending') # 0
  <2>1. /\ 1 \in 1 .. Len(Pending') /\ 1 \in 1 .. Len(Pending) - 1
        /\ 1 + 1 = 2 /\ 2 \in InFlight
    BY <1>2, <1>6 DEF InFlight
  <2>2. Pending'[1].e = Pending[2].e
    BY <1>1, <2>1 DEF ShiftedPending
  <2>3. Pending[2].e.pc = Successor(Current.e)
    BY <1>2, <1>4, <2>1 DEF FetchFollowsPrediction, PendingAt
  <2>4. ~HasStored(Pending[2].e)
    BY <2>1, StoredIsOldest DEF DataInv
  <2> QED BY <1>6, <2>2, <2>3, <2>4, ArchNext DEF ArchIs
<1> QED BY <1>5, <1>6

(* Retiring anything but a system call does not end the program.           *)
LEMMA StillRunning ==
  ASSUME PipelineInv, OrderInv, DataInv, RetiresOne, ~IsEcall(Current.e),
         status' = status
  PROVE  ArchStatus' = "running"
<1>1. /\ retired' = retired + 1 /\ completed' = completed
      /\ status = "running" /\ retired \in Nat /\ Len(completed) \in Nat
      /\ retired < Len(completed)
  BY ListFacts DEF RetiresOne, Retiring, At
<1>2. ASSUME NEW k \in 1 .. retired' PROVE ~IsEcall(completed'[k].e)
  <2>1. CASE k = retired + 1
    BY <1>1, <2>1 DEF Current, IsEcall
  <2>2. CASE k # retired + 1
    <3>1. k \in 1 .. Len(completed) /\ k # Len(completed)
      BY <1>1, <2>2
    <3> QED BY <1>1, <3>1 DEF DataInv, EcallEndsCommit, IsEcall
  <2> QED BY <2>1, <2>2
<1>3. ~ExitRetired'
  BY <1>2 DEF ExitRetired, IsEcall
<1> QED BY <1>1, <1>3 DEF ArchStatus

LEMMA OpcodesOf ==
  ASSUME NEW inst \in Instruction
  PROVE  /\ inst.function = "Ecall" => inst.opcode = "System"
         /\ inst.function = "Lrw" => inst.opcode = "Amo"
<1>1. inst.opcode \in Opcode /\ inst.function \in FunctionsOf(inst.opcode)
  BY InstructionFields
<1>2. ASSUME NEW o \in Opcode, o # "System" PROVE "Ecall" \notin FunctionsOf(o)
  BY <1>2 DEF Opcode, FpOpcodes, FunctionsOf, MulFunctions, DivFunctions
<1>3. ASSUME NEW o \in Opcode, o # "Amo" PROVE "Lrw" \notin FunctionsOf(o)
  BY <1>3 DEF Opcode, FpOpcodes, FunctionsOf, MulFunctions, DivFunctions
<1> QED BY <1>1, <1>2, <1>3

(* A completed store or atomic without a fault has stored.                 *)
LEMMA CompletedHasStored ==
  ASSUME NEW e, e.inst \in Instruction, IsCompleted(e), e.mem_exception = "Ok",
         e.inst.opcode = "Store" \/ (e.inst.opcode = "Amo" /\ e.inst.function # "Lrw")
  PROVE  HasStored(e)
<1>1. e.mem_rem_cycle = 0
  BY DEF IsCompleted
<1>2. e.inst.opcode = "Store" => e.inst.function # "Lrw"
  BY OpcodesOf
<1> QED BY <1>1, <1>2 DEF HasStored, IsStoring

LEMMA ValueRefines ==
  ASSUME PipelineInv, PipelineInv', OrderInv, DataInv, PathInv, RetireValue
  PROVE  Arch!Step \/ Stutters
<1> DEFINE e == Current.e
           a == AddressOf(e, gpr)
<1>1. /\ RetiresOne /\ Retiring /\ UNCHANGED <<code, mem, pc, status>>
      /\ ~IsEcall(e) /\ ~IsBranch(e) /\ e.mem_exception = "Ok"
  BY RetireKeeps DEF RetireValue
<1>2. gpr' = WriteReg(gpr, e.rd, e.reg_value)
  <2>1. CASE e.reg_value = NULL
    <3>1. e.rd = 0
      BY <1>1, <2>1, CurrentWrites DEF DataInv
    <3> QED BY <2>1, <3>1 DEF RetireValue, WriteReg
  <2>2. CASE e.reg_value # NULL
    BY <2>2 DEF RetireValue
  <2> QED BY <2>1, <2>2
<1>3. /\ Len(Pending) \in Nat \ {0} /\ 1 \in InFlight /\ Pending[1] = Current
      /\ e \in ReorderBufferEntry /\ e.inst \in Instruction /\ IsCompleted(e)
      /\ ArchStatus = "running"
      /\ ~HasStored(e) => AtEntry(e)
      /\ HasStored(e) =>
           /\ ArchPc = NextPc(e.pc)
           /\ ArchGpr = IF e.inst.opcode = "Amo" THEN WriteReg(gpr, e.rd, e.reg_value) ELSE gpr
      /\ UsesStation(e.inst) => UnitIsRight(e)
      /\ IsValue(e.addr) => e.addr.val = a
      /\ (UsesLoadBuffer(e.inst) /\ ~HasStored(e)) =>
           /\ IsValue(e.addr)
           /\ Readable(e.addr.val, AccessSize(e.inst.function))
           /\ e.reg_value = LoadValue(mem, e.inst.function, e.addr.val)
  BY <1>1, OldestRetires
<1>4. ArchPc' = Successor(e) /\ ArchGpr' = gpr' /\ ArchStatus' = "running"
  BY <1>1, NextIsOldest, StillRunning
<1>5. e.rd = OrZero(e.inst.rd)
  BY <1>3 DEF DataInv, TextIsFetched, PendingAt
<1> HIDE DEF e
<1>6. Writing(e, gpr')
  BY <1>1, <1>2, <1>4 DEF Writing, Leaves
<1>7. CASE HasStored(e)
  <2>1. e.inst.opcode \in {"Store", "Amo"}
    BY <1>7 DEF HasStored, IsStoring
  <2>2. Successor(e) = NextPc(e.pc)
    BY <2>1 DEF Successor, FetchNext
  <2>3. e.inst.opcode = "Store" => e.rd = 0
    BY <1>3, <1>5, InstructionFields DEF OrZero
  <2>4. gpr' = IF e.inst.opcode = "Amo" THEN WriteReg(gpr, e.rd, e.reg_value) ELSE gpr
    BY <1>2, <2>1, <2>3 DEF WriteReg
  <2> QED BY <1>1, <1>3, <1>4, <1>7, <2>2, <2>4 DEF Stutters
<1>8. CASE ~HasStored(e)
  <2>1. AtEntry(e) /\ e.pc \in Word
    BY <1>3, <1>8 DEF ReorderBufferEntry
  <2>2. CASE e.inst.opcode = "Store" \/ (e.inst.opcode = "Amo" /\ e.inst.function # "Lrw")
    BY <1>1, <1>3, <1>8, <2>2, CompletedHasStored
  <2>3. CASE e.inst.opcode = "Load"
    <3>1. /\ Readable(a, AccessSize(e.inst.function))
          /\ e.reg_value = LoadValue(mem, e.inst.function, a)
      BY <1>3, <1>8, <2>3 DEF UsesLoadBuffer
    <3> QED BY <1>1, <1>6, <2>1, <2>3, <3>1, ArchLoads
  <2>4. CASE e.inst.opcode = "Amo" /\ e.inst.function = "Lrw"
    <3>1. /\ Readable(a, AccessSize(e.inst.function))
          /\ e.reg_value = LoadValue(mem, e.inst.function, a)
      BY <1>3, <1>8, <2>4 DEF UsesLoadBuffer
    <3>2. ArchPc' = NextPc(e.pc)
      BY <1>4, <2>4 DEF Successor, FetchNext
    <3>3. ArchGpr' = WriteReg(gpr, e.rd, e.reg_value)
      BY <1>2, <1>4
    <3> DEFINE g == e.inst.function
               b == gpr[OrZero(e.inst.rs2)]
    <3>4. /\ code' = code /\ ArchStatus' = "running"
          /\ e.reg_value = IF g = "Scw" THEN 0 ELSE LoadValue(mem, g, a)
          /\ g # "Scw" => Readable(a, AccessSize(g))
          /\ g # "Scw" /\ g # "Lrw" => ~AmoPanics(g, e.reg_value, b)
          /\ g # "Lrw" => WriteFits(a, AccessSize(g))
          /\ mem' = IF g = "Lrw" THEN mem
                    ELSE Written(mem, a, AccessSize(g),
                                 IF g = "Scw" THEN b ELSE AmoValue(g, e.reg_value, b))
      BY <1>1, <1>4, <2>4, <3>1
    <3>5. a = AddressOf(e, gpr) /\ g = e.inst.function /\ b = gpr[OrZero(e.inst.rs2)]
      OBVIOUS
    <3> HIDE DEF a, b, g
    <3> QED BY <2>1, <2>4, <3>2, <3>3, <3>4, <3>5, ArchAtomics
  <2>5. CASE e.inst.opcode \notin {"Load", "Store", "Amo"}
    <3>1. UnitIsRight(e)
      BY <1>3, <2>5 DEF UsesStation
    <3>2. CASE e.inst.opcode = "Jalr"
      <4>1. IsValue(e.addr) /\ e.addr.val = AddressOf(e, gpr)
        BY <1>3, <3>2, CompletedFacts
      <4> QED BY <1>1, <1>6, <2>1, <3>1, <3>2, <4>1, ArchJumps
    <3>3. CASE e.inst.opcode # "Jalr"
      <4>1. e.inst.opcode \notin {"Load", "Store", "Amo", "Branch", "Jalr"}
        BY <1>1, <2>5, <3>3 DEF IsBranch
      <4> QED BY <1>1, <1>6, <2>1, <3>1, <4>1, ArchComputes
    <3> QED BY <3>2, <3>3
  <2> QED BY <2>2, <2>3, <2>4, <2>5
<1> QED BY <1>7, <1>8

LEMMA PredictedRefines ==
  ASSUME PipelineInv, PipelineInv', OrderInv, DataInv, PathInv, RetirePredicted
  PROVE  Arch!Step
<1> DEFINE e == Current.e
<1>1. /\ RetiresOne /\ Retiring /\ UNCHANGED <<code, mem, pc, gpr, status>>
      /\ e.inst.opcode = "Branch" /\ e.reg_value = AsWord(e.branch_pred)
  BY RetireKeeps DEF RetirePredicted, regVars, IsBranch
<1>2. /\ e \in ReorderBufferEntry /\ e.inst \in Instruction
      /\ ~HasStored(e) => AtEntry(e)
      /\ UsesStation(e.inst) => UnitIsRight(e)
  BY <1>1, OldestRetires
<1>3. ~IsEcall(e)
  BY <1>1, <1>2, OpcodesOf DEF IsEcall
<1>4. ArchPc' = Successor(e) /\ ArchGpr' = gpr /\ ArchStatus' = "running"
  BY <1>1, <1>3, NextIsOldest, StillRunning
<1> HIDE DEF e
<1>5. AtEntry(e) /\ UnitIsRight(e)
  BY <1>1, <1>2 DEF HasStored, IsStoring, UsesStation
<1>6. Successor(e) = BranchTarget(e)
  BY <1>1, <1>2 DEF Successor, FetchNext, BranchTarget, AsWord, ReorderBufferEntry
<1> QED BY <1>1, <1>4, <1>5, <1>6, ArchBranches

LEMMA MispredictedRefines ==
  ASSUME PipelineInv, PipelineInv', OrderInv, DataInv, RetireMispredicted
  PROVE  Arch!Step
<1> DEFINE e == Current.e
<1>1. /\ Flushes /\ Retiring /\ UNCHANGED <<code, mem, gpr, status>>
      /\ e.inst.opcode = "Branch" /\ pc' = BranchTarget(e)
      /\ completed' = SubSeq(completed, 1, retired + 1)
  BY MispredictionFlushes DEF RetireMispredicted, IsBranch, Truncated
<1>2. /\ e \in ReorderBufferEntry /\ e.inst \in Instruction
      /\ ~HasStored(e) => AtEntry(e)
      /\ UsesStation(e.inst) => UnitIsRight(e)
  BY <1>1, OldestRetires
<1>3. ~IsEcall(e)
  BY <1>1, <1>2, OpcodesOf DEF IsEcall
<1>4. ArchPc' = BranchTarget(e) /\ ArchGpr' = gpr
  <2>1. PendingIs'
    BY PendingNext
  <2>2. Len(buf') = 0 /\ Len(completed') - retired' = 0
    BY <1>1, <2>1 DEF Flushes, PendingIs
  <2>3. Len(Pending') = 0
    BY <2>1, <2>2 DEF PendingIs
  <2> QED BY <1>1, <2>3, ArchNext DEF ArchIs
<1>5. ArchStatus' = "running"
  <2>1. /\ retired \in Nat /\ Len(completed) \in Nat /\ retired < Len(completed)
        /\ retired' = retired + 1 /\ status = "running"
        /\ completed \in Seq([node : Nodes, e : ReorderBufferEntry])
    BY <1>1, ListFacts DEF Retiring, At, Flushes, PipelineInv, TypeOK
  <2>2. ASSUME NEW k \in 1 .. retired' PROVE ~IsEcall(completed'[k].e)
    <3>1. k \in 1 .. retired + 1 /\ k \in 1 .. Len(completed)
      BY <2>1
    <3>2. completed'[k] = completed[k]
      BY <1>1, <2>1, <3>1
    <3>3. CASE k = retired + 1
      BY <1>3, <3>2, <3>3 DEF Current, IsEcall
    <3>4. CASE k # retired + 1
      <4>1. k # Len(completed)
        BY <2>1, <3>1, <3>4
      <4> QED BY <3>1, <3>2, <4>1 DEF DataInv, EcallEndsCommit, IsEcall
    <3> QED BY <3>3, <3>4
  <2>3. ~ExitRetired'
    BY <2>2 DEF ExitRetired, IsEcall
  <2> QED BY <1>1, <2>1, <2>3 DEF ArchStatus
<1> HIDE DEF e
<1>6. AtEntry(e) /\ UnitIsRight(e)
  BY <1>1, <1>2 DEF HasStored, IsStoring, UsesStation
<1> QED BY <1>1, <1>4, <1>5, <1>6, ArchBranches

LEMMA EcallRefines ==
  ASSUME PipelineInv, PipelineInv', OrderInv, DataInv, PathInv, RetireEcall
  PROVE  Arch!Step
<1> DEFINE e == Current.e
<1>1. /\ RetiresOne /\ Retiring /\ UNCHANGED <<code, pc, status>> /\ IsEcall(e)
  BY RetireKeeps DEF RetireEcall
<1>2. /\ e.inst \in Instruction
      /\ ~HasStored(e) => AtEntry(e)
      /\ UsesStation(e.inst) => UnitIsRight(e)
  BY <1>1, OldestRetires
<1>3. e.inst.opcode = "System"
  BY <1>1, <1>2, OpcodesOf DEF IsEcall
<1>4. PICK ret \in Word : /\ SyscallReturns(gpr, mem, ret, mem')
                          /\ gpr' = WriteReg(gpr, SyscallRetReg, ret)
  BY DEF RetireEcall
<1>5. ArchPc' = Successor(e) /\ ArchGpr' = gpr'
  BY <1>1, NextIsOldest
<1>6. ArchStatus' = IF AsksToExit(gpr) THEN "finished" ELSE "running"
  <2>1. /\ retired' = retired + 1 /\ completed' = completed /\ retired \in Nat
        /\ status' = "running"
    BY <1>1, ListFacts DEF RetiresOne, Retiring, At
  <2>2. IsEcall(completed'[retired + 1].e) /\ retired + 1 \in 1 .. retired'
    BY <1>1, <2>1 DEF Current, IsEcall
  <2>3. AsksToExit(gpr') <=> AsksToExit(gpr)
    <3>1. gpr'[SyscallNumReg] = gpr[SyscallNumReg]
      BY <1>4, SyscallAssumption DEF WriteReg, PipelineInv, TypeOK
    <3> QED BY <3>1 DEF AsksToExit, KindOf
  <2>4. ExitRetired' <=> AsksToExit(gpr)
    BY <2>2, <2>3 DEF ExitRetired, IsEcall, AsksToExit, KindOf
  <2> QED BY <2>1, <2>4 DEF ArchStatus
<1> HIDE DEF e
<1>7. AtEntry(e) /\ UnitIsRight(e)
  BY <1>2, <1>3 DEF HasStored, IsStoring, UsesStation
<1> QED BY <1>1, <1>3, <1>4, <1>5, <1>6, <1>7, ArchCallsSystem

-----------------------------------------------------------------------------
(* All the steps                                                           *)

LEMMA StepRefines ==
  ASSUME PipelineInv, PipelineInv', OrderInv, OrderInv', DataInv, DataInv', PathInv, [Next]_vars
  PROVE  Arch!Step \/ Stutters
<1>1. CASE PopCompleted
  BY <1>1, PopStutters
<1>2. CASE Retire
  <2>1. CASE RetireValue
    BY <2>1, ValueRefines
  <2>2. CASE RetirePredicted
    BY <2>2, PredictedRefines
  <2>3. CASE RetireMispredicted
    BY <2>3, MispredictedRefines
  <2>4. CASE RetireEcall
    BY <2>4, EcallRefines
  <2>5. CASE RetirePanics
    BY <2>5, QuietStutters
  <2> QED BY <1>2, <2>1, <2>2, <2>3, <2>4, <2>5 DEF Retire
<1>3. CASE CommitDone
  BY <1>3, DrainStutters
<1>4. CASE WriteResult
  BY <1>4, WriteResultStutters
<1>5. CASE Execute
  BY <1>5, ExecuteStores, ExecuteStutters
<1>6. CASE Issue
  BY <1>6, IssueStutters
<1>7. CASE ExecutePanics \/ IssuePanics \/ IssueStalls \/ Ended \/ UNCHANGED vars
  BY <1>7, QuietStutters
<1> QED BY <1>1, <1>2, <1>3, <1>4, <1>5, <1>6, <1>7 DEF Next

LEMMA InitRefines ==
  Init /\ EcallsNameNoRegister => Arch!StartsAt(Programs, InitialMemory, EntryPoint, StackPointer)
<1> SUFFICES ASSUME Init, EcallsNameNoRegister PROVE Arch!StartsAt(Programs, InitialMemory, EntryPoint, StackPointer)
  OBVIOUS
<1>1. PipelineInv
  BY InitEstablishes
<1>2. Len(completed) = 0 /\ retired = 0 /\ Len(buf) = 0
  BY DEF Init
<1>3. Len(Pending) = 0
  BY <1>1, <1>2, PendingNow DEF PendingIs
<1>4. ArchPc = pc /\ ArchGpr = gpr
  BY <1>1, <1>3, ArchNow DEF ArchIs
<1>5. ArchStatus = "running"
  <2>1. ~ExitRetired
    BY <1>2 DEF ExitRetired
  <2> QED BY <2>1 DEF ArchStatus, Init
<1>6. Arch!Regs = Regs
  BY SameVocabulary
<1> QED BY <1>4, <1>5, <1>6 DEF Init, Arch!StartsAt

(* The pipeline implements the sequential machine: whatever is in flight,  *)
(* however the units, the predictions and the flushes interleave, what it  *)
(* does to the registers, the memory and the pc is one instruction of the  *)
(* sequential machine, in program order, or nothing.  It does so in every  *)
(* run in which no jalr goes to address 0 and no load overtakes a store:   *)
(* the code takes 0 for "no target", and is_load_ready compares addresses  *)
(* but not extents, so the other runs need not be runs of the machine.     *)
THEOREM PipelineImplementsMachine ==
  Spec /\ EcallsNameNoRegister /\ [](~JalrToZero) /\ [](~LoadOvertakes) => ImplementsSequentialMachine
<1>1. Init /\ EcallsNameNoRegister => /\ PathInv /\ LoadsHaveWaited /\ DataInv
              /\ Arch!StartsAt(Programs, InitialMemory, EntryPoint, StackPointer)
  BY InitIsOnPath, InitHasWaited, InitIsRight, InitRefines
<1>2. PipelineInv /\ OrderInv /\ PathInv /\ ~JalrToZero /\ [Next]_vars => PathInv'
  BY PathPreserved
<1>3. PipelineInv /\ PipelineInv' /\ LoadsHaveWaited /\ ~LoadOvertakes /\ [Next]_vars
        => LoadsHaveWaited'
  BY WaitedPreserved
<1>4. PipelineInv /\ PipelineInv' /\ OrderInv /\ OrderInv' /\ DataInv /\
      LoadsHaveWaited' /\ [Next]_vars
        => DataInv'
  BY DataPreserved
<1>5. PipelineInv /\ PipelineInv' /\ OrderInv /\ OrderInv' /\ DataInv /\ DataInv' /\
      PathInv /\ [Next]_vars
        => [Arch!Step]_<<code, mem, ArchPc, ArchGpr, ArchStatus>>
  BY StepRefines DEF Stutters
<1>6. Spec /\ EcallsNameNoRegister => [](PipelineInv /\ OrderInv)
  BY PTL, OrderHolds
<1> QED BY <1>1, <1>2, <1>3, <1>4, <1>5, <1>6, PTL
        DEF Spec, ImplementsSequentialMachine, Arch!Steps, Arch!archVars

-----------------------------------------------------------------------------
(* Panics                                                                  *)

LEMMA SameFailures == \A g : Arch!SyscallFails(g) <=> SyscallFails(g)
<1>1. \A g : Arch!KindOf(g) = KindOf(g)
  BY DEF Arch!KindOf, KindOf
<1>2. \A g : Arch!RecordAddress(g) = RecordAddress(g)
  BY <1>1 DEF Arch!RecordAddress, RecordAddress
<1> QED BY <1>1, <1>2, SameVocabulary DEF Arch!SyscallFails, SyscallFails

(* What keeps the sequential machine from executing the instruction of e.  *)
LEMMA EntryFaults ==
  ASSUME NEW e, AtEntry(e),
         NEW f, f = e.inst.function, NEW a, a = AddressOf(e, gpr),
         \/ UsesLoadBuffer(e.inst) /\ ~Readable(a, AccessSize(f))
         \/ IsStoring(e.inst) /\ ~WriteFits(a, AccessSize(f))
         \/ /\ UsesLoadBuffer(e.inst) /\ IsStoring(e.inst)
            /\ AmoPanics(f, LoadValue(mem, f, a), gpr[OrZero(e.inst.rs2)])
         \/ /\ e.inst.opcode \notin {"Load", "Store", "Amo"}
            /\ AluPanics(f, LeftOf(e, gpr), RightOf(e, gpr))
         \/ IsEcall(e) /\ SyscallFails(gpr)
  PROVE  Arch!MayFault
<1>1. /\ Arch!Inst = e.inst /\ ArchGpr = gpr
      /\ Arch!MemAddr = a /\ Arch!Size = AccessSize(f) /\ Arch!Rs2 = gpr[OrZero(e.inst.rs2)]
      /\ Arch!ReadsMemory <=> UsesLoadBuffer(e.inst)
      /\ Arch!Computes <=> e.inst.opcode \notin {"Load", "Store", "Amo"}
  BY ArchReads DEF AtEntry
<1>2. /\ Arch!IsStoring(Arch!Inst) <=> IsStoring(e.inst)
      /\ Arch!Readable(Arch!MemAddr, Arch!Size) <=> Readable(a, AccessSize(f))
      /\ Arch!WriteFits(Arch!MemAddr, Arch!Size) <=> WriteFits(a, AccessSize(f))
      /\ Arch!LoadValue(mem, Arch!Inst.function, Arch!MemAddr) = LoadValue(mem, f, a)
  BY <1>1, SameVocabulary
<1>3. CASE e.inst.opcode \notin {"Load", "Store", "Amo"} /\ AluPanics(f, LeftOf(e, gpr), RightOf(e, gpr))
  BY <1>1, <1>3, ArchOperands DEF Arch!MayFault, Arch!Faulting
<1>4. CASE IsEcall(e) /\ SyscallFails(gpr)
  BY <1>1, <1>4, SameFailures DEF Arch!MayFault, IsEcall
<1>5. CASE UsesLoadBuffer(e.inst) /\ ~Readable(a, AccessSize(f))
  BY <1>1, <1>2, <1>5 DEF Arch!MayFault, Arch!Faulting
<1>6. CASE IsStoring(e.inst) /\ ~WriteFits(a, AccessSize(f))
  BY <1>1, <1>2, <1>6 DEF Arch!MayFault, Arch!Faulting
<1>7. CASE /\ UsesLoadBuffer(e.inst) /\ IsStoring(e.inst)
           /\ AmoPanics(f, LoadValue(mem, f, a), gpr[OrZero(e.inst.rs2)])
  BY <1>1, <1>2, <1>7 DEF Arch!MayFault, Arch!Faulting
<1> QED BY <1>3, <1>4, <1>5, <1>6, <1>7

(* A panic of retire: a load that failed, or a system call.                *)
LEMMA RetirePanicIsReal ==
  ASSUME PipelineInv, OrderInv, DataInv, RetirePanics
  PROVE  Arch!MayFault
<1> DEFINE e == Current.e
           P == Pending
<1>1. /\ Retiring
      /\ e.mem_exception = "Err" \/ (IsEcall(e) /\ SyscallFails(gpr))
  BY DEF RetirePanics
<1>2. /\ 1 \in InFlight /\ Pending[1] = Current
      /\ e \in ReorderBufferEntry /\ e.inst \in Instruction /\ IsCompleted(e)
      /\ ~HasStored(e) => AtEntry(e)
      /\ IsValue(e.addr) => e.addr.val = AddressOf(e, gpr)
  BY <1>1, OldestRetires
<1>3. Current.node \notin DOMAIN load_buf
  BY <1>1, CurrentIsFree DEF Producing
<1>4. DataAt(P, gpr, station, addresses, load_buf, mem, 1) /\ P[1] = Current
  BY <1>2 DEF DataInv, ValuesAreRight
<1>5. CASE e.mem_exception = "Err"
  <2>1. ~HasStored(e)
    BY <1>5 DEF HasStored
  <2>2. UsesLoadBuffer(e.inst) /\ e.reg_value # NULL
    BY <1>4, <1>5 DEF DataAt, StoreIsOldest
  <2>3. IsValue(e.addr) /\ ~InAddressSpace(e.addr.val)
    <3> HIDE DEF P
    <3> QED BY <1>3, <1>4, <1>5, <2>1, <2>2, OldestHasRead
  <2> HIDE DEF e
  <2> QED BY <1>2, <2>1, <2>2, <2>3, EntryFaults DEF Readable
<1>6. CASE IsEcall(e) /\ SyscallFails(gpr)
  <2>1. e.inst.opcode = "System"
    BY <1>2, <1>6, OpcodesOf DEF IsEcall
  <2>2. ~HasStored(e)
    BY <2>1 DEF HasStored, IsStoring
  <2> HIDE DEF e
  <2> QED BY <1>2, <1>6, <2>2, EntryFaults
<1> QED BY <1>1, <1>5, <1>6

(* The head of the list in execute.                                        *)
LEMMA HeadIsOldest ==
  ASSUME PipelineInv, OrderInv, DataInv, At("execute"), buf # <<>>
  PROVE  LET n == buf[1]
             e == entry[n]
             a == AddressedEntries[n]
         IN  /\ 1 \in Listed /\ n \in DOMAIN entry /\ Head(buf) = n
             /\ e \in ReorderBufferEntry /\ e.inst \in Instruction /\ AtEntry(e)
             /\ DataAt(Pending, gpr, station, addresses, load_buf, mem, 1)
             /\ Pending[1].node = n /\ Pending[1].e = e
             /\ a \in ReorderBufferEntry /\ a.inst = e.inst /\ a.mem_value = e.mem_value
             /\ IsValue(a.addr) => a.addr.val = AddressOf(e, gpr)
<1> DEFINE n == buf[1]
           e == entry[n]
           a == AddressedEntries[n]
           P == Pending
<1>1. stage = "execute" /\ status = "running"
  BY DEF At
<1>2. PendingIsList
  BY <1>1, ListNow
<1>3. 1 \in Listed /\ 1 \in InFlight /\ Head(buf) = n
  BY <1>2, ListFacts DEF Listed, InFlight, PendingIsList
<1>4. /\ n \in DOMAIN entry /\ e \in ReorderBufferEntry /\ e.inst \in Instruction
      /\ Pending[1].node = n /\ Pending[1].e = e
  BY <1>2, <1>3, ListFacts DEF PendingIsList, Listed
<1>5. AtEntry(e)
  <2>1. ~HasStored(e)
    BY <1>1, <1>3 DEF DataInv, StoresLeave, Ith
  <2>2. e.pc \in DOMAIN code /\ e.inst = FetchedAt(e.pc) /\ e.rd = OrZero(e.inst.rd)
    BY <1>3, <1>4 DEF DataInv, TextIsFetched, PendingAt
  <2>3. ArchPc = e.pc /\ ArchGpr = gpr
    <3>1. Len(Pending) # 0
      BY <1>2, <1>3 DEF Listed, PendingIsList
    <3> QED BY <1>4, <2>1, <3>1, ArchNow DEF ArchIs
  <2>4. ArchStatus = "running"
    BY <1>1, RunsYet
  <2>5. gpr \in [Regs -> Word]
    BY DEF PipelineInv, TypeOK
  <2> HIDE DEF e
  <2> QED BY <1>4, <2>2, <2>3, <2>4, <2>5 DEF AtEntry
<1>6. DataAt(P, gpr, station, addresses, load_buf, mem, 1) /\ P[1].node = n /\ P[1].e = e
  BY <1>3, <1>4 DEF DataInv, ValuesAreRight
<1>7. a = IF n \in ReadyAddresses(addresses)
          THEN [e EXCEPT !.addr = Value(Address(addresses[n]))] ELSE e
  BY <1>4 DEF AddressedEntries, EntriesAddressed
<1>8. SameButMemory(a, e)
  BY <1>4, AddressedFacts DEF PipelineInv
<1> HIDE DEF P
<1>9. CASE n \in ReadyAddresses(addresses)
  <2>1. /\ n \in DOMAIN addresses /\ IsValue(addresses[n].op1)
        /\ addresses[n] \in AddressEntry
    BY <1>9 DEF ReadyAddresses, PipelineInv, TypeOK
  <2>2. addresses[n].op1.val \in Word /\ e.inst.opcode # "Amo"
    BY <2>1, OperandFacts DEF AddressEntry, PipelineInv, AddressesAreMissing, UsesAddressUnit
  <2>3. AddressHolds(P, gpr, 1, addresses[n])
    BY <1>6, <2>1 DEF DataAt, AddressIsAimed
  <2>4. Aims(P, gpr, 1, Address(addresses[n]))
    BY <1>6, <2>1, <2>2, <2>3, AddressAims
  <2>5. Address(addresses[n]) = AddressOf(e, gpr)
    BY <1>6, <2>4, OldestSees DEF Aims, AddressOf
  <2> HIDE DEF n, e
  <2>6. /\ a.inst = e.inst /\ a.mem_value = e.mem_value
        /\ a.addr = Value(Address(addresses[n]))
    BY <1>4, <1>7, <1>9 DEF ReorderBufferEntry
  <2>7. a \in ReorderBufferEntry /\ a.addr.val = AddressOf(e, gpr)
    BY <1>8, <2>5, <2>6 DEF SameButMemory, Value
  <2> HIDE DEF a
  <2> QED BY <1>3, <1>4, <1>5, <1>6, <2>6, <2>7 DEF P, n, e, a
<1>10. CASE n \notin ReadyAddresses(addresses)
  <2>1. IsValue(e.addr) => e.addr.val = AddressOf(e, gpr)
    BY <1>6, OldestIsRight
  <2> HIDE DEF e
  <2> QED BY <1>3, <1>4, <1>5, <1>6, <1>7, <1>10, <2>1 DEF P, e
<1> QED BY <1>9, <1>10

(* Its load ends, and the read or the arithmetic of an atomic panics.      *)
LEMMA LoadPanicIsReal ==
  ASSUME PipelineInv, OrderInv, DataInv, At("execute"), buf # <<>>,
         buf[1] \in EndingLoads(load_buf, buf, AddressedEntries),
         LoadPanics(AddressedEntries[buf[1]], mem)
  PROVE  Arch!MayFault
<1> DEFINE n == buf[1]
           e == entry[n]
           a == AddressedEntries[n]
           P == Pending
           f == e.inst.function
<1>1. /\ e.inst \in Instruction /\ AtEntry(e)
      /\ DataAt(P, gpr, station, addresses, load_buf, mem, 1) /\ P[1].node = n /\ P[1].e = e
      /\ a.inst = e.inst /\ a.mem_value = e.mem_value
      /\ IsValue(a.addr) => a.addr.val = AddressOf(e, gpr)
  BY HeadIsOldest
<1>2. /\ n \in DOMAIN load_buf /\ load_buf[n].status # "Finished"
      /\ IsValue(a.addr)
      /\ a.inst.opcode = "Amo" => IsValue(a.mem_value)
  <2>1. n \in ReadyLoads(load_buf, buf, AddressedEntries)
    BY DEF EndingLoads
  <2> QED BY <2>1, ReadyLoadFacts
<1>3. UsesLoadBuffer(e.inst)
  BY <1>2 DEF PipelineInv, ProducersAreUnfinished
<1>4. ~IsLoaded(P[1], load_buf)
  BY <1>1, <1>2 DEF IsLoaded
<1>5. /\ InAddressSpace(a.addr.val)
      /\ \/ ~SliceFits(a.addr.val, AccessSize(f))
         \/ /\ e.inst.opcode = "Amo" /\ f # "Lrw"
            /\ AmoPanics(f, LoadValue(mem, f, a.addr.val), a.mem_value.val)
  BY <1>1 DEF LoadPanics, LoadResult
<1> HIDE DEF P, a
<1>6. CASE ~SliceFits(a.addr.val, AccessSize(f))
  <2>1. ~Readable(AddressOf(e, gpr), AccessSize(f))
    BY <1>1, <1>2, <1>6 DEF Readable
  <2> HIDE DEF e
  <2> QED BY <1>1, <1>3, <2>1, EntryFaults
<1>7. CASE /\ e.inst.opcode = "Amo" /\ f # "Lrw"
           /\ AmoPanics(f, LoadValue(mem, f, a.addr.val), a.mem_value.val)
  <2>1. Carries(P, gpr, 1, OrZero(e.inst.rs2), e.mem_value)
    BY <1>1, <1>4, <1>7 DEF DataAt, StoreIsRight
  <2>2. a.mem_value.val = gpr[OrZero(e.inst.rs2)]
    BY <1>1, <1>2, <1>7, <2>1, OldestSees DEF Carries
  <2>3. IsStoring(e.inst)
    BY <1>7 DEF IsStoring
  <2>4. AmoPanics(f, LoadValue(mem, f, AddressOf(e, gpr)), gpr[OrZero(e.inst.rs2)])
    BY <1>1, <1>2, <1>7, <2>2
  <2> HIDE DEF e
  <2> QED BY <1>1, <1>3, <2>3, <2>4, EntryFaults
<1> QED BY <1>5, <1>6, <1>7

(* It stores where it may not.                                             *)
LEMMA StorePanicIsReal ==
  ASSUME PipelineInv, OrderInv, DataInv, At("execute"), HeadStores, ~StoreFits(HeadEntry)
  PROVE  Arch!MayFault
<1> DEFINE n == buf[1]
           e == entry[n]
           a == AddressedEntries[n]
           h == HeadEntry
<1>1. buf # <<>> /\ StoreReady(h)
  BY DEF HeadStores
<1>2. /\ n \in DOMAIN entry /\ Head(buf) = n /\ AtEntry(e)
      /\ a \in ReorderBufferEntry /\ a.inst = e.inst
      /\ IsValue(a.addr) => a.addr.val = AddressOf(e, gpr)
  BY <1>1, HeadIsOldest
<1>3. \/ h = AfterAtomicLoad(a, mem)
      \/ h = [a EXCEPT !.mem_rem_cycle = a.mem_rem_cycle - 1]
      \/ h = a
  <2>1. n \in DOMAIN AddressedEntries
    BY <1>2, AddressedFacts DEF PipelineInv
  <2> QED BY <1>2, <2>1 DEF HeadEntry, LoadedEntries, EntriesLoaded
<1> HIDE DEF h, a
<1>4. h.addr = a.addr /\ h.inst = a.inst
  BY <1>2, <1>3 DEF AfterAtomicLoad, ReorderBufferEntry
<1>5. /\ IsStoring(e.inst) /\ IsValue(h.addr)
      /\ ~WriteFits(h.addr.val, AccessSize(e.inst.function))
  BY <1>1, <1>2, <1>4 DEF StoreReady, StoreFits, h
<1>6. ~WriteFits(AddressOf(e, gpr), AccessSize(e.inst.function))
  BY <1>2, <1>4, <1>5
<1> HIDE DEF e
<1> QED BY <1>2, <1>5, <1>6, EntryFaults

(* Its unit ends, and the arithmetic panics.                               *)
LEMMA UnitPanicIsReal ==
  ASSUME PipelineInv, OrderInv, DataInv, At("execute"), buf # <<>>,
         buf[1] \in DOMAIN station, UnitPanics(station[buf[1]])
  PROVE  Arch!MayFault
<1> DEFINE n == buf[1]
           e == entry[n]
           s == station[n]
           P == Pending
           f == e.inst.function
<1>1. /\ AtEntry(e) /\ P[1].node = n /\ P[1].e = e
      /\ DataAt(P, gpr, station, addresses, load_buf, mem, 1)
  BY HeadIsOldest
<1>2. UsesStation(e.inst)
  BY DEF PipelineInv, ProducersAreUnfinished
<1>3. IsValue(s.op1) /\ IsValue(s.op2) /\ AluPanics(s.function, s.op1.val, s.op2.val)
  BY DEF UnitPanics, Ending, Ready
<1> HIDE DEF P
<1>4. StationHolds(P, gpr, 1, s)
  BY <1>1 DEF DataAt, ResultIsComputed
<1>5. s.function = f /\ LeftIs(P, gpr, 1, s.op1.val) /\ RightIs(P, gpr, 1, s.op2.val)
  BY <1>1, <1>3, <1>4, CarriedIsRight DEF StationHolds
<1>6. s.op1.val = LeftOf(e, gpr) /\ s.op2.val = RightOf(e, gpr)
  BY <1>1, <1>5, OldestSees DEF LeftIs, RightIs, LeftOf, RightOf
<1>7. AluPanics(f, LeftOf(e, gpr), RightOf(e, gpr))
  BY <1>3, <1>5, <1>6
<1>8. e.inst.opcode \notin {"Load", "Store", "Amo"}
  <2>1. e.inst.opcode = "Amo" => /\ f = "Scw" /\ LeftOf(e, gpr) = 0 /\ RightOf(e, gpr) = 0
    BY <1>2 DEF UsesStation, LeftOf, RightOf, ReadsLeft, ReadsRight, FixedLeft, FixedRight
  <2> QED BY <1>2, <1>7, <2>1, UnitAssumption DEF UsesStation
<1> HIDE DEF e
<1> QED BY <1>1, <1>7, <1>8, EntryFaults

LEMMA ExecutePanicIsReal ==
  ASSUME PipelineInv, OrderInv, DataInv, ExecutePanics, ~PanicsAhead
  PROVE  Arch!MayFault
<1>1. At("execute") /\ ExecutePanicking
  BY DEF ExecutePanics
<1>2. ASSUME NEW n \in DOMAIN entry
      PROVE  buf # <<>> /\ \E i \in Listed : buf[i] = n
  <2>1. PICK i \in 1 .. Len(buf) : buf[i] = n
    BY ListFacts
  <2>2. buf # <<>>
    BY <2>1
  <2> QED BY <2>1, <2>2 DEF Listed
<1>3. CASE \E n \in EndingLoads(load_buf, buf, AddressedEntries) :
             LoadPanics(AddressedEntries[n], mem)
  <2>1. PICK n \in EndingLoads(load_buf, buf, AddressedEntries) :
          LoadPanics(AddressedEntries[n], mem)
    BY <1>3
  <2>2. n \in DOMAIN entry
    BY ReadyLoadFacts DEF EndingLoads
  <2>3. PICK i \in Listed : buf # <<>> /\ buf[i] = n
    BY <1>2, <2>2
  <2>4. i = 1
    BY <1>1, <2>1, <2>3 DEF PanicsAhead
  <2> QED BY <1>1, <2>1, <2>3, <2>4, LoadPanicIsReal
<1>4. CASE HeadStores /\ ~StoreFits(HeadEntry)
  BY <1>1, <1>4, StorePanicIsReal
<1>5. CASE StationPanics(station)
  <2>1. PICK n \in DOMAIN station : UnitPanics(station[n])
    BY <1>5 DEF StationPanics
  <2>2. n \in DOMAIN entry
    BY DEF PipelineInv, ProducersAreUnfinished, Producing
  <2>3. PICK i \in Listed : buf # <<>> /\ buf[i] = n
    BY <1>2, <2>2
  <2>4. i = 1
    BY <1>1, <2>1, <2>3 DEF PanicsAhead
  <2> QED BY <1>1, <2>1, <2>3, <2>4, UnitPanicIsReal
<1> QED BY <1>1, <1>3, <1>4, <1>5 DEF ExecutePanicking

(* The fetch leaves the text with nothing in flight before it.             *)
LEMMA IssuePanicIsReal ==
  ASSUME PipelineInv, OrderInv, IssuePanics, ~PanicsAhead
  PROVE  Arch!MayFault
<1>1. stage # "retire" /\ pc \notin DOMAIN code /\ buf = <<>>
  BY DEF IssuePanics, Fetching, At, PanicsAhead
<1>2. Len(Pending) = 0
  BY <1>1, ListNow DEF PendingIsList
<1>3. ArchPc = pc
  BY <1>2, ArchNow DEF ArchIs
<1> QED BY <1>1, <1>3 DEF Arch!MayFault, Arch!Faulting

LEMMA FaultStays ==
  ASSUME Stutters, Arch!MayFault PROVE Arch!MayFault'
<1>1. UNCHANGED <<code, mem, ArchPc, ArchGpr>>
  BY DEF Stutters
<1>2. Arch!Inst' = Arch!Inst
  BY <1>1 DEF Arch!Inst
<1>3. UNCHANGED <<Arch!Rs1, Arch!Rs2, Arch!Imm>>
  BY <1>1, <1>2 DEF Arch!Rs1, Arch!Rs2, Arch!Imm
<1>4. UNCHANGED <<Arch!MemAddr, Arch!Size, Arch!LeftOperand, Arch!RightOperand>>
  BY <1>1, <1>2, <1>3
     DEF Arch!MemAddr, Arch!Size, Arch!LeftOperand, Arch!RightOperand
<1>5. (Arch!ReadsMemory' <=> Arch!ReadsMemory) /\ (Arch!Computes' <=> Arch!Computes)
  BY <1>2 DEF Arch!ReadsMemory, Arch!Computes
<1>6. Arch!Faulting' <=> Arch!Faulting
  BY <1>1, <1>2, <1>3, <1>4, <1>5 DEF Arch!Faulting
<1> QED BY <1>1, <1>2, <1>6 DEF Arch!MayFault

LEMMA PanicStepIsReal ==
  ASSUME PipelineInv, PipelineInv', OrderInv, DataInv, PanicsAreReal, ~PanicsAhead, [Next]_vars
  PROVE  PanicsAreReal'
<1> SUFFICES ASSUME status' = "panicked" PROVE Arch!MayFault'
  BY DEF PanicsAreReal
<1>1. CASE RetirePanics \/ ExecutePanics \/ IssuePanics
  BY <1>1, RetirePanicIsReal, ExecutePanicIsReal, IssuePanicIsReal, QuietStutters, FaultStays
<1>2. CASE Ended \/ UNCHANGED vars
  <2>1. status = "panicked"
    BY <1>2 DEF Ended, vars
  <2> QED BY <1>2, <2>1, QuietStutters, FaultStays DEF PanicsAreReal
<1>3. CASE ~(RetirePanics \/ ExecutePanics \/ IssuePanics \/ Ended \/ UNCHANGED vars)
  <2>1. status' = "finished" \/ (status' = status /\ status = "running")
    BY <1>3 DEF Next, Retire, PopCompleted, RetirePredicted, RetireMispredicted, RetireEcall,
                RetireValue, CommitDone, WriteResult, Execute, IssueStalls, Issue, Fetching,
                Retiring, At
  <2> QED BY <2>1
<1> QED BY <1>1, <1>2, <1>3

(* The process panics only where the sequential machine cannot execute its *)
(* next instruction: a fault recorded in an entry is raised when the entry *)
(* retires and dropped with one that does not, a store traps as the oldest *)
(* instruction, and the oldest instruction computes on what the sequential *)
(* machine has.  The condition is that no other instruction panics on the  *)
(* spot, which the code does not exclude: alu, the slices of memory.rs and *)
(* the fetch do not know whether they are on the path that will be taken.  *)
THEOREM OldestPanicsAreReal ==
  Spec /\ EcallsNameNoRegister /\ [](~LoadOvertakes) /\ [](~PanicsAhead) => []PanicsAreReal
<1>1. Init => PanicsAreReal
  BY DEF Init, PanicsAreReal
<1>2. PipelineInv /\ PipelineInv' /\ OrderInv /\ DataInv /\ PanicsAreReal /\ ~PanicsAhead
      /\ [Next]_vars => PanicsAreReal'
  BY PanicStepIsReal
<1>3. Spec /\ EcallsNameNoRegister => [](PipelineInv /\ OrderInv)
  BY OrderHolds, PTL
<1>4. Spec /\ EcallsNameNoRegister /\ [](~LoadOvertakes) => []DataInv
  BY ValuesInFlightAreRight
<1> QED BY <1>1, <1>2, <1>3, <1>4, PTL DEF Spec
=============================================================================
