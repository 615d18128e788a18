--------------------------- MODULE PipelineProofs ----------------------------
(***************************************************************************)
(* Proofs that PipelineInv is inductive, and what follows from it.         *)
(***************************************************************************)
EXTENDS PipelineInvariant, SequenceTheorems, TLAPS

-----------------------------------------------------------------------------
(* Words and instructions                                                  *)

LEMMA WordFacts ==
  /\ WordMod \in Nat \ {0}
  /\ 0 \in Word /\ 1 \in Word
  /\ Word \subseteq Int
  /\ NULL \notin Word
  /\ \A a \in Int : a % WordMod \in Word
BY SizeAssumption, NullAssumption DEF Word

LEMMA WrapAddType == \A a, b \in Int : WrapAdd(a, b) \in Word
BY WordFacts DEF WrapAdd

LEMMA NextPcType == \A p \in Word : NextPc(p) \in Word
BY WordFacts, WrapAddType, SizeAssumption DEF NextPc

LEMMA RegFacts == 0 \in Regs /\ 2 \in Regs /\ NULL \notin Regs
BY SizeAssumption, NullAssumption DEF Regs

(* The fields of a decoded instruction that the pipeline relies on.        *)
LEMMA InstructionFields ==
  ASSUME NEW inst \in Instruction
  PROVE  /\ inst.opcode \in Opcode /\ inst.function \in Function
         /\ OrZero(inst.rd) \in Regs /\ OrZero(inst.rs1) \in Regs
         /\ OrZero(inst.imm) \in Word
         /\ inst.rs2 # NULL => inst.rs2 \in Regs
         /\ inst.opcode \in {"Store", "Load", "Jalr", "Amo"} => inst.rs1 \in Regs
         /\ inst.opcode \in {"Store", "Amo"} => inst.rs2 \in Regs
         /\ inst.opcode \in {"Branch", "Jal", "AuiPc", "Lui"} => inst.imm \in Word
         /\ inst.opcode \in {"Store", "Branch"} => inst.rd = NULL
         /\ inst.function \in FunctionsOf(inst.opcode)
<1>1. /\ inst \in [opcode : Opcode, function : Function, rd : Regs \cup {NULL},
                   rs1 : Regs \cup {NULL}, rs2 : Regs \cup {NULL}, imm : Word \cup {NULL}]
      /\ Decoded(inst)
  BY DEF Instruction
<1>2. /\ OrZero(inst.rd) \in Regs /\ OrZero(inst.rs1) \in Regs
      /\ OrZero(inst.imm) \in Word
  BY <1>1, RegFacts, WordFacts DEF OrZero
<1>3. /\ FormatOf("Store") = "S" /\ FormatOf("Load") = "I" /\ FormatOf("Jalr") = "I"
      /\ FormatOf("Amo") = "R4" /\ FormatOf("Branch") = "B" /\ FormatOf("Jal") = "J"
      /\ FormatOf("AuiPc") = "U" /\ FormatOf("Lui") = "U" /\ FormatOf("System") = "I"
  BY DEF FormatOf, FpOpcodes
<1>4. /\ HasRs1("S") /\ HasRs1("I") /\ HasRs1("R4") /\ HasRs2("S") /\ HasRs2("R4")
      /\ HasImm("B") /\ HasImm("J") /\ HasImm("U") /\ ~HasRd("S") /\ ~HasRd("B")
  BY DEF HasRs1, HasRs2, HasImm, HasRd
<1> QED BY <1>1, <1>2, <1>3, <1>4 DEF Decoded

LEMMA NopIsInstruction == Nop \in Instruction
<1>1. /\ FormatOf("OpImm") = "I" /\ HasRd("I") /\ HasRs1("I") /\ ~HasRs2("I") /\ HasImm("I")
  BY DEF FormatOf, FpOpcodes, HasRd, HasRs1, HasRs2, HasImm
<1>2. "Addi" \in FunctionsOf("OpImm") /\ "OpImm" \in Opcode /\ "Addi" \in Function
  <2>1. "Addi" \in FunctionsOf("OpImm")
    BY DEF FunctionsOf, FpOpcodes
  <2>2. "OpImm" \in Opcode
    BY DEF Opcode
  <2> QED BY <2>1, <2>2 DEF Function
<1>3. Decoded(Nop)
  BY <1>1, <1>2, WordFacts, RegFacts DEF Decoded, Nop
<1> QED BY <1>2, <1>3, WordFacts, RegFacts DEF Instruction, Nop

(* The text is never written: no ecall comes to name a register. *)
LEMMA TextIsKept ==
  ASSUME PipelineInv, code' = code PROVE EcallsNameNoRegister'
BY DEF PipelineInv, EcallsNameNoRegister

LEMMA FetchedEcall ==
  ASSUME EcallsNameNoRegister, pc \in DOMAIN code, Fetched.function = "Ecall" PROVE Fetched.rd = 0
BY DEF EcallsNameNoRegister, Fetched, Nop

-----------------------------------------------------------------------------
(* Memory                                                                  *)

LEMMA AccessSizeType == \A f : AccessSize(f) \in 1 .. 4
<1> SUFFICES ASSUME NEW f PROVE AccessSize(f) \in 1 .. 4
  OBVIOUS
<1>1. AccessSize(f) \in {1, HalfSize, WordSize}
  BY DEF AccessSize
<1> QED BY <1>1, SizeAssumption

LEMMA WeightType == \A n : Weight(n) \in Nat \ {0}
<1> SUFFICES ASSUME NEW n PROVE Weight(n) \in Nat \ {0}
  OBVIOUS
<1>1. Weight(n) \in {1, ByteMod, ByteMod * ByteMod, ByteMod * ByteMod * ByteMod}
  BY DEF Weight
<1>2. ByteMod \in Nat \ {0}
  BY SizeAssumption
<1>3. \A a, b \in Nat \ {0} : a * b \in Nat \ {0}
  OBVIOUS
<1> QED BY <1>1, <1>2, <1>3

LEMMA ByteOfType == \A v, n \in Int : ByteOf(v, n) \in Byte
<1> SUFFICES ASSUME NEW v \in Int, NEW n \in Int PROVE ByteOf(v, n) \in Byte
  OBVIOUS
<1> DEFINE w == Weight(n)
<1>1. w \in Nat \ {0}
  BY WeightType
<1>2. v \div w \in Int
  BY <1>1
<1> HIDE DEF w
<1>3. (v \div w) % ByteMod \in Byte
  BY <1>2, SizeAssumption DEF Byte
<1> QED BY <1>3 DEF ByteOf, w

(* Stores and the records of system calls keep memory a memory. *)
LEMMA WrittenType ==
  ASSUME NEW m \in Memory, NEW addr \in Int, NEW size, NEW value \in Int
  PROVE  Written(m, addr, size, value) \in Memory
<1>1. \A a \in Mapped : ByteOf(value, a - addr) \in Byte /\ m[a] \in Byte
  BY ByteOfType, RangeAssumption, SizeAssumption DEF Mapped, Memory
<1> QED BY <1>1 DEF Written, Memory

(* A read that stays within its range returns a word. *)
LEMMA LoadValueType ==
  ASSUME NEW m \in Memory, NEW f, NEW addr \in Word,
         InAddressSpace(addr), SliceFits(addr, AccessSize(f))
  PROVE  LoadValue(m, f, addr) \in Word
<1> DEFINE size == AccessSize(f)
<1>1. size \in 1 .. 4
  BY AccessSizeType
<1>2. addr + size <= IF addr < StackStart THEN DataEnd ELSE WordMod
  BY DEF SliceFits
<1>3. addr < DataEnd \/ addr >= StackStart
  BY DEF InAddressSpace
<1> HIDE DEF size
<1>4. ASSUME NEW n \in 0 .. 3, n < size PROVE m[addr + n] * Weight(n) \in Int
  <2>1. addr + n \in Mapped
    BY <1>1, <1>2, <1>3, <1>4, RangeAssumption, SizeAssumption DEF Mapped, Word
  <2>2. m[addr + n] \in Nat
    BY <2>1, SizeAssumption DEF Memory, Byte
  <2>3. Weight(n) \in Nat
    BY WeightType
  <2> QED BY <2>2, <2>3
<1>5. LittleEndian(m, addr, size) \in Int
  <2> DEFINE part(n) == IF n < size THEN m[addr + n] * Weight(n) ELSE 0
  <2>1. part(0) \in Int /\ part(1) \in Int /\ part(2) \in Int /\ part(3) \in Int
    BY <1>4
  <2> HIDE DEF part
  <2>2. part(0) + part(1) + part(2) + part(3) \in Int
    BY <2>1
  <2> QED BY <2>2 DEF LittleEndian, part
<1>6. \A v \in Int : SignExtend(v, size) \in Int
  <2> SUFFICES ASSUME NEW v \in Int PROVE SignExtend(v, size) \in Int
    OBVIOUS
  <2>1. Weight(size - 1) \in Nat /\ ByteMod \in Nat
    BY WeightType, SizeAssumption
  <2>2. Weight(size - 1) * ByteMod \in Int
    BY <2>1
  <2> QED BY <2>2 DEF SignExtend
<1> QED BY <1>5, <1>6, WordFacts DEF LoadValue, size

-----------------------------------------------------------------------------
(* Entries and buffers                                                     *)

LEMMA CompletedFacts ==
  ASSUME NEW e, IsCompleted(e)
  PROVE  /\ e.inst.opcode # "Store" => e.reg_value # NULL
         /\ e.inst.opcode \in {"Store", "Jalr"} => IsValue(e.addr)
BY DEF IsCompleted

LEMMA UnitFacts ==
  ASSUME NEW inst
  PROVE  /\ inst.opcode # "Store" <=> (UsesStation(inst) \/ UsesLoadBuffer(inst))
         /\ ~(UsesStation(inst) /\ UsesLoadBuffer(inst))
BY DEF UsesStation, UsesLoadBuffer

LEMMA TouchedType ==
  ASSUME NEW map, NEW p, map \in [DOMAIN map -> BOOLEAN \X BOOLEAN]
  PROVE  Touched(map, p) \in [DOMAIN Touched(map, p) -> BOOLEAN \X BOOLEAN]
BY DEF Touched

LEMMA UpdateType ==
  ASSUME NEW map, NEW p, NEW taken, map \in [DOMAIN map -> BOOLEAN \X BOOLEAN]
  PROVE  Update(map, p, taken) \in [DOMAIN Update(map, p, taken) -> BOOLEAN \X BOOLEAN]
<1>1. ASSUME NEW bits \in BOOLEAN \X BOOLEAN
      PROVE  Trained(bits, taken) \in BOOLEAN \X BOOLEAN
  <2>1. bits[1] \in BOOLEAN /\ (taken = 1) \in BOOLEAN
    OBVIOUS
  <2> QED BY <2>1 DEF Trained
<1> QED BY <1>1 DEF Update

LEMMA WriteRegType ==
  ASSUME NEW g \in [Regs -> Word], NEW r \in Regs, NEW v \in Word
  PROVE  WriteReg(g, r, v) \in [Regs -> Word]
BY DEF WriteReg

(* The entry commit is retiring. *)
LEMMA CurrentType ==
  ASSUME TypeOK, Retiring
  PROVE  /\ retired + 1 \in 1 .. Len(completed)
         /\ Current \in [node : Nodes, e : ReorderBufferEntry]
         /\ Current.e.inst \in Instruction /\ Current.e.rd \in Regs
         /\ Current.e.pc \in Word /\ Current.e.reg_value \in Word \cup {NULL}
<1>1. retired + 1 \in 1 .. Len(completed)
  BY DEF TypeOK, Retiring
<1>2. Current \in [node : Nodes, e : ReorderBufferEntry]
  <2>1. completed \in Seq([node : Nodes, e : ReorderBufferEntry])
    BY DEF TypeOK
  <2> QED BY <1>1, <2>1, ElementOfSeq DEF Current
<1> QED BY <1>1, <1>2 DEF ReorderBufferEntry

-----------------------------------------------------------------------------
(* The steps that leave the buffers alone                                  *)

LEMMA BuffersUnchanged ==
  ASSUME PipelineInv, UNCHANGED <<robVars, rsVars>>
  PROVE  /\ BufferIsLive' /\ ProducersAreUnfinished' /\ AddressesAreMissing'
         /\ OperandsAreOwed'
<1>1. UNCHANGED <<buf, entry, load_buf, station, addresses>>
  BY DEF robVars, rsVars
<1> QED BY <1>1 DEF PipelineInv, BufferIsLive, ProducersAreUnfinished, Producing,
                    AddressesAreMissing, OperandsAreOwed, Owed

LEMMA InitEstablishes == Init /\ EcallsNameNoRegister => PipelineInv
<1> SUFFICES ASSUME Init, EcallsNameNoRegister PROVE PipelineInv
  OBVIOUS
<1>1. TypeOK
  BY ImageAssumption, WordFacts DEF Init, TypeOK, NoEntries, Stages
<1>2. BufferIsLive
  BY DEF Init, BufferIsLive, NoEntries
<1>3. ProducersAreUnfinished
  BY DEF Init, ProducersAreUnfinished, Producing, NoEntries
<1>4. AddressesAreMissing
  BY DEF Init, AddressesAreMissing, NoEntries
<1>5. RenamesAreWriters
  BY RegFacts DEF Init, RenamesAreWriters
<1>6. OperandsAreOwed
  BY DEF Init, OperandsAreOwed, NoEntries
<1> QED BY <1>1, <1>2, <1>3, <1>4, <1>5, <1>6 DEF PipelineInv

LEMMA PanicStep == ASSUME PipelineInv, Panic PROVE PipelineInv'
<1> USE DEF Panic, regVars, robVars, rsVars, loopVars
<1>1. TypeOK'
  BY DEF PipelineInv, TypeOK
<1>2. RenamesAreWriters'
  BY DEF PipelineInv, RenamesAreWriters, Renames
<1> QED BY <1>1, <1>2, BuffersUnchanged, TextIsKept DEF PipelineInv

LEMMA StutteringStep == ASSUME PipelineInv, UNCHANGED vars PROVE PipelineInv'
<1> USE DEF vars, regVars, robVars, rsVars, loopVars
<1>1. TypeOK'
  BY DEF PipelineInv, TypeOK
<1>2. RenamesAreWriters'
  BY DEF PipelineInv, RenamesAreWriters, Renames
<1> QED BY <1>1, <1>2, BuffersUnchanged, TextIsKept DEF PipelineInv

LEMMA IssueStallsStep == ASSUME PipelineInv, IssueStalls PROVE PipelineInv'
<1> USE DEF IssueStalls, At, regVars, robVars, rsVars, loopVars
<1>1. TypeOK'
  BY DEF PipelineInv, TypeOK, Stages
<1>2. RenamesAreWriters'
  BY DEF PipelineInv, RenamesAreWriters, Renames
<1> QED BY <1>1, <1>2, BuffersUnchanged, TextIsKept DEF PipelineInv

LEMMA CommitDoneStep == ASSUME PipelineInv, CommitDone PROVE PipelineInv'
<1> USE DEF CommitDone, At, regVars, robVars, rsVars
<1>1. TypeOK'
  BY DEF PipelineInv, TypeOK, Stages
<1>2. RenamesAreWriters'
  <2>1. \A node, r : Renames(node, r) => Renames(node, r)'
    BY DEF Renames, PipelineInv, TypeOK
  <2> QED BY <2>1 DEF PipelineInv, RenamesAreWriters
<1> QED BY <1>1, <1>2, BuffersUnchanged, TextIsKept DEF PipelineInv

-----------------------------------------------------------------------------
(* Retirement                                                              *)

(* Retiring an entry that renames nothing keeps the renamings sound.       *)
LEMMA RenamesSurvive ==
  ASSUME PipelineInv, Retiring, entry' = entry, completed' = completed, stage' = stage,
         retired' = retired + 1,
         NEW r \in Regs, NEW node \in Nodes, Renames(node, r),
         ~(/\ Current.node = node
           /\ Writes(Current.e, r)
           /\ Current.e.reg_value # NULL)
  PROVE  Renames(node, r)'
<1>1. CASE node \in DOMAIN entry /\ Writes(entry[node], r)
  BY <1>1 DEF Renames
<1>2. CASE \E k \in retired + 1 .. Len(completed) :
             /\ completed[k].node = node
             /\ Writes(completed[k].e, r)
             /\ completed[k].e.reg_value # NULL
  <2>1. PICK k \in retired + 1 .. Len(completed) :
             /\ completed[k].node = node
             /\ Writes(completed[k].e, r)
             /\ completed[k].e.reg_value # NULL
    BY <1>2
  <2>2. k # retired + 1
    BY <2>1 DEF Current
  <2>3. k \in retired' + 1 .. Len(completed')
    BY <2>2 DEF PipelineInv, TypeOK
  <2>4. stage' = "retire"
    BY DEF Retiring, At
  <2> QED BY <2>1, <2>3, <2>4 DEF Renames
<1> QED BY <1>1, <1>2 DEF Renames

LEMMA RetirePredictedStep == ASSUME PipelineInv, RetirePredicted PROVE PipelineInv'
<1> USE DEF RetirePredicted, regVars, robVars, rsVars
<1>1. TypeOK'
  BY CurrentType, UpdateType DEF PipelineInv, TypeOK
<1>2. RenamesAreWriters'
  <2>1. \A r : ~Writes(Current.e, r)
    BY DEF Writes, IsBranch
  <2> QED BY <2>1, RenamesSurvive DEF PipelineInv, TypeOK, RenamesAreWriters
<1> QED BY <1>1, <1>2, BuffersUnchanged, TextIsKept DEF PipelineInv

LEMMA RetireMispredictedStep == ASSUME PipelineInv, RetireMispredicted PROVE PipelineInv'
<1> USE DEF RetireMispredicted
<1>1. pc' \in Word
  <2>1. Current.e.inst.imm \in Word
    BY CurrentType, InstructionFields DEF PipelineInv, IsBranch
  <2>2. WrapAdd(Current.e.pc, Current.e.inst.imm) \in Word /\ NextPc(Current.e.pc) \in Word
    BY <2>1, CurrentType, WrapAddType, NextPcType, WordFacts DEF PipelineInv
  <2> QED BY <2>2 DEF BranchTarget
<1>2. /\ completed' \in Seq([node : Nodes, e : ReorderBufferEntry])
      /\ retired' \in 0 .. Len(completed')
  <2>1. retired + 1 \in 1 .. Len(completed) /\ retired \in Nat
    BY CurrentType DEF PipelineInv, TypeOK
  <2>2. ASSUME NEW k \in 1 .. retired + 1
        PROVE  completed[k] \in [node : Nodes, e : ReorderBufferEntry]
    <3>1. completed \in Seq([node : Nodes, e : ReorderBufferEntry])
      BY DEF PipelineInv, TypeOK
    <3>2. k \in 1 .. Len(completed)
      BY <2>1, <3>1
    <3> QED BY <3>1, <3>2, ElementOfSeq
  <2>3. /\ SubSeq(completed, 1, retired + 1) \in Seq([node : Nodes, e : ReorderBufferEntry])
        /\ Len(SubSeq(completed, 1, retired + 1)) = retired + 1
    BY <2>1, <2>2, SubSeqProperties
  <2> QED BY <2>1, <2>3 DEF Truncated
<1>3. TypeOK'
  <2>1. branch_map' \in [DOMAIN branch_map' -> BOOLEAN \X BOOLEAN]
    BY UpdateType DEF PipelineInv, TypeOK
  <2> QED BY <1>1, <1>2, <2>1 DEF PipelineInv, TypeOK, NoEntries, RenamesCleared
<1>4. BufferIsLive'
  BY DEF BufferIsLive, NoEntries
<1>5. ProducersAreUnfinished'
  BY DEF ProducersAreUnfinished, Producing, NoEntries
<1>6. AddressesAreMissing'
  BY DEF AddressesAreMissing, NoEntries
<1>7. RenamesAreWriters'
  BY RegFacts DEF RenamesAreWriters, RenamesCleared
<1>8. OperandsAreOwed'
  BY DEF OperandsAreOwed, NoEntries
<1> QED BY <1>3, <1>4, <1>5, <1>6, <1>7, <1>8, TextIsKept DEF PipelineInv

LEMMA RetireEcallStep == ASSUME PipelineInv, RetireEcall PROVE PipelineInv'
<1> USE DEF RetireEcall, robVars, rsVars
<1>1. PICK ret \in Word : /\ SyscallReturns(gpr, mem, ret, mem')
                          /\ gpr' = WriteReg(gpr, SyscallRetReg, ret)
  OBVIOUS
<1>2. gpr' \in [Regs -> Word]
  BY <1>1, WriteRegType, SyscallAssumption DEF PipelineInv, TypeOK
<1>3. mem' \in Memory
  <2>1. CASE mem' = mem
    BY <2>1 DEF PipelineInv, TypeOK
  <2>2. CASE \E data \in HostData : mem' = FillRecord(mem, gpr, data)
    <3>1. PICK data \in HostData : mem' = FillRecord(mem, gpr, data)
      BY <2>2
    <3>2. RecordAddress(gpr) \in Int /\ data \in Int /\ mem \in Memory
      BY SyscallAssumption, WordFacts DEF RecordAddress, PipelineInv, TypeOK
    <3> QED BY <3>1, <3>2, WrittenType DEF FillRecord
  <2>3. CASE \E link \in HostData : mem' = CopyLink(mem, gpr, ret, link)
    <3>1. PICK link \in HostData : mem' = CopyLink(mem, gpr, ret, link)
      BY <2>3
    <3>2. gpr[SyscallArg3Reg] \in Int /\ link \in Int /\ mem \in Memory
      BY SyscallAssumption, WordFacts DEF PipelineInv, TypeOK
    <3> QED BY <3>1, <3>2, WrittenType DEF CopyLink
  <2> QED BY <1>1, <2>1, <2>2, <2>3 DEF SyscallReturns
<1>4. TypeOK'
  BY <1>2, <1>3, CurrentType DEF PipelineInv, TypeOK
<1>5. RenamesAreWriters'
  <2>1. \A r : ~Writes(Current.e, r)
    BY DEF Writes, IsEcall
  <2> QED BY <2>1, RenamesSurvive DEF PipelineInv, TypeOK, RenamesAreWriters
<1> QED BY <1>4, <1>5, BuffersUnchanged, TextIsKept DEF PipelineInv

LEMMA RetireValueStep == ASSUME PipelineInv, RetireValue PROVE PipelineInv'
<1> USE DEF RetireValue, robVars, rsVars
<1>1. CASE Current.e.reg_value = NULL
  <2>1. TypeOK'
    BY <1>1, CurrentType DEF PipelineInv, TypeOK
  <2>2. RenamesAreWriters'
    BY <1>1, RenamesSurvive DEF PipelineInv, TypeOK, RenamesAreWriters
  <2> QED BY <2>1, <2>2, BuffersUnchanged, TextIsKept DEF PipelineInv
<1>2. CASE Current.e.reg_value # NULL
  <2>1. /\ gpr' \in [Regs -> Word]
        /\ related_rob' \in [Regs -> Nodes \cup {NULL}]
    <3>1. Current.e.reg_value \in Word /\ Current.e.rd \in Regs
      BY <1>2, CurrentType DEF PipelineInv
    <3>2. gpr \in [Regs -> Word] /\ related_rob \in [Regs -> Nodes \cup {NULL}]
      BY DEF PipelineInv, TypeOK
    <3>3. gpr' = WriteReg(gpr, Current.e.rd, Current.e.reg_value)
      BY <1>2
    <3>4. related_rob' \in [Regs -> Nodes \cup {NULL}]
      BY <1>2, <3>2 DEF Freed
    <3> QED BY <3>1, <3>2, <3>3, <3>4, WriteRegType
  <2>2. TypeOK'
    BY <2>1, CurrentType DEF PipelineInv, TypeOK
  <2>3. RenamesAreWriters'
    <3>1. \A r \in Regs : \/ related_rob'[r] = related_rob[r]
                          \/ related_rob'[r] = NULL
      BY <1>2 DEF PipelineInv, TypeOK, Freed
    <3>2. ASSUME NEW r \in Regs, related_rob'[r] # NULL
          PROVE  ~(Current.node = related_rob[r] /\ Writes(Current.e, r))
      BY <1>2, <3>2 DEF PipelineInv, TypeOK, Freed, Writes
    <3>3. ASSUME NEW r \in Regs, NEW node \in Nodes,
                 related_rob[r] = node, related_rob'[r] = node
          PROVE  Renames(node, r)'
      <4>1. node # NULL
        BY NullAssumption
      <4>2. Renames(node, r)
        BY <3>3, <4>1 DEF PipelineInv, RenamesAreWriters
      <4> QED BY <3>2, <3>3, <4>1, <4>2, RenamesSurvive
    <3>4. related_rob'[0] = NULL
      BY <3>1, RegFacts DEF PipelineInv, RenamesAreWriters
    <3>5. \A r \in Regs : related_rob'[r] # NULL =>
            related_rob[r] \in Nodes /\ related_rob'[r] = related_rob[r]
      BY <3>1 DEF PipelineInv, TypeOK
    <3> QED BY <3>3, <3>4, <3>5 DEF RenamesAreWriters
  <2> QED BY <2>2, <2>3, BuffersUnchanged, TextIsKept DEF PipelineInv
<1> QED BY <1>1, <1>2

-----------------------------------------------------------------------------
(* commit's first half                                                     *)

(* No unit knows a completed entry, so it can be freed. *)
LEMMA CompletedIsReleased ==
  ASSUME PipelineInv, NEW m \in DOMAIN entry, IsCompleted(entry[m])
  PROVE  m \notin Producing /\ m \notin DOMAIN addresses
<1>1. m \notin Producing
  BY CompletedFacts DEF PipelineInv, ProducersAreUnfinished
<1>2. m \notin DOMAIN addresses
  <2> SUFFICES ASSUME m \in DOMAIN addresses PROVE FALSE
    OBVIOUS
  <2>1. ~IsValue(entry[m].addr) /\ entry[m].inst.opcode \in {"Store", "Load", "Jalr"}
    BY DEF PipelineInv, AddressesAreMissing, NoOperand, IsValue, UsesAddressUnit
  <2>2. entry[m].inst.opcode = "Load"
    BY <2>1, CompletedFacts
  <2>3. m \in Producing
    BY <2>2 DEF PipelineInv, AddressesAreMissing, Producing
  <2> QED BY <1>1, <2>3
<1> QED BY <1>1, <1>2

LEMMA PopCompletedStep == ASSUME PipelineInv, PopCompleted PROVE PipelineInv'
<1>1. PICK n \in 0 .. Len(buf) :
        /\ IsCompletedPrefix(buf, entry, n)
        /\ completed' = [k \in 1 .. n |-> [node |-> buf[k], e |-> entry[buf[k]]]]
        /\ buf' = SubSeq(buf, n + 1, Len(buf))
        /\ entry' = Remove(entry, {buf[k] : k \in 1 .. n})
  BY DEF PopCompleted
<1>2. /\ retired' = 0 /\ stage = "commit" /\ stage' = "retire"
      /\ UNCHANGED <<code, mem, pc, gpr, related_rob, load_buf, station, addresses,
                     branch_map, status>>
  BY DEF PopCompleted, At, regVars, rsVars
<1> DEFINE popped == {buf[k] : k \in 1 .. n}
<1>3. buf \in Seq(Nodes) /\ Len(buf) \in Nat /\ n \in Nat /\ n <= Len(buf)
  BY DEF PipelineInv, TypeOK
<1>4. \A i \in 1 .. Len(buf) : buf[i] \in Nodes /\ buf[i] \in DOMAIN entry
  BY <1>3, ElementOfSeq DEF PipelineInv, BufferIsLive
<1>5. /\ DOMAIN entry' = DOMAIN entry \ popped
      /\ \A m \in DOMAIN entry' : entry'[m] = entry[m]
  BY <1>1 DEF Remove
<1>6. \A k \in 1 .. n : IsCompleted(entry[buf[k]])
  BY <1>1 DEF IsCompletedPrefix
<1>7. \A m \in popped : m \notin Producing /\ m \notin DOMAIN addresses
  BY <1>3, <1>4, <1>6, CompletedIsReleased
<1>8. /\ buf' \in Seq(Nodes)
      /\ Len(buf') = Len(buf) - n
      /\ \A i \in 1 .. Len(buf) - n : buf'[i] = buf[n + i]
  <2>1. n + 1 \in Int /\ Len(buf) \in Int /\ \A i \in n + 1 .. Len(buf) : buf[i] \in Nodes
    BY <1>3, <1>4
  <2>2. /\ buf' \in Seq(Nodes)
        /\ Len(buf') = IF n + 1 <= Len(buf) THEN Len(buf) - (n + 1) + 1 ELSE 0
        /\ \A i \in 1 .. Len(buf) - (n + 1) + 1 : buf'[i] = buf[n + 1 + i - 1]
    BY <2>1, <1>1, SubSeqProperties
  <2>3. \A i \in 1 .. Len(buf) - n : n + 1 + i - 1 = n + i
    BY <1>3
  <2>4. 1 .. Len(buf) - (n + 1) + 1 = 1 .. Len(buf) - n
    BY <1>3
  <2>5. Len(buf') = Len(buf) - n
    BY <2>2, <1>3
  <2> QED BY <2>2, <2>3, <2>4, <2>5
<1> HIDE DEF popped
<1>9. TypeOK'
  <2>1. entry \in [DOMAIN entry -> ReorderBufferEntry] /\ DOMAIN entry \subseteq Nodes
    BY DEF PipelineInv, TypeOK
  <2>2. entry' \in [DOMAIN entry' -> ReorderBufferEntry] /\ DOMAIN entry' \subseteq Nodes
    <3>1. entry' = [m \in DOMAIN entry' |-> entry[m]]
      BY <1>1, <1>5 DEF Remove, popped
    <3> QED BY <2>1, <3>1, <1>5
  <2>3. \A k \in 1 .. n : [node |-> buf[k], e |-> entry[buf[k]]]
                            \in [node : Nodes, e : ReorderBufferEntry]
    BY <1>3, <1>4, <2>1
  <2>4. completed' \in Seq([node : Nodes, e : ReorderBufferEntry]) /\ Len(completed') = n
    BY <1>1, <1>3, <2>3
  <2> QED BY <1>2, <1>3, <1>8, <2>2, <2>4 DEF PipelineInv, TypeOK, Stages
<1>10. BufferIsLive'
  <2>1. \A i, j \in 1 .. Len(buf) : buf[i] = buf[j] => i = j
    BY DEF PipelineInv, BufferIsLive
  <2>2. \A i, j \in 1 .. Len(buf') : buf'[i] = buf'[j] => i = j
    <3> SUFFICES ASSUME NEW i \in 1 .. Len(buf'), NEW j \in 1 .. Len(buf'),
                        buf'[i] = buf'[j]
                 PROVE  i = j
      OBVIOUS
    <3>1. n + i \in 1 .. Len(buf) /\ n + j \in 1 .. Len(buf) /\ buf[n + i] = buf[n + j]
      BY <1>3, <1>8
    <3>2. n + i = n + j
      BY <2>1, <3>1
    <3> QED BY <1>3, <3>2
  <2>3. ASSUME NEW i \in 1 .. Len(buf') PROVE buf'[i] \in DOMAIN entry'
    <3>1. buf'[i] = buf[n + i] /\ n + i \in 1 .. Len(buf) /\ n + i > n
      BY <1>3, <1>8
    <3>2. \A k \in 1 .. n : k \in 1 .. Len(buf) /\ k # n + i
      BY <1>3, <3>1
    <3>3. \A k \in 1 .. n : buf[k] # buf[n + i]
      BY <2>1, <3>1, <3>2
    <3> QED BY <1>4, <1>5, <3>1, <3>3 DEF popped
  <2>4. ASSUME NEW m \in DOMAIN entry' PROVE \E i \in 1 .. Len(buf') : buf'[i] = m
    <3>1. PICK k \in 1 .. Len(buf) : buf[k] = m
      BY <1>5 DEF PipelineInv, BufferIsLive
    <3>2. ~(k \in 1 .. n)
      BY <1>5, <3>1 DEF popped
    <3>3. k - n \in 1 .. Len(buf) - n /\ n + (k - n) = k
      BY <1>3, <3>2
    <3> QED BY <1>8, <3>1, <3>3
  <2> QED BY <2>2, <2>3, <2>4 DEF BufferIsLive
<1>11. ProducersAreUnfinished'
  BY <1>2, <1>5, <1>7 DEF PipelineInv, ProducersAreUnfinished, Producing
<1>12. AddressesAreMissing'
  BY <1>2, <1>5, <1>7 DEF PipelineInv, AddressesAreMissing
<1>13. RenamesAreWriters'
  <2> SUFFICES ASSUME NEW r \in Regs, NEW node \in Nodes, related_rob[r] = node
               PROVE  Renames(node, r)'
    BY <1>2, NullAssumption DEF PipelineInv, TypeOK, RenamesAreWriters
  <2>1. node \in DOMAIN entry /\ Writes(entry[node], r)
    BY <1>2, NullAssumption DEF PipelineInv, RenamesAreWriters, Renames
  <2>2. CASE node \in popped
    <3>1. PICK k \in 1 .. n : buf[k] = node
      BY <2>2 DEF popped
    <3>2. entry[node].reg_value # NULL
      BY <1>6, <2>1, <3>1, CompletedFacts DEF Writes
    <3>3. completed'[k] = [node |-> node, e |-> entry[node]]
      BY <1>1, <3>1
    <3>4. k \in retired' + 1 .. Len(completed')
      BY <1>1, <1>2, <1>3
    <3> QED BY <1>2, <2>1, <3>2, <3>3, <3>4 DEF Renames
  <2>3. CASE node \notin popped
    BY <1>5, <2>1, <2>3 DEF Renames
  <2> QED BY <2>2, <2>3
<1>14. OperandsAreOwed'
  BY <1>2, <1>5 DEF PipelineInv, OperandsAreOwed, Owed, Producing
<1>20. EcallsNameNoRegister'
  BY <1>2, TextIsKept
<1> QED BY <1>9, <1>10, <1>11, <1>12, <1>13, <1>14, <1>20 DEF PipelineInv

-----------------------------------------------------------------------------
(* write_result                                                            *)

(* What the finished jobs are. *)
LEMMA JobFacts ==
  ASSUME PipelineInv
  PROVE  LET jobs == CompletedJobs(load_buf, station) IN
         /\ jobs \in [DOMAIN jobs -> FinishedCalc]
         /\ DOMAIN jobs \subseteq Producing
         /\ \A n \in DOMAIN jobs :
              \/ n \in DOMAIN station
              \/ n \in DOMAIN load_buf /\ load_buf[n].status = "Finished"
<1>1. \A n \in DOMAIN load_buf : load_buf[n].value \in Word \cup {NULL}
  BY DEF PipelineInv, TypeOK, LoadBufferEntry
<1>2. FinishedLoads(load_buf) \in [DOMAIN FinishedLoads(load_buf) -> FinishedCalc]
  BY <1>1, WordFacts DEF FinishedLoads, FinishedCalc, OrZero
<1>3. \A n \in DOMAIN FinishedLoads(load_buf) :
        n \in DOMAIN load_buf /\ load_buf[n].status = "Finished"
  BY DEF FinishedLoads
<1>4. \A n \in DOMAIN station : station[n].value \in Word
  BY DEF PipelineInv, TypeOK, RSEntry
<1>5. FinishedStation(station) \in [DOMAIN FinishedStation(station) -> FinishedCalc]
  BY <1>4 DEF FinishedStation, FinishedCalc
<1>6. \A n \in DOMAIN FinishedStation(station) : n \in DOMAIN station
  BY DEF FinishedStation
<1> QED BY <1>2, <1>3, <1>5, <1>6 DEF CompletedJobs, Producing

LEMMA ResolveFacts ==
  ASSUME NEW jobs, jobs \in [DOMAIN jobs -> FinishedCalc], NEW op \in Operand
  PROVE  /\ Resolve(op, jobs) \in Operand
         /\ Resolve(op, jobs).tag = "Rob" =>
              Resolve(op, jobs) = op /\ op.idx \notin DOMAIN jobs
         /\ op.tag # "None" => Resolve(op, jobs).tag # "None"
         /\ op = NoOperand => Resolve(op, jobs) = NoOperand
<1>1. CASE op.tag = "Rob" /\ op.idx \in DOMAIN jobs
  <2>1. Resolve(op, jobs) = Value(jobs[op.idx].reg_value)
    BY <1>1 DEF Resolve
  <2>2. jobs[op.idx].reg_value \in Word
    BY <1>1 DEF FinishedCalc
  <2>3. op # NoOperand
    BY <1>1 DEF NoOperand
  <2>4. Value(jobs[op.idx].reg_value) \in Operand /\ Value(jobs[op.idx].reg_value).tag = "Value"
    BY <2>2 DEF Value, Operand
  <2> QED BY <2>1, <2>3, <2>4
<1>2. CASE ~(op.tag = "Rob" /\ op.idx \in DOMAIN jobs)
  <2>1. Resolve(op, jobs) = op
    BY <1>2 DEF Resolve
  <2> QED BY <1>2, <2>1
<1> QED BY <1>1, <1>2

(* What propagate does to an entry. *)
LEMMA PropagateFacts ==
  ASSUME NEW ent, ent \in [DOMAIN ent -> ReorderBufferEntry],
         NEW jobs, jobs \in [DOMAIN jobs -> FinishedCalc],
         NEW n \in DOMAIN ent
  PROVE  LET e  == ent[n]
             e2 == Propagate(ent, jobs)[n]
         IN  /\ e2 \in ReorderBufferEntry
             /\ e2.inst = e.inst /\ e2.rd = e.rd
             /\ e2.reg_value = IF n \in DOMAIN jobs THEN jobs[n].reg_value ELSE e.reg_value
             /\ e2.addr = Resolve(e.addr, OtherJobs(jobs, n))
             /\ e2.mem_value = Resolve(e.mem_value, OtherJobs(jobs, n))
<1> DEFINE e  == ent[n]
           e2 == Propagate(ent, jobs)[n]
           others == OtherJobs(jobs, n)
           own == n \in DOMAIN jobs
           value == IF own THEN jobs[n].reg_value ELSE e.reg_value
           exception == IF own /\ jobs[n].exception = "Err" THEN "Err" ELSE e.mem_exception
<1>1. e2 = [e EXCEPT !.reg_value = value, !.mem_exception = exception,
                     !.addr = Resolve(@, others), !.mem_value = Resolve(@, others)]
  BY DEF Propagate, OtherJobs
<1>2. e \in ReorderBufferEntry
  OBVIOUS
<1>3. value \in Word \cup {NULL} /\ exception \in {"Ok", "Err"}
  BY <1>2 DEF FinishedCalc, ReorderBufferEntry
<1>4. others \in [DOMAIN others -> FinishedCalc]
  BY DEF OtherJobs
<1>5. Resolve(e.addr, others) \in Operand /\ Resolve(e.mem_value, others) \in Operand
  BY <1>2, <1>4, ResolveFacts DEF ReorderBufferEntry
<1> HIDE DEF e, e2, others, value, exception
<1>6. /\ e2 \in ReorderBufferEntry
      /\ e2.inst = e.inst /\ e2.rd = e.rd /\ e2.reg_value = value
      /\ e2.addr = Resolve(e.addr, others) /\ e2.mem_value = Resolve(e.mem_value, others)
  BY <1>1, <1>2, <1>3, <1>5 DEF ReorderBufferEntry
<1> QED BY <1>6 DEF e, e2, others, value

LEMMA WriteResultStep == ASSUME PipelineInv, WriteResult PROVE PipelineInv'
<1> DEFINE jobs == CompletedJobs(load_buf, station)
<1>1. /\ load_buf' = Remove(load_buf, DOMAIN jobs)
      /\ station' = StationPropagated(Remove(station, DOMAIN jobs), jobs)
      /\ addresses' = AddressesPropagated(addresses, jobs)
      /\ entry' = Propagate(entry, jobs)
  BY DEF WriteResult
<1>2. /\ stage = "write_result" /\ stage' = "execute"
      /\ UNCHANGED <<code, mem, pc, gpr, related_rob, buf, branch_map, completed,
                     retired, status>>
  BY DEF WriteResult, At, regVars, loopVars
<1>3. /\ jobs \in [DOMAIN jobs -> FinishedCalc]
      /\ DOMAIN jobs \subseteq Producing
      /\ \A n \in DOMAIN jobs :
           \/ n \in DOMAIN station
           \/ n \in DOMAIN load_buf /\ load_buf[n].status = "Finished"
  BY JobFacts
<1> HIDE DEF jobs
<1>4. /\ DOMAIN load_buf' = DOMAIN load_buf \ DOMAIN jobs
      /\ \A n \in DOMAIN load_buf' : load_buf'[n] = load_buf[n]
      /\ load_buf' = [n \in DOMAIN load_buf' |-> load_buf[n]]
  BY <1>1 DEF Remove
<1>5. /\ DOMAIN station' = DOMAIN station \ DOMAIN jobs
      /\ station' = [n \in DOMAIN station' |->
           [station[n] EXCEPT !.op1 = Resolve(@, jobs), !.op2 = Resolve(@, jobs)]]
  BY <1>1 DEF Remove, StationPropagated
<1>6. /\ DOMAIN addresses' = DOMAIN addresses
      /\ addresses' = [n \in DOMAIN addresses |->
                         [addresses[n] EXCEPT !.op1 = Resolve(@, jobs)]]
  BY <1>1 DEF AddressesPropagated
<1>7. /\ load_buf \in [DOMAIN load_buf -> LoadBufferEntry]
      /\ station \in [DOMAIN station -> RSEntry]
      /\ addresses \in [DOMAIN addresses -> AddressEntry]
      /\ entry \in [DOMAIN entry -> ReorderBufferEntry]
  BY DEF PipelineInv, TypeOK
<1>8. \A n \in DOMAIN station' :
        /\ n \in DOMAIN station /\ station'[n] \in RSEntry
        /\ station'[n].status = station[n].status
        /\ station'[n].remaining_clock = station[n].remaining_clock
        /\ station'[n].op1 = Resolve(station[n].op1, jobs)
        /\ station'[n].op2 = Resolve(station[n].op2, jobs)
  <2> SUFFICES ASSUME NEW n \in DOMAIN station'
               PROVE  /\ n \in DOMAIN station /\ station'[n] \in RSEntry
                      /\ station'[n].status = station[n].status
                      /\ station'[n].remaining_clock = station[n].remaining_clock
                      /\ station'[n].op1 = Resolve(station[n].op1, jobs)
                      /\ station'[n].op2 = Resolve(station[n].op2, jobs)
    OBVIOUS
  <2>1. n \in DOMAIN station /\ station[n] \in RSEntry
    BY <1>5, <1>7
  <2>2. Resolve(station[n].op1, jobs) \in Operand /\ Resolve(station[n].op2, jobs) \in Operand
    BY <2>1, <1>3, ResolveFacts DEF RSEntry
  <2>3. station'[n] = [station[n] EXCEPT !.op1 = Resolve(station[n].op1, jobs),
                                         !.op2 = Resolve(station[n].op2, jobs)]
    BY <1>5
  <2> QED BY <2>1, <2>2, <2>3 DEF RSEntry
<1>9. \A n \in DOMAIN addresses :
        /\ addresses'[n] \in AddressEntry
        /\ addresses'[n].op1 = Resolve(addresses[n].op1, jobs)
  <2> SUFFICES ASSUME NEW n \in DOMAIN addresses
               PROVE  /\ addresses'[n] \in AddressEntry
                      /\ addresses'[n].op1 = Resolve(addresses[n].op1, jobs)
    OBVIOUS
  <2>1. addresses[n] \in AddressEntry
    BY <1>7
  <2>2. Resolve(addresses[n].op1, jobs) \in Operand
    BY <2>1, <1>3, ResolveFacts DEF AddressEntry
  <2>3. addresses'[n] = [addresses[n] EXCEPT !.op1 = Resolve(addresses[n].op1, jobs)]
    BY <1>6
  <2> QED BY <2>1, <2>2, <2>3 DEF AddressEntry
<1>10. DOMAIN entry' = DOMAIN entry
  BY <1>1 DEF Propagate
<1>11. \A n \in DOMAIN entry :
        /\ entry'[n] \in ReorderBufferEntry
        /\ entry'[n].inst = entry[n].inst /\ entry'[n].rd = entry[n].rd
        /\ entry'[n].reg_value = IF n \in DOMAIN jobs THEN jobs[n].reg_value
                                                      ELSE entry[n].reg_value
        /\ entry'[n].addr = Resolve(entry[n].addr, OtherJobs(jobs, n))
        /\ entry'[n].mem_value = Resolve(entry[n].mem_value, OtherJobs(jobs, n))
  BY <1>1, <1>3, <1>7, PropagateFacts
<1>12. TypeOK'
  <2>1. entry' = [n \in DOMAIN entry' |-> entry'[n]]
    BY <1>1 DEF Propagate
  <2>2. entry' \in [DOMAIN entry' -> ReorderBufferEntry] /\ DOMAIN entry' \subseteq Nodes
    BY <1>10, <1>11, <2>1 DEF PipelineInv, TypeOK
  <2>3. station' \in [DOMAIN station' -> RSEntry]
    BY <1>5, <1>8
  <2>4. addresses' \in [DOMAIN addresses' -> AddressEntry]
    BY <1>6, <1>9
  <2>5. load_buf' \in [DOMAIN load_buf' -> LoadBufferEntry]
    BY <1>4, <1>7
  <2> QED BY <1>2, <2>2, <2>3, <2>4, <2>5 DEF PipelineInv, TypeOK, Stages
<1>13. BufferIsLive'
  BY <1>2, <1>10 DEF PipelineInv, BufferIsLive
<1>14. Producing' = Producing \ DOMAIN jobs
  BY <1>4, <1>5 DEF Producing
<1>15. ProducersAreUnfinished'
  <2>1. \A n \in Producing' : /\ n \in DOMAIN entry'
                              /\ entry'[n].reg_value = NULL
                              /\ entry'[n].inst.opcode # "Store"
    BY <1>10, <1>11, <1>14 DEF PipelineInv, ProducersAreUnfinished
  <2>2. \A n \in DOMAIN entry' :
          (entry'[n].reg_value = NULL /\ entry'[n].inst.opcode # "Store") => n \in Producing'
    <3>1. \A n \in DOMAIN jobs : jobs[n].reg_value # NULL
      BY <1>3, WordFacts DEF FinishedCalc
    <3> QED BY <1>10, <1>11, <1>14, <3>1 DEF PipelineInv, ProducersAreUnfinished
  <2>3. \A n \in DOMAIN load_buf' : UsesLoadBuffer(entry'[n].inst)
    BY <1>4, <1>11 DEF PipelineInv, ProducersAreUnfinished, Producing
  <2>4. \A n \in DOMAIN station' :
          /\ UsesStation(entry'[n].inst)
          /\ station'[n].status # "Finished" => station'[n].remaining_clock > 0
    BY <1>8, <1>11 DEF PipelineInv, ProducersAreUnfinished, Producing
  <2> QED BY <2>1, <2>2, <2>3, <2>4 DEF ProducersAreUnfinished
<1>16. AddressesAreMissing'
  <2> SUFFICES ASSUME NEW n \in DOMAIN addresses
               PROVE  /\ n \in DOMAIN entry'
                      /\ entry'[n].addr = NoOperand
                      /\ UsesAddressUnit(entry'[n].inst)
                      /\ entry'[n].inst.opcode = "Load" =>
                           n \in DOMAIN load_buf' /\ load_buf'[n].status # "Finished"
    BY <1>6 DEF AddressesAreMissing
  <2>1. /\ n \in DOMAIN entry /\ entry[n].addr = NoOperand
        /\ UsesAddressUnit(entry[n].inst)
        /\ entry[n].inst.opcode = "Load" =>
             n \in DOMAIN load_buf /\ load_buf[n].status # "Finished"
    BY DEF PipelineInv, AddressesAreMissing
  <2>2. entry'[n].addr = NoOperand
    <3>1. Resolve(NoOperand, OtherJobs(jobs, n)) = NoOperand
      BY DEF Resolve, NoOperand
    <3> QED BY <1>11, <2>1, <3>1
  <2>3. entry[n].inst.opcode = "Load" => n \notin DOMAIN station
    BY DEF PipelineInv, ProducersAreUnfinished, UsesStation
  <2>4. entry[n].inst.opcode = "Load" => n \notin DOMAIN jobs
    BY <1>3, <2>1, <2>3
  <2> QED BY <1>4, <1>10, <1>11, <2>1, <2>2, <2>4
<1>17. RenamesAreWriters'
  <2>1. \A node, r : Renames(node, r) => Renames(node, r)'
    BY <1>2, <1>10, <1>11 DEF Renames, Writes
  <2> QED BY <1>2, <2>1 DEF PipelineInv, RenamesAreWriters
<1>18. OperandsAreOwed'
  <2>1. ASSUME NEW op \in Operand, Owed(op)
        PROVE  Resolve(op, jobs).tag = "Rob" =>
                 Resolve(op, jobs).idx \in Producing \ DOMAIN jobs
    BY <1>3, <2>1, ResolveFacts DEF Owed
  <2>2. \A n \in DOMAIN station' : Owed(station[n].op1)' /\ Owed(station[n].op2)'
    <3> SUFFICES ASSUME NEW n \in DOMAIN station'
                 PROVE  Owed(station[n].op1)' /\ Owed(station[n].op2)'
      OBVIOUS
    <3>1. /\ station[n].op1 \in Operand /\ station[n].op2 \in Operand
          /\ Owed(station[n].op1) /\ Owed(station[n].op2)
      BY <1>7, <1>8 DEF RSEntry, PipelineInv, OperandsAreOwed
    <3> QED BY <1>8, <1>14, <2>1, <3>1 DEF Owed
  <2>3. \A n \in DOMAIN addresses' : Owed(addresses[n].op1)'
    <3> SUFFICES ASSUME NEW n \in DOMAIN addresses PROVE Owed(addresses[n].op1)'
      BY <1>6
    <3>1. addresses[n].op1 \in Operand /\ Owed(addresses[n].op1)
      BY <1>7 DEF AddressEntry, PipelineInv, OperandsAreOwed
    <3> QED BY <1>9, <1>14, <2>1, <3>1 DEF Owed
  <2>4. ASSUME NEW n \in DOMAIN entry, NEW op \in Operand, NEW new,
               Owed(op), ~WaitsFor(op, n),
               new = Resolve(op, OtherJobs(jobs, n))
        PROVE  /\ new.tag = "Rob" => new.idx \in Producing \ DOMAIN jobs
               /\ ~WaitsFor(new, n)
               /\ op.tag # "None" => new.tag # "None"
    <3> DEFINE others == OtherJobs(jobs, n)
    <3>1. others \in [DOMAIN others -> FinishedCalc] /\ DOMAIN others = DOMAIN jobs \ {n}
      BY <1>3 DEF OtherJobs
    <3>2. new = Resolve(op, others)
      BY <2>4
    <3> HIDE DEF others
    <3>3. /\ new.tag = "Rob" => new = op /\ op.idx \notin DOMAIN others
          /\ op.tag # "None" => new.tag # "None"
      BY <3>1, <3>2, ResolveFacts
    <3>4. new.tag = "Rob" => op.tag = "Rob" /\ op.idx \in Producing /\ op.idx # n
      BY <2>4, <3>3 DEF Owed, WaitsFor
    <3> QED BY <3>1, <3>3, <3>4 DEF WaitsFor
  <2>5. \A n \in DOMAIN entry' :
          /\ Owed(entry[n].addr)' /\ ~WaitsFor(entry'[n].addr, n)
          /\ Owed(entry[n].mem_value)' /\ ~WaitsFor(entry'[n].mem_value, n)
          /\ entry'[n].inst.opcode = "Amo" => entry'[n].mem_value.tag # "None"
    <3> SUFFICES ASSUME NEW n \in DOMAIN entry
                 PROVE  /\ Owed(entry[n].addr)' /\ ~WaitsFor(entry'[n].addr, n)
                        /\ Owed(entry[n].mem_value)' /\ ~WaitsFor(entry'[n].mem_value, n)
                        /\ entry'[n].inst.opcode = "Amo" => entry'[n].mem_value.tag # "None"
      BY <1>10
    <3>1. /\ entry[n].addr \in Operand /\ entry[n].mem_value \in Operand
          /\ Owed(entry[n].addr) /\ ~WaitsFor(entry[n].addr, n)
          /\ Owed(entry[n].mem_value) /\ ~WaitsFor(entry[n].mem_value, n)
          /\ entry[n].inst.opcode = "Amo" => entry[n].mem_value.tag # "None"
      BY <1>7 DEF ReorderBufferEntry, PipelineInv, OperandsAreOwed
    <3>2. /\ entry'[n].addr.tag = "Rob" => entry'[n].addr.idx \in Producing \ DOMAIN jobs
          /\ ~WaitsFor(entry'[n].addr, n)
      BY <1>11, <2>4, <3>1
    <3>3. /\ entry'[n].mem_value.tag = "Rob" =>
               entry'[n].mem_value.idx \in Producing \ DOMAIN jobs
          /\ ~WaitsFor(entry'[n].mem_value, n)
          /\ entry[n].mem_value.tag # "None" => entry'[n].mem_value.tag # "None"
      BY <1>11, <2>4, <3>1
    <3>4. entry'[n].inst = entry[n].inst
      BY <1>11
    <3> QED BY <1>14, <3>1, <3>2, <3>3, <3>4 DEF Owed
  <2> QED BY <2>2, <2>3, <2>5 DEF OperandsAreOwed
<1>20. EcallsNameNoRegister'
  BY <1>2, TextIsKept
<1> QED BY <1>12, <1>13, <1>15, <1>16, <1>17, <1>18, <1>20 DEF PipelineInv

-----------------------------------------------------------------------------
(* execute                                                                 *)

(* What an execution step leaves alone in an entry. *)
SameButMemory(e2, e) ==
  /\ e2 \in ReorderBufferEntry
  /\ e2.inst = e.inst /\ e2.rd = e.rd /\ e2.reg_value = e.reg_value
  /\ e2.addr = e.addr \/ IsValue(e2.addr)
  /\ e2.mem_value = e.mem_value \/ IsValue(e2.mem_value)

LEMMA ValueFacts == \A v \in Word : Value(v) \in Operand /\ IsValue(Value(v))
BY DEF Value, Operand, IsValue

LEMMA OperandFacts ==
  ASSUME NEW op \in Operand, IsValue(op) PROVE op.val \in Word
BY DEF Operand, IsValue

LEMMA NewCount ==
  ASSUME NEW e \in ReorderBufferEntry, NEW count \in 0 .. MemCycle
  PROVE  SameButMemory([e EXCEPT !.mem_rem_cycle = count], e)
BY DEF ReorderBufferEntry, SameButMemory

LEMMA NewValueAndCount ==
  ASSUME NEW e \in ReorderBufferEntry, NEW count \in 0 .. MemCycle, NEW v \in Word
  PROVE  SameButMemory([e EXCEPT !.mem_value = Value(v), !.mem_rem_cycle = count], e)
<1>1. Value(v) \in Operand /\ IsValue(Value(v))
  BY ValueFacts
<1> QED BY <1>1 DEF ReorderBufferEntry, SameButMemory

LEMMA AddressedFacts ==
  ASSUME TypeOK
  PROVE  /\ DOMAIN AddressedEntries = DOMAIN entry
         /\ \A n \in DOMAIN entry : SameButMemory(AddressedEntries[n], entry[n])
         /\ \A n \in DOMAIN entry \ ReadyAddresses(addresses) :
              AddressedEntries[n] = entry[n]
         /\ JalrTargets(addresses) \subseteq Word
<1>1. ASSUME NEW n \in ReadyAddresses(addresses) PROVE Address(addresses[n]) \in Word
  <2>1. addresses[n] \in AddressEntry /\ IsValue(addresses[n].op1)
    BY DEF TypeOK, ReadyAddresses
  <2>2. addresses[n].op1.val \in Word /\ addresses[n].imm \in Word
    BY <2>1, OperandFacts DEF AddressEntry
  <2> QED BY <2>2, WrapAddType, WordFacts DEF Address
<1>2. JalrTargets(addresses) \subseteq Word
  BY <1>1 DEF JalrTargets
<1>3. DOMAIN AddressedEntries = DOMAIN entry
  BY DEF AddressedEntries, EntriesAddressed
<1>4. \A n \in DOMAIN entry \ ReadyAddresses(addresses) : AddressedEntries[n] = entry[n]
  BY DEF AddressedEntries, EntriesAddressed
<1>5. ASSUME NEW n \in DOMAIN entry PROVE SameButMemory(AddressedEntries[n], entry[n])
  <2>1. entry[n] \in ReorderBufferEntry
    BY DEF TypeOK
  <2>2. CASE n \in ReadyAddresses(addresses)
    <3>1. AddressedEntries[n] = [entry[n] EXCEPT !.addr = Value(Address(addresses[n]))]
      BY <2>2 DEF AddressedEntries, EntriesAddressed
    <3>2. Value(Address(addresses[n])) \in Operand /\ IsValue(Value(Address(addresses[n])))
      BY <1>1, <2>2, ValueFacts
    <3> QED BY <2>1, <3>1, <3>2 DEF ReorderBufferEntry, SameButMemory
  <2>3. CASE n \notin ReadyAddresses(addresses)
    BY <1>4, <2>1, <2>3 DEF SameButMemory
  <2> QED BY <2>2, <2>3
<1> QED BY <1>2, <1>3, <1>4, <1>5

(* The last cycle of a load that does not panic. *)
LEMMA AfterLoadFacts ==
  ASSUME NEW e \in ReorderBufferEntry, NEW m \in Memory,
         IsValue(e.addr), e.inst.opcode = "Amo" => IsValue(e.mem_value),
         ~LoadPanics(e, m)
  PROVE  /\ LoadResult(e, m) \in Word \cup {NULL}
         /\ SameButMemory(AfterAtomicLoad(e, m), e)
<1>1. /\ e.addr.val \in Word /\ e.inst \in Instruction
      /\ e.inst.opcode = "Amo" => e.mem_value.val \in Word
  BY OperandFacts DEF ReorderBufferEntry
<1>2. LoadResult(e, m) \in Word \cup {NULL}
  BY <1>1, LoadValueType DEF LoadPanics, LoadResult
<1>3. CASE e.inst.opcode # "Amo" \/ LoadResult(e, m) = NULL
  <2>1. AfterAtomicLoad(e, m) = [e EXCEPT !.mem_rem_cycle = 0]
    BY <1>3 DEF AfterAtomicLoad
  <2>2. 0 \in 0 .. MemCycle
    BY CycleAssumption
  <2> QED BY <1>2, <2>1, <2>2, NewCount
<1>4. CASE e.inst.opcode = "Amo" /\ LoadResult(e, m) # NULL
  <2> DEFINE f == e.inst.function
             value == IF f = "Lrw" THEN 0
                      ELSE AmoValue(f, LoadResult(e, m), e.mem_value.val)
             count == IF f = "Lrw" THEN 0 ELSE MemCycle
  <2>1. AfterAtomicLoad(e, m) = [e EXCEPT !.mem_value = Value(value),
                                          !.mem_rem_cycle = count]
    BY <1>4 DEF AfterAtomicLoad
  <2>2. f \in FunctionsOf("Amo")
    BY <1>1, <1>4, InstructionFields
  <2>3. value \in Word
    BY <1>1, <1>2, <1>4, <2>2, AmoAssumption, WordFacts
  <2>4. count \in 0 .. MemCycle
    BY CycleAssumption
  <2> HIDE DEF value, count
  <2> QED BY <1>2, <2>1, <2>3, <2>4, NewValueAndCount
<1> QED BY <1>2, <1>3, <1>4

LEMMA SameIsTransitive ==
  ASSUME NEW e3, NEW e2, NEW e, SameButMemory(e3, e2), SameButMemory(e2, e)
  PROVE  SameButMemory(e3, e)
BY DEF SameButMemory

LEMMA ReadyLoadFacts ==
  ASSUME PipelineInv, NEW n \in ReadyLoads(load_buf, buf, AddressedEntries)
  PROVE  /\ n \in DOMAIN entry /\ n \in DOMAIN load_buf
         /\ load_buf[n].status # "Finished"
         /\ AddressedEntries[n] \in ReorderBufferEntry
         /\ IsValue(AddressedEntries[n].addr)
         /\ AddressedEntries[n].inst.opcode = "Amo" => IsValue(AddressedEntries[n].mem_value)
<1> DEFINE e == AddressedEntries[n]
<1>1. /\ n \in DOMAIN load_buf /\ load_buf[n].status # "Finished" /\ IsValue(e.addr)
      /\ e.inst.opcode = "Amo" => e.mem_value.tag # "Rob"
  BY DEF ReadyLoads, IsLoadReady
<1>2. n \in DOMAIN entry
  BY <1>1 DEF PipelineInv, ProducersAreUnfinished, Producing
<1>3. SameButMemory(e, entry[n])
  BY <1>2, AddressedFacts DEF PipelineInv
<1>4. entry[n].inst.opcode = "Amo" => entry[n].mem_value.tag # "None"
  BY <1>2 DEF PipelineInv, OperandsAreOwed
<1> HIDE DEF e
<1>5. e \in ReorderBufferEntry /\ e.mem_value \in Operand
  BY <1>3 DEF SameButMemory, ReorderBufferEntry
<1>6. e.inst.opcode = "Amo" => IsValue(e.mem_value)
  BY <1>1, <1>3, <1>4, <1>5 DEF SameButMemory, Operand, IsValue
<1> QED BY <1>1, <1>2, <1>5, <1>6 DEF e

(* The loads and the entries after LoadBuffer::execute. *)
LEMMA LoadedFacts ==
  ASSUME PipelineInv, ~ExecutePanicking
  PROVE  LET loads == LoadsExecuted(load_buf, buf, AddressedEntries, mem) IN
         /\ DOMAIN LoadedEntries = DOMAIN entry
         /\ \A n \in DOMAIN entry : SameButMemory(LoadedEntries[n], entry[n])
         /\ \A n \in DOMAIN addresses \ ReadyAddresses(addresses) :
              LoadedEntries[n] = entry[n]
         /\ loads \in [DOMAIN load_buf -> LoadBufferEntry]
         /\ \A n \in DOMAIN addresses \ ReadyAddresses(addresses) :
              n \in DOMAIN load_buf => loads[n] = load_buf[n]
<1> DEFINE ready  == ReadyLoads(load_buf, buf, AddressedEntries)
           ending == EndingLoads(load_buf, buf, AddressedEntries)
           loads  == LoadsExecuted(load_buf, buf, AddressedEntries, mem)
<1>1. /\ DOMAIN AddressedEntries = DOMAIN entry
      /\ \A n \in DOMAIN entry : SameButMemory(AddressedEntries[n], entry[n])
      /\ \A n \in DOMAIN entry \ ReadyAddresses(addresses) : AddressedEntries[n] = entry[n]
  BY AddressedFacts DEF PipelineInv
<1>2. /\ ending \subseteq ready
      /\ \A n \in ready \ ending : ~(AddressedEntries[n].mem_rem_cycle <= 1)
  BY DEF EndingLoads
<1>3. \A n \in ready :
        /\ n \in DOMAIN entry /\ n \in DOMAIN load_buf
        /\ load_buf[n].status # "Finished"
        /\ AddressedEntries[n] \in ReorderBufferEntry
        /\ IsValue(AddressedEntries[n].addr)
        /\ AddressedEntries[n].inst.opcode = "Amo" => IsValue(AddressedEntries[n].mem_value)
  BY ReadyLoadFacts
<1>4. \A n \in ending : ~LoadPanics(AddressedEntries[n], mem)
  BY DEF ExecutePanicking
<1>5. mem \in Memory /\ load_buf \in [DOMAIN load_buf -> LoadBufferEntry]
  BY DEF PipelineInv, TypeOK
<1>6. \A n \in ending :
        /\ LoadResult(AddressedEntries[n], mem) \in Word \cup {NULL}
        /\ SameButMemory(AfterAtomicLoad(AddressedEntries[n], mem), AddressedEntries[n])
  BY <1>2, <1>3, <1>4, <1>5, AfterLoadFacts
<1>7. /\ DOMAIN LoadedEntries = DOMAIN entry
      /\ \A n \in DOMAIN entry :
           LoadedEntries[n] =
             IF n \in ending THEN AfterAtomicLoad(AddressedEntries[n], mem)
             ELSE IF n \in ready THEN [AddressedEntries[n] EXCEPT !.mem_rem_cycle = @ - 1]
             ELSE AddressedEntries[n]
  BY <1>1 DEF LoadedEntries, EntriesLoaded
<1>8. /\ loads = [n \in DOMAIN load_buf |->
           IF n \in ending
             THEN [status |-> "Finished", value |-> LoadResult(AddressedEntries[n], mem)]
           ELSE IF n \in ready THEN [load_buf[n] EXCEPT !.status = "Execute"]
           ELSE load_buf[n]]
  BY DEF LoadsExecuted
<1> HIDE DEF ready, ending, loads
<1>9. ASSUME NEW n \in DOMAIN entry PROVE SameButMemory(LoadedEntries[n], entry[n])
  <2>1. CASE n \in ending
    BY <1>1, <1>6, <1>7, <2>1, SameIsTransitive
  <2>2. CASE n \in ready \ ending
    <3>1. LoadedEntries[n] = [AddressedEntries[n] EXCEPT
                                !.mem_rem_cycle = AddressedEntries[n].mem_rem_cycle - 1]
      BY <1>7, <2>2
    <3>2. AddressedEntries[n].mem_rem_cycle - 1 \in 0 .. MemCycle
      BY <1>2, <1>3, <2>2, CycleAssumption DEF ReorderBufferEntry
    <3>3. SameButMemory(LoadedEntries[n], AddressedEntries[n])
      BY <1>3, <2>2, <3>1, <3>2, NewCount
    <3> QED BY <1>1, <3>3, SameIsTransitive
  <2>3. CASE n \notin ready /\ n \notin ending
    BY <1>1, <1>7, <2>3
  <2> QED BY <2>1, <2>2, <2>3
<1>10. \A n \in DOMAIN addresses \ ReadyAddresses(addresses) :
         n \in DOMAIN entry /\ n \notin ready
  <2> SUFFICES ASSUME NEW n \in DOMAIN addresses \ ReadyAddresses(addresses)
               PROVE  n \in DOMAIN entry /\ n \notin ready
    OBVIOUS
  <2>1. n \in DOMAIN entry /\ entry[n].addr = NoOperand
    BY DEF PipelineInv, AddressesAreMissing
  <2>2. ~IsValue(AddressedEntries[n].addr)
    BY <1>1, <2>1 DEF NoOperand, IsValue
  <2> QED BY <1>3, <2>1, <2>2
<1>11. loads \in [DOMAIN load_buf -> LoadBufferEntry]
  BY <1>5, <1>6, <1>8 DEF LoadBufferEntry
<1>12. \A n \in DOMAIN addresses \ ReadyAddresses(addresses) :
         /\ LoadedEntries[n] = entry[n]
         /\ n \in DOMAIN load_buf => loads[n] = load_buf[n]
  BY <1>1, <1>2, <1>7, <1>8, <1>10
<1> QED BY <1>7, <1>9, <1>11, <1>12 DEF loads

(* The general units: the operands stay, the clock runs down. *)
LEMMA StationFacts ==
  ASSUME PipelineInv
  PROVE  LET s2 == StationExecuted(station) IN
         /\ DOMAIN s2 = DOMAIN station
         /\ s2 \in [DOMAIN station -> RSEntry]
         /\ \A n \in DOMAIN station :
              /\ s2[n].op1 = station[n].op1 /\ s2[n].op2 = station[n].op2
              /\ s2[n].status # "Finished" => s2[n].remaining_clock > 0
<1> DEFINE s2 == StationExecuted(station)
<1>1. s2 = [n \in DOMAIN station |->
              IF Ending(station[n])
                THEN [station[n] EXCEPT !.status = "Finished", !.remaining_clock = 0,
                        !.value = Alu(station[n].function, station[n].op1.val,
                                      station[n].op2.val)]
              ELSE IF Ready(station[n])
                THEN [station[n] EXCEPT !.status = "Execute", !.remaining_clock = @ - 1]
              ELSE station[n]]
  BY DEF StationExecuted
<1> HIDE DEF s2
<1>2. ASSUME NEW n \in DOMAIN station
      PROVE  /\ s2[n] \in RSEntry
             /\ s2[n].op1 = station[n].op1 /\ s2[n].op2 = station[n].op2
             /\ s2[n].status # "Finished" => s2[n].remaining_clock > 0
  <2> DEFINE s == station[n]
  <2>1. s \in RSEntry /\ (s.status # "Finished" => s.remaining_clock > 0)
    BY DEF PipelineInv, TypeOK, ProducersAreUnfinished
  <2>2. CASE Ending(s)
    <3> DEFINE v == Alu(s.function, s.op1.val, s.op2.val)
    <3>1. s.op1.val \in Word /\ s.op2.val \in Word /\ s.function \in Function
      BY <2>1, <2>2, OperandFacts DEF Ending, Ready, RSEntry
    <3>2. v \in Word
      BY <3>1, AluAssumption
    <3>3. 0 \in 0 .. (MulCycle + DivCycle)
      BY CycleAssumption
    <3>4. s2[n] = [s EXCEPT !.status = "Finished", !.remaining_clock = 0, !.value = v]
      BY <1>1, <2>2
    <3> HIDE DEF v, s
    <3>5. /\ s2[n] \in RSEntry
          /\ s2[n].op1 = s.op1 /\ s2[n].op2 = s.op2
          /\ s2[n].status # "Finished" => s2[n].remaining_clock > 0
      BY <2>1, <3>2, <3>3, <3>4 DEF RSEntry
    <3> QED BY <3>5 DEF s
  <2>3. CASE ~Ending(s) /\ Ready(s)
    <3>1. s.remaining_clock # 1 /\ s.status # "Finished"
      BY <2>3 DEF Ending, Ready
    <3>2. s.remaining_clock - 1 \in 0 .. (MulCycle + DivCycle) /\ s.remaining_clock - 1 > 0
      BY <2>1, <3>1, CycleAssumption DEF RSEntry
    <3>3. s2[n] = [s EXCEPT !.status = "Execute", !.remaining_clock = s.remaining_clock - 1]
      BY <1>1, <2>3
    <3> HIDE DEF s
    <3>4. /\ s2[n] \in RSEntry
          /\ s2[n].op1 = s.op1 /\ s2[n].op2 = s.op2
          /\ s2[n].status # "Finished" => s2[n].remaining_clock > 0
      BY <2>1, <3>2, <3>3 DEF RSEntry
    <3> QED BY <3>4 DEF s
  <2>4. CASE ~Ending(s) /\ ~Ready(s)
    BY <1>1, <2>1, <2>4
  <2> QED BY <2>2, <2>3, <2>4
<1> QED BY <1>1, <1>2 DEF s2

LEMMA ExecuteStep == ASSUME PipelineInv, Execute PROVE PipelineInv'
<1>1. /\ addresses' = Remove(addresses, ReadyAddresses(addresses))
      /\ load_buf' = LoadsExecuted(load_buf, buf, AddressedEntries, mem)
      /\ station' = StationExecuted(station)
      /\ pc' = pc \/ pc' \in JalrTargets(addresses)
      /\ stage = "execute" /\ stage' = "issue"
      /\ UNCHANGED <<code, gpr, related_rob, buf, branch_map, completed, retired, status>>
  BY DEF Execute, At, loopVars
<1>2. LET loads == LoadsExecuted(load_buf, buf, AddressedEntries, mem) IN
      /\ DOMAIN LoadedEntries = DOMAIN entry
      /\ \A n \in DOMAIN entry : SameButMemory(LoadedEntries[n], entry[n])
      /\ \A n \in DOMAIN addresses \ ReadyAddresses(addresses) :
           LoadedEntries[n] = entry[n]
      /\ loads \in [DOMAIN load_buf -> LoadBufferEntry]
      /\ \A n \in DOMAIN addresses \ ReadyAddresses(addresses) :
           n \in DOMAIN load_buf => loads[n] = load_buf[n]
  BY LoadedFacts DEF Execute
<1>3. /\ DOMAIN load_buf' = DOMAIN load_buf
      /\ load_buf' \in [DOMAIN load_buf' -> LoadBufferEntry]
      /\ \A n \in DOMAIN addresses' : n \in DOMAIN load_buf => load_buf'[n] = load_buf[n]
  BY <1>1, <1>2 DEF Remove
<1>4. /\ DOMAIN station' = DOMAIN station
      /\ station' \in [DOMAIN station' -> RSEntry]
      /\ \A n \in DOMAIN station :
           /\ station'[n].op1 = station[n].op1 /\ station'[n].op2 = station[n].op2
           /\ station'[n].status # "Finished" => station'[n].remaining_clock > 0
  BY <1>1, StationFacts
<1>5. /\ DOMAIN addresses' = DOMAIN addresses \ ReadyAddresses(addresses)
      /\ \A n \in DOMAIN addresses' : addresses'[n] = addresses[n]
      /\ addresses' = [n \in DOMAIN addresses' |-> addresses[n]]
  BY <1>1 DEF Remove
<1>6. HeadStores => /\ Head(buf) \in DOMAIN entry
                    /\ HeadEntry \in ReorderBufferEntry
  <2> SUFFICES ASSUME HeadStores PROVE Head(buf) \in DOMAIN entry
    BY <1>2 DEF HeadEntry, SameButMemory
  <2>1. buf \in Seq(Nodes) /\ buf # <<>>
    BY DEF PipelineInv, TypeOK, HeadStores
  <2>2. Head(buf) = buf[1] /\ 1 \in 1 .. Len(buf)
    BY <2>1
  <2> QED BY <2>2 DEF PipelineInv, BufferIsLive
<1>7. /\ DOMAIN entry' = DOMAIN entry
      /\ \A n \in DOMAIN entry : SameButMemory(entry'[n], LoadedEntries[n])
      /\ entry' = [n \in DOMAIN entry |-> entry'[n]]
  <2>1. CASE HeadStores
    <3>1. entry' = [LoadedEntries EXCEPT ![Head(buf)].mem_rem_cycle = 0]
      BY <2>1 DEF Execute
    <3>2. LoadedEntries = [n \in DOMAIN entry |-> LoadedEntries[n]]
      BY <1>2 DEF LoadedEntries, EntriesLoaded
    <3>3. entry' = [n \in DOMAIN entry |->
                      IF n = Head(buf) THEN [LoadedEntries[n] EXCEPT !.mem_rem_cycle = 0]
                      ELSE LoadedEntries[n]]
      BY <1>6, <2>1, <3>1, <3>2
    <3>4. ASSUME NEW n \in DOMAIN entry PROVE SameButMemory(entry'[n], LoadedEntries[n])
      <4>1. LoadedEntries[n] \in ReorderBufferEntry /\ 0 \in 0 .. MemCycle
        BY <1>2, CycleAssumption DEF SameButMemory
      <4>2. SameButMemory([LoadedEntries[n] EXCEPT !.mem_rem_cycle = 0], LoadedEntries[n])
        BY <4>1, NewCount
      <4>3. SameButMemory(LoadedEntries[n], LoadedEntries[n])
        BY <4>1 DEF SameButMemory
      <4> QED BY <3>3, <4>2, <4>3
    <3> QED BY <3>3, <3>4
  <2>2. CASE ~HeadStores
    <3>1. entry' = LoadedEntries
      BY <2>2 DEF Execute
    <3> QED BY <1>2, <3>1 DEF SameButMemory, LoadedEntries, EntriesLoaded
  <2> QED BY <2>1, <2>2
<1>8. \A n \in DOMAIN entry : SameButMemory(entry'[n], entry[n])
  BY <1>2, <1>7, SameIsTransitive
<1>9. \A n \in DOMAIN addresses' : /\ n \in DOMAIN entry
                                   /\ entry'[n].addr = entry[n].addr
  <2> SUFFICES ASSUME NEW n \in DOMAIN addresses'
               PROVE  n \in DOMAIN entry /\ entry'[n].addr = entry[n].addr
    OBVIOUS
  <2>1. n \in DOMAIN entry /\ LoadedEntries[n] = entry[n] /\ entry[n].addr = NoOperand
    BY <1>2, <1>5 DEF PipelineInv, AddressesAreMissing
  <2>2. CASE HeadStores
    <3>1. Head(buf) # n
      <4>1. IsValue(LoadedEntries[Head(buf)].addr)
        BY <2>2 DEF HeadStores, StoreReady, HeadEntry
      <4> QED BY <2>1, <4>1 DEF NoOperand, IsValue
    <3>2. entry'[n] = LoadedEntries[n]
      BY <1>2, <1>6, <2>1, <2>2, <3>1 DEF Execute
    <3> QED BY <2>1, <3>2
  <2>3. CASE ~HeadStores
    BY <2>1, <2>3 DEF Execute
  <2> QED BY <2>2, <2>3
<1>10. mem' \in Memory
  <2>1. CASE HeadStores
    <3>1. mem' = Stored(HeadEntry, mem)
      BY <2>1 DEF Execute
    <3>2. HeadEntry.addr.val \in Word /\ HeadEntry.mem_value.val \in Word
      BY <1>6, <2>1, OperandFacts DEF HeadStores, StoreReady, ReorderBufferEntry
    <3>3. mem \in Memory
      BY DEF PipelineInv, TypeOK
    <3> QED BY <3>1, <3>2, <3>3, WrittenType, WordFacts DEF Stored
  <2>2. CASE ~HeadStores
    BY <2>2 DEF Execute, PipelineInv, TypeOK
  <2> QED BY <2>1, <2>2
<1>11. TypeOK'
  <2>1. pc' \in Word
    BY <1>1, AddressedFacts DEF PipelineInv, TypeOK
  <2>2. entry' \in [DOMAIN entry' -> ReorderBufferEntry] /\ DOMAIN entry' \subseteq Nodes
    BY <1>7, <1>8 DEF SameButMemory, PipelineInv, TypeOK
  <2>3. addresses' \in [DOMAIN addresses' -> AddressEntry]
    BY <1>5 DEF PipelineInv, TypeOK
  <2> QED BY <1>1, <1>3, <1>4, <1>10, <2>1, <2>2, <2>3 DEF PipelineInv, TypeOK, Stages
<1>12. BufferIsLive'
  BY <1>1, <1>7 DEF PipelineInv, BufferIsLive
<1>13. Producing' = Producing
  BY <1>3, <1>4 DEF Producing
<1>14. ProducersAreUnfinished'
  <2>1. \A n \in DOMAIN entry :
          entry'[n].inst = entry[n].inst /\ entry'[n].reg_value = entry[n].reg_value
    BY <1>8 DEF SameButMemory
  <2>2. \A n \in DOMAIN station \cup DOMAIN load_buf : n \in DOMAIN entry
    BY DEF PipelineInv, ProducersAreUnfinished, Producing
  <2> QED BY <1>3, <1>4, <1>7, <1>13, <2>1, <2>2 DEF PipelineInv, ProducersAreUnfinished
<1>15. AddressesAreMissing'
  <2>1. \A n \in DOMAIN entry : entry'[n].inst = entry[n].inst
    BY <1>8 DEF SameButMemory
  <2> QED BY <1>3, <1>5, <1>7, <1>9, <2>1 DEF PipelineInv, AddressesAreMissing
<1>16. RenamesAreWriters'
  <2>1. \A n \in DOMAIN entry : entry'[n].inst = entry[n].inst /\ entry'[n].rd = entry[n].rd
    BY <1>8 DEF SameButMemory
  <2>2. \A node, r : Renames(node, r) => Renames(node, r)'
    BY <1>1, <1>7, <2>1 DEF Renames, Writes
  <2> QED BY <1>1, <2>2 DEF PipelineInv, RenamesAreWriters
<1>17. OperandsAreOwed'
  <2>1. \A n \in DOMAIN station' : Owed(station[n].op1)' /\ Owed(station[n].op2)'
    BY <1>4, <1>13 DEF PipelineInv, OperandsAreOwed, Owed
  <2>2. \A n \in DOMAIN addresses' : Owed(addresses[n].op1)'
    BY <1>5, <1>13 DEF PipelineInv, OperandsAreOwed, Owed
  <2>3. ASSUME NEW n \in DOMAIN entry'
        PROVE  /\ Owed(entry[n].addr)' /\ ~WaitsFor(entry'[n].addr, n)
               /\ Owed(entry[n].mem_value)' /\ ~WaitsFor(entry'[n].mem_value, n)
               /\ entry'[n].inst.opcode = "Amo" => entry'[n].mem_value.tag # "None"
    <3>1. /\ Owed(entry[n].addr) /\ ~WaitsFor(entry[n].addr, n)
          /\ Owed(entry[n].mem_value) /\ ~WaitsFor(entry[n].mem_value, n)
          /\ entry[n].inst.opcode = "Amo" => entry[n].mem_value.tag # "None"
      BY <1>7 DEF PipelineInv, OperandsAreOwed
    <3>2. /\ entry'[n].inst = entry[n].inst
          /\ entry'[n].addr = entry[n].addr \/ entry'[n].addr.tag = "Value"
          /\ entry'[n].mem_value = entry[n].mem_value \/ entry'[n].mem_value.tag = "Value"
      BY <1>7, <1>8 DEF SameButMemory, IsValue
    <3> QED BY <1>13, <3>1, <3>2 DEF Owed, WaitsFor
  <2> QED BY <2>1, <2>2, <2>3 DEF OperandsAreOwed
<1>20. EcallsNameNoRegister'
  BY <1>1, TextIsKept
<1> QED BY <1>11, <1>12, <1>14, <1>15, <1>16, <1>17, <1>20 DEF PipelineInv

-----------------------------------------------------------------------------
(* issue                                                                   *)

(* An operand read from the register file, in the reorder buffer before or *)
(* after the new entry is pushed.                                          *)
LEMMA GetRegValueFacts ==
  ASSUME PipelineInv, stage # "retire", NEW ent,
         \A n \in DOMAIN entry : ent[n] = entry[n],
         NEW r \in Regs
  PROVE  LET op == GetRegValue(regs, ent, r) IN
         /\ op \in Operand
         /\ op.tag # "None"
         /\ op.tag = "Rob" => op.idx \in Producing
<1>1. gpr[r] \in Word /\ regs.gpr[r] = gpr[r] /\ regs.related_rob[r] = related_rob[r]
  BY DEF PipelineInv, TypeOK, regs
<1>2. CASE related_rob[r] = NULL
  <2>1. GetRegValue(regs, ent, r) = Value(gpr[r])
    BY <1>1, <1>2 DEF GetRegValue
  <2> QED BY <1>1, <2>1 DEF Value, Operand
<1>3. CASE related_rob[r] # NULL
  <2> DEFINE node == related_rob[r]
  <2>1. node \in DOMAIN entry /\ Writes(entry[node], r) /\ node \in Nodes
    BY <1>3 DEF PipelineInv, TypeOK, RenamesAreWriters, Renames
  <2>2. ent[node] = entry[node] /\ entry[node].reg_value \in Word \cup {NULL}
    BY <2>1 DEF PipelineInv, TypeOK, ReorderBufferEntry
  <2>3. CASE entry[node].reg_value # NULL
    <3>1. GetRegValue(regs, ent, r) = Value(entry[node].reg_value)
      BY <1>1, <1>3, <2>2, <2>3 DEF GetRegValue
    <3> QED BY <2>2, <2>3, <3>1 DEF Value, Operand
  <2>4. CASE entry[node].reg_value = NULL
    <3>1. GetRegValue(regs, ent, r) = Rob(node)
      BY <1>1, <1>3, <2>2, <2>4 DEF GetRegValue
    <3>2. node \in Producing
      BY <2>1, <2>4 DEF PipelineInv, ProducersAreUnfinished, Writes
    <3> QED BY <2>1, <3>1, <3>2 DEF Rob, Operand
  <2> QED BY <2>3, <2>4
<1> QED BY <1>2, <1>3

(* An operand a new entry of a unit may hold. *)
GoodOperand(op) == op \in Operand /\ (op.tag = "Rob" => op.idx \in Producing)

LEMMA ValueIsGood == \A v \in Word : GoodOperand(Value(v))
BY DEF GoodOperand, Value, Operand

LEMMA RegIsGood ==
  ASSUME PipelineInv, stage # "retire", NEW ent,
         \A n \in DOMAIN entry : ent[n] = entry[n],
         NEW r \in Regs
  PROVE  /\ GoodOperand(GetRegValue(regs, ent, r))
         /\ GetRegValue(regs, ent, r).tag # "None"
BY GetRegValueFacts DEF GoodOperand

LEMMA StationOperandsFacts ==
  ASSUME PipelineInv, stage # "retire", NEW ent,
         \A n \in DOMAIN entry : ent[n] = entry[n],
         NEW inst \in Instruction
  PROVE  LET ops == StationOperands(regs, ent, pc, inst) IN
         GoodOperand(ops[1]) /\ GoodOperand(ops[2])
<1> DEFINE ops == StationOperands(regs, ent, pc, inst)
           rs1 == GetRegValue(regs, ent, OrZero(inst.rs1))
           rs2 == IF inst.rs2 # NULL THEN GetRegValue(regs, ent, inst.rs2)
                  ELSE Value(OrZero(inst.imm))
<1>1. GoodOperand(Value(pc)) /\ GoodOperand(Value(WordSize)) /\ GoodOperand(Value(0))
  <2>1. WordSize \in Word
    BY SizeAssumption DEF Word
  <2>2. pc \in Word
    BY DEF PipelineInv, TypeOK
  <2> QED BY <2>1, <2>2, ValueIsGood, WordFacts
<1>2. inst.opcode \in {"AuiPc", "Lui"} => GoodOperand(Value(inst.imm))
  BY InstructionFields, ValueIsGood
<1>3. GoodOperand(rs1) /\ GoodOperand(rs2)
  BY InstructionFields, RegIsGood, ValueIsGood
<1>4. \/ inst.opcode \in {"Jal", "Jalr"} /\ ops = <<Value(pc), Value(WordSize)>>
      \/ inst.opcode = "AuiPc" /\ ops = <<Value(pc), Value(inst.imm)>>
      \/ inst.opcode = "Lui" /\ ops = <<Value(0), Value(inst.imm)>>
      \/ inst.opcode = "Amo" /\ ops = <<Value(0), Value(0)>>
      \/ ops = <<rs1, rs2>>
  BY Zenon DEF StationOperands
<1> HIDE DEF ops, rs1, rs2
<1>5. GoodOperand(ops[1]) /\ GoodOperand(ops[2])
  BY <1>1, <1>2, <1>3, <1>4
<1> QED BY <1>5 DEF ops

LEMMA NewRSEntryFacts ==
  ASSUME PipelineInv, stage # "retire", NEW ent,
         \A n \in DOMAIN entry : ent[n] = entry[n],
         NEW inst \in Instruction
  PROVE  LET s == NewRSEntry(regs, ent, pc, inst) IN
         /\ s \in RSEntry
         /\ GoodOperand(s.op1) /\ GoodOperand(s.op2)
         /\ s.remaining_clock > 0
<1> DEFINE ops == StationOperands(regs, ent, pc, inst)
           clock == RemainClock(inst.function)
<1>1. GoodOperand(ops[1]) /\ GoodOperand(ops[2])
  BY StationOperandsFacts
<1>2. clock \in 0 .. (MulCycle + DivCycle) /\ clock > 0
  <2>1. clock \in {MulCycle, DivCycle, 1}
    BY DEF RemainClock
  <2> QED BY <2>1, CycleAssumption
<1>3. NewRSEntry(regs, ent, pc, inst) =
        [status |-> "Wait", function |-> inst.function, op1 |-> ops[1], op2 |-> ops[2],
         value |-> 0, remaining_clock |-> clock]
  BY DEF NewRSEntry
<1> HIDE DEF ops, clock
<1> QED BY <1>1, <1>2, <1>3, WordFacts, InstructionFields DEF RSEntry, GoodOperand

LEMMA NewEntryFacts ==
  ASSUME PipelineInv, stage # "retire", NEW inst \in Instruction, NEW prediction \in BOOLEAN
  PROVE  LET e == NewEntry(regs, entry, pc, inst, prediction) IN
         /\ e \in ReorderBufferEntry
         /\ e.inst = inst /\ e.reg_value = NULL /\ e.rd = OrZero(inst.rd)
         /\ inst.opcode # "Amo" => e.addr = NoOperand
         /\ GoodOperand(e.addr) /\ GoodOperand(e.mem_value)
         /\ inst.opcode = "Amo" => e.mem_value.tag # "None"
<1> DEFINE mem_value == IF inst.opcode \in {"Store", "Amo"}
                          THEN GetRegValue(regs, entry, inst.rs2) ELSE NoOperand
           addr == IF inst.opcode = "Amo"
                     THEN GetRegValue(regs, entry, inst.rs1) ELSE NoOperand
           pred == inst.opcode = "Branch" /\ prediction
<1>1. GoodOperand(NoOperand)
  BY DEF GoodOperand, NoOperand, Operand
<1>2. GoodOperand(addr) /\ GoodOperand(mem_value)
  BY <1>1, InstructionFields, RegIsGood
<1>3. inst.opcode = "Amo" => mem_value.tag # "None"
  BY InstructionFields, RegIsGood
<1>4. inst.opcode # "Amo" => addr = NoOperand
  OBVIOUS
<1>5. OrZero(inst.rd) \in Regs /\ MemCycle \in 0 .. MemCycle /\ pc \in Word
  BY InstructionFields, CycleAssumption DEF PipelineInv, TypeOK
<1>6. pred \in BOOLEAN
  OBVIOUS
<1>7. NewEntry(regs, entry, pc, inst, prediction) =
        [pc |-> pc, inst |-> inst, mem_value |-> mem_value, reg_value |-> NULL,
         rd |-> OrZero(inst.rd), addr |-> addr, branch_pred |-> pred,
         mem_rem_cycle |-> MemCycle, mem_exception |-> "Ok"]
  BY DEF NewEntry
<1> HIDE DEF mem_value, addr, pred
<1> QED BY <1>2, <1>3, <1>4, <1>5, <1>6, <1>7 DEF ReorderBufferEntry, GoodOperand

LEMMA NewAddressEntryFacts ==
  ASSUME PipelineInv, stage # "retire", NEW ent,
         \A n \in DOMAIN entry : ent[n] = entry[n],
         NEW inst \in Instruction, UsesAddressUnit(inst)
  PROVE  LET a == NewAddressEntry(regs, ent, inst) IN
         a \in AddressEntry /\ GoodOperand(a.op1)
<1>1. inst.rs1 \in Regs /\ OrZero(inst.imm) \in Word
  BY InstructionFields DEF UsesAddressUnit
<1>2. GoodOperand(GetRegValue(regs, ent, inst.rs1))
  BY <1>1, RegIsGood
<1> QED BY <1>1, <1>2 DEF NewAddressEntry, AddressEntry, GoodOperand

LEMMA FetchedType ==
  ASSUME TypeOK, pc \in DOMAIN code PROVE Fetched \in Instruction
BY NopIsInstruction, ImageAssumption DEF TypeOK, Fetched

LEMMA FetchNextType ==
  ASSUME NEW inst \in Instruction, NEW p \in Word, NEW prediction
  PROVE  FetchNext(inst, p, prediction) \in Word
<1>1. FetchNext(inst, p, prediction) \in {p, NextPc(p), WrapAdd(p, inst.imm)}
  BY DEF FetchNext
<1>2. \/ inst.opcode \in {"Jal", "Branch"}
      \/ FetchNext(inst, p, prediction) \in {p, NextPc(p)}
  BY DEF FetchNext
<1> QED BY <1>1, <1>2, InstructionFields, WrapAddType, NextPcType, WordFacts

LEMMA IssueStep == ASSUME PipelineInv, Issue PROVE PipelineInv'
<1> DEFINE inst == Fetched
           prediction == inst.opcode = "Branch" /\ Predict(branch_map, pc)
<1>1. /\ pc \in DOMAIN code
      /\ branch_map' = IF inst.opcode = "Branch" THEN Touched(branch_map, pc) ELSE branch_map
      /\ pc' = FetchNext(inst, pc, prediction)
      /\ stage \in {"issue", "issue_second"} /\ stage' \in {"issue_second", "commit"}
      /\ UNCHANGED <<code, mem, gpr, completed, retired, status>>
  BY DEF Issue, Fetching, At, loopVars
<1>2. PICK node \in Nodes \ DOMAIN entry :
       /\ buf' = Append(buf, node)
       /\ entry' = Insert(entry, node, NewEntry(regs, entry, pc, inst, prediction))
       /\ addresses' = IF UsesAddressUnit(inst)
            THEN Insert(addresses, node, NewAddressEntry(regs, entry', inst)) ELSE addresses
       /\ load_buf' = IF UsesLoadBuffer(inst)
            THEN Insert(load_buf, node, NewLoad) ELSE load_buf
       /\ station' = IF UsesStation(inst)
            THEN Insert(station, node, NewRSEntry(regs, entry', pc, inst)) ELSE station
       /\ related_rob' = SetRegRobIndex(related_rob, OrZero(inst.rd), node)
  BY DEF Issue, RegsForUnits
<1>3. inst \in Instruction /\ prediction \in BOOLEAN
  <2>1. TypeOK
    BY DEF PipelineInv
  <2> QED BY <1>1, <2>1, FetchedType
<1> DEFINE e == NewEntry(regs, entry, pc, inst, prediction)
<1>4. /\ e \in ReorderBufferEntry
      /\ e.inst = inst /\ e.reg_value = NULL /\ e.rd = OrZero(inst.rd)
      /\ inst.opcode # "Amo" => e.addr = NoOperand
      /\ GoodOperand(e.addr) /\ GoodOperand(e.mem_value)
      /\ inst.opcode = "Amo" => e.mem_value.tag # "None"
  BY <1>1, <1>3, NewEntryFacts
<1>5. pc' \in Word
  BY <1>1, <1>3, FetchNextType DEF PipelineInv, TypeOK
<1> HIDE DEF inst, prediction, e
<1>6. /\ DOMAIN entry' = DOMAIN entry \cup {node}
      /\ entry'[node] = e
      /\ \A n \in DOMAIN entry : entry'[n] = entry[n]
      /\ entry' \in [DOMAIN entry' -> ReorderBufferEntry]
  <2>1. entry \in [DOMAIN entry -> ReorderBufferEntry] /\ node \notin DOMAIN entry
    BY <1>2 DEF PipelineInv, TypeOK
  <2>2. entry' = Insert(entry, node, e)
    BY <1>2 DEF e
  <2> QED BY <1>4, <2>1, <2>2 DEF Insert
<1>7. node \notin Producing /\ node \notin DOMAIN addresses
  BY <1>2 DEF PipelineInv, ProducersAreUnfinished, AddressesAreMissing
<1>8. /\ DOMAIN addresses' = IF UsesAddressUnit(inst) THEN DOMAIN addresses \cup {node}
                             ELSE DOMAIN addresses
      /\ \A n \in DOMAIN addresses : addresses'[n] = addresses[n]
      /\ UsesAddressUnit(inst) => /\ addresses'[node] \in AddressEntry
                                  /\ GoodOperand(addresses'[node].op1)
      /\ addresses' \in [DOMAIN addresses' -> AddressEntry]
  <2>1. addresses \in [DOMAIN addresses -> AddressEntry]
    BY DEF PipelineInv, TypeOK
  <2>2. CASE UsesAddressUnit(inst)
    <3> DEFINE a == NewAddressEntry(regs, entry', inst)
    <3>1. a \in AddressEntry /\ GoodOperand(a.op1)
      BY <1>1, <1>3, <1>6, <2>2, NewAddressEntryFacts
    <3>2. addresses' = Insert(addresses, node, a)
      BY <1>2, <2>2
    <3> HIDE DEF a
    <3>3. /\ DOMAIN addresses' = DOMAIN addresses \cup {node}
          /\ addresses'[node] = a
          /\ \A n \in DOMAIN addresses : addresses'[n] = addresses[n]
          /\ addresses' \in [DOMAIN addresses' -> AddressEntry]
      BY <1>7, <2>1, <3>1, <3>2 DEF Insert
    <3> QED BY <2>2, <3>1, <3>3
  <2>3. CASE ~UsesAddressUnit(inst)
    BY <1>2, <2>1, <2>3
  <2> QED BY <2>2, <2>3
<1>9. /\ DOMAIN station' = IF UsesStation(inst) THEN DOMAIN station \cup {node}
                           ELSE DOMAIN station
      /\ \A n \in DOMAIN station : station'[n] = station[n]
      /\ UsesStation(inst) => /\ GoodOperand(station'[node].op1)
                              /\ GoodOperand(station'[node].op2)
                              /\ station'[node].remaining_clock > 0
      /\ station' \in [DOMAIN station' -> RSEntry]
  <2>1. station \in [DOMAIN station -> RSEntry]
    BY DEF PipelineInv, TypeOK
  <2>2. CASE UsesStation(inst)
    <3> DEFINE s == NewRSEntry(regs, entry', pc, inst)
    <3>1. /\ s \in RSEntry /\ s.remaining_clock > 0
          /\ GoodOperand(s.op1) /\ GoodOperand(s.op2)
      BY <1>1, <1>3, <1>6, NewRSEntryFacts
    <3>2. station' = Insert(station, node, s)
      BY <1>2, <2>2
    <3> HIDE DEF s
    <3>3. /\ DOMAIN station' = DOMAIN station \cup {node}
          /\ station'[node] = s
          /\ \A n \in DOMAIN station : station'[n] = station[n]
          /\ station' \in [DOMAIN station' -> RSEntry]
      BY <1>7, <2>1, <3>1, <3>2 DEF Insert, Producing
    <3> QED BY <2>2, <3>1, <3>3
  <2>3. CASE ~UsesStation(inst)
    BY <1>2, <2>1, <2>3
  <2> QED BY <2>2, <2>3
<1>10. /\ DOMAIN load_buf' = IF UsesLoadBuffer(inst) THEN DOMAIN load_buf \cup {node}
                             ELSE DOMAIN load_buf
       /\ \A n \in DOMAIN load_buf : load_buf'[n] = load_buf[n]
       /\ UsesLoadBuffer(inst) => load_buf'[node].status = "Wait"
       /\ load_buf' \in [DOMAIN load_buf' -> LoadBufferEntry]
  <2>1. load_buf \in [DOMAIN load_buf -> LoadBufferEntry]
    BY DEF PipelineInv, TypeOK
  <2>2. CASE UsesLoadBuffer(inst)
    <3>1. NewLoad \in LoadBufferEntry /\ NewLoad.status = "Wait"
      BY WordFacts DEF NewLoad, LoadBufferEntry
    <3>2. load_buf' = Insert(load_buf, node, NewLoad)
      BY <1>2, <2>2
    <3>3. /\ DOMAIN load_buf' = DOMAIN load_buf \cup {node}
          /\ load_buf'[node] = NewLoad
          /\ \A n \in DOMAIN load_buf : load_buf'[n] = load_buf[n]
          /\ load_buf' \in [DOMAIN load_buf' -> LoadBufferEntry]
      BY <1>7, <2>1, <3>1, <3>2 DEF Insert, Producing
    <3> QED BY <2>2, <3>1, <3>3
  <2>3. CASE ~UsesLoadBuffer(inst)
    BY <1>2, <2>1, <2>3
  <2> QED BY <2>2, <2>3
<1>11. Producing' = IF inst.opcode = "Store" THEN Producing ELSE Producing \cup {node}
  BY <1>9, <1>10, UnitFacts DEF Producing
<1>12. buf \in Seq(Nodes) /\ Len(buf) \in Nat
  BY DEF PipelineInv, TypeOK
<1>13. /\ buf' \in Seq(Nodes) /\ Len(buf') = Len(buf) + 1
       /\ buf'[Len(buf) + 1] = node
       /\ \A i \in 1 .. Len(buf) : buf'[i] = buf[i]
  BY <1>2, <1>12
<1>14. TypeOK'
  <2>1. entry' \in [DOMAIN entry' -> ReorderBufferEntry] /\ DOMAIN entry' \subseteq Nodes
    <3>1. DOMAIN entry \subseteq Nodes
      BY DEF PipelineInv, TypeOK
    <3> QED BY <1>2, <1>6, <3>1
  <2>2. branch_map' \in [DOMAIN branch_map' -> BOOLEAN \X BOOLEAN]
    BY <1>1, TouchedType DEF PipelineInv, TypeOK
  <2>3. related_rob' \in [Regs -> Nodes \cup {NULL}]
    BY <1>2 DEF PipelineInv, TypeOK, SetRegRobIndex
  <2> QED BY <1>1, <1>5, <1>8, <1>9, <1>10, <1>13, <2>1, <2>2, <2>3
          DEF PipelineInv, TypeOK, Stages
<1>15. BufferIsLive'
  <2>1. /\ \A i, j \in 1 .. Len(buf) : buf[i] = buf[j] => i = j
        /\ \A i \in 1 .. Len(buf) : buf[i] \in DOMAIN entry
        /\ \A n \in DOMAIN entry : \E i \in 1 .. Len(buf) : buf[i] = n
    BY DEF PipelineInv, BufferIsLive
  <2>2. \A i \in 1 .. Len(buf') : i \in 1 .. Len(buf) \/ i = Len(buf) + 1
    BY <1>12, <1>13
  <2>6. \A i \in 1 .. Len(buf) : buf'[i] # buf'[Len(buf) + 1]
    BY <1>2, <1>13, <2>1
  <2>7. \A i, j \in 1 .. Len(buf) : buf'[i] = buf'[j] => i = j
    BY <1>13, <2>1
  <2>3. \A i, j \in 1 .. Len(buf') : buf'[i] = buf'[j] => i = j
    BY <2>2, <2>6, <2>7
  <2>4. \A i \in 1 .. Len(buf') : buf'[i] \in DOMAIN entry'
    BY <1>6, <1>13, <2>1, <2>2
  <2>5. ASSUME NEW n \in DOMAIN entry' PROVE \E i \in 1 .. Len(buf') : buf'[i] = n
    <3>1. \A i \in 1 .. Len(buf) : i \in 1 .. Len(buf')
      BY <1>12, <1>13
    <3>2. Len(buf) + 1 \in 1 .. Len(buf')
      BY <1>12, <1>13
    <3> QED BY <1>6, <1>13, <2>1, <3>1, <3>2
  <2> QED BY <2>3, <2>4, <2>5 DEF BufferIsLive
<1>16. ProducersAreUnfinished'
  <2>1. \A n \in Producing' : /\ n \in DOMAIN entry'
                              /\ entry'[n].reg_value = NULL
                              /\ entry'[n].inst.opcode # "Store"
    BY <1>4, <1>6, <1>11 DEF PipelineInv, ProducersAreUnfinished
  <2>2. \A n \in DOMAIN entry' :
          (entry'[n].reg_value = NULL /\ entry'[n].inst.opcode # "Store") => n \in Producing'
    BY <1>4, <1>6, <1>11 DEF PipelineInv, ProducersAreUnfinished
  <2>3. \A n \in DOMAIN load_buf' : UsesLoadBuffer(entry'[n].inst)
    BY <1>4, <1>6, <1>10 DEF PipelineInv, ProducersAreUnfinished, Producing
  <2>4. \A n \in DOMAIN station' :
          /\ UsesStation(entry'[n].inst)
          /\ station'[n].status # "Finished" => station'[n].remaining_clock > 0
    BY <1>4, <1>6, <1>9 DEF PipelineInv, ProducersAreUnfinished, Producing
  <2> QED BY <2>1, <2>2, <2>3, <2>4 DEF ProducersAreUnfinished
<1>17. AddressesAreMissing'
  <2>1. \A n \in DOMAIN addresses :
          /\ n \in DOMAIN entry'
          /\ entry'[n].addr = NoOperand
          /\ UsesAddressUnit(entry'[n].inst)
          /\ entry'[n].inst.opcode = "Load" =>
               n \in DOMAIN load_buf' /\ load_buf'[n].status # "Finished"
    BY <1>6, <1>10 DEF PipelineInv, AddressesAreMissing
  <2>2. UsesAddressUnit(inst) =>
          /\ node \in DOMAIN entry'
          /\ entry'[node].addr = NoOperand
          /\ UsesAddressUnit(entry'[node].inst)
          /\ entry'[node].inst.opcode = "Load" =>
               node \in DOMAIN load_buf' /\ load_buf'[node].status # "Finished"
    BY <1>4, <1>6, <1>10 DEF UsesAddressUnit, UsesLoadBuffer
  <2> QED BY <1>8, <2>1, <2>2 DEF AddressesAreMissing
<1>18. RenamesAreWriters'
  <2>1. ASSUME NEW r \in Regs, NEW m \in Nodes, related_rob'[r] = m
        PROVE  Renames(m, r)'
    <3>1. CASE related_rob[r] = m
      <4>1. m \in DOMAIN entry /\ Writes(entry[m], r)
        BY <1>1, <3>1, NullAssumption DEF PipelineInv, RenamesAreWriters, Renames
      <4> QED BY <1>6, <4>1 DEF Renames
    <3>2. CASE related_rob[r] # m
      <4>1. m = node /\ r = OrZero(inst.rd) /\ r # 0
        BY <1>2, <2>1, <3>2 DEF SetRegRobIndex, PipelineInv, TypeOK
      <4>3. inst.function = "Ecall" => inst.rd = 0
        BY <1>1, FetchedEcall DEF PipelineInv, inst
      <4>2. inst.opcode \notin {"Store", "Branch"} /\ inst.function # "Ecall"
        BY <1>3, <4>1, <4>3, InstructionFields, NullAssumption DEF OrZero
      <4> QED BY <1>4, <1>6, <4>1, <4>2 DEF Renames, Writes
    <3> QED BY <3>1, <3>2
  <2>2. related_rob'[0] = NULL
    BY <1>2, RegFacts DEF PipelineInv, TypeOK, RenamesAreWriters, SetRegRobIndex
  <2>3. \A r \in Regs : related_rob'[r] # NULL => related_rob'[r] \in Nodes
    BY <1>14 DEF TypeOK
  <2> QED BY <2>1, <2>2, <2>3 DEF RenamesAreWriters
<1>19. OperandsAreOwed'
  <2>1. \A op : (GoodOperand(op) \/ Owed(op)) /\ op.tag = "Rob" => op.idx \in Producing
    BY DEF GoodOperand, Owed
  <2>2. ASSUME NEW n \in DOMAIN station'
        PROVE  Owed(station[n].op1)' /\ Owed(station[n].op2)'
    BY <1>9, <1>11, <2>1 DEF PipelineInv, OperandsAreOwed, Owed
  <2>3. ASSUME NEW n \in DOMAIN addresses' PROVE Owed(addresses[n].op1)'
    BY <1>8, <1>11, <2>1 DEF PipelineInv, OperandsAreOwed, Owed
  <2>4. ASSUME NEW n \in DOMAIN entry'
        PROVE  /\ Owed(entry[n].addr)' /\ ~WaitsFor(entry'[n].addr, n)
               /\ Owed(entry[n].mem_value)' /\ ~WaitsFor(entry'[n].mem_value, n)
               /\ entry'[n].inst.opcode = "Amo" => entry'[n].mem_value.tag # "None"
    <3>1. CASE n = node
      <4>1. e.addr.tag = "Rob" => e.addr.idx \in Producing
        BY <1>4 DEF GoodOperand
      <4>2. e.mem_value.tag = "Rob" => e.mem_value.idx \in Producing
        BY <1>4 DEF GoodOperand
      <4> QED BY <1>4, <1>6, <1>7, <1>11, <3>1, <4>1, <4>2 DEF Owed, WaitsFor
    <3>2. CASE n \in DOMAIN entry
      <4>1. /\ Owed(entry[n].addr) /\ ~WaitsFor(entry[n].addr, n)
            /\ Owed(entry[n].mem_value) /\ ~WaitsFor(entry[n].mem_value, n)
            /\ entry[n].inst.opcode = "Amo" => entry[n].mem_value.tag # "None"
        BY <3>2 DEF PipelineInv, OperandsAreOwed
      <4> QED BY <1>6, <1>11, <3>2, <4>1 DEF Owed, WaitsFor
    <3> QED BY <1>6, <3>1, <3>2
  <2> QED BY <2>2, <2>3, <2>4 DEF OperandsAreOwed
<1>20. EcallsNameNoRegister'
  BY <1>1, TextIsKept
<1> QED BY <1>14, <1>15, <1>16, <1>17, <1>18, <1>19, <1>20 DEF PipelineInv

-----------------------------------------------------------------------------
(* The theorems                                                            *)

LEMMA NextPreserves == ASSUME PipelineInv, [Next]_vars PROVE PipelineInv'
<1>1. CASE PopCompleted
  BY <1>1, PopCompletedStep
<1>2. CASE Retire
  <2>1. CASE RetirePredicted
    BY <2>1, RetirePredictedStep
  <2>2. CASE RetireMispredicted
    BY <2>2, RetireMispredictedStep
  <2>3. CASE RetireEcall
    BY <2>3, RetireEcallStep
  <2>4. CASE RetireValue
    BY <2>4, RetireValueStep
  <2>5. CASE RetirePanics
    BY <2>5, PanicStep DEF RetirePanics
  <2> QED BY <1>2, <2>1, <2>2, <2>3, <2>4, <2>5 DEF Retire
<1>3. CASE CommitDone
  BY <1>3, CommitDoneStep
<1>4. CASE WriteResult
  BY <1>4, WriteResultStep
<1>5. CASE Execute
  BY <1>5, ExecuteStep
<1>6. CASE ExecutePanics
  BY <1>6, PanicStep DEF ExecutePanics
<1>7. CASE IssueStalls
  BY <1>7, IssueStallsStep
<1>8. CASE Issue
  BY <1>8, IssueStep
<1>9. CASE IssuePanics
  BY <1>9, PanicStep DEF IssuePanics
<1>10. CASE Ended
  BY <1>10, StutteringStep DEF Ended
<1>11. CASE UNCHANGED vars
  BY <1>11, StutteringStep
<1> QED BY <1>1, <1>2, <1>3, <1>4, <1>5, <1>6, <1>7, <1>8, <1>9, <1>10, <1>11 DEF Next

(* The invariant holds in every state of the pipeline: the buffers of      *)
(* commit, write_result, execute and issue stay consistent with each other. *)
THEOREM InvariantHolds == Spec /\ EcallsNameNoRegister => []PipelineInv
<1>1. Init /\ EcallsNameNoRegister => PipelineInv
  BY InitEstablishes
<1>2. PipelineInv /\ [Next]_vars => PipelineInv'
  BY NextPreserves
<1> QED BY <1>1, <1>2, PTL DEF Spec

(* Every variable of the pipeline keeps its type: no read of a missing     *)
(* operand, no value of a failed load, reaches a register or the memory.   *)
THEOREM TypeCorrect == Spec /\ EcallsNameNoRegister => []TypeOK
<1>1. PipelineInv => TypeOK
  BY DEF PipelineInv
<1> QED BY <1>1, InvariantHolds, PTL

(* The tags of an instruction in flight. *)
LEMMA TagsAreProducing ==
  ASSUME PipelineInv, NEW n \in DOMAIN entry, NEW i \in TagsOf(n)
  PROVE  i \in Producing
BY DEF PipelineInv, OperandsAreOwed, Owed, TagsOf, WaitsFor

(* The raw pointers RegisterFile, ReservationStation and LoadBuffer hold   *)
(* into the reorder buffer's list always point to nodes of the list.       *)
THEOREM PointersNeverDangle == Spec /\ EcallsNameNoRegister => []NoDanglingIndex
<1>1. PipelineInv => NoDanglingIndex
  <2> SUFFICES ASSUME PipelineInv PROVE NoDanglingIndex
    OBVIOUS
  <2>1. Producing \subseteq DOMAIN entry /\ DOMAIN addresses \subseteq DOMAIN entry
    BY DEF PipelineInv, ProducersAreUnfinished, AddressesAreMissing
  <2>2. \A n \in DOMAIN entry : TagsOf(n) \subseteq DOMAIN entry
    BY <2>1, TagsAreProducing
  <2>3. stage # "retire" => \A r \in Regs : related_rob[r] \in DOMAIN entry \cup {NULL}
    BY DEF PipelineInv, RenamesAreWriters, Renames
  <2> QED BY <2>1, <2>2, <2>3 DEF NoDanglingIndex, Producing
<1> QED BY <1>1, InvariantHolds, PTL

(* An operand never waits for a broadcast (propagate) that has already     *)
(* been made, nor for one that no unit is going to make.                   *)
THEOREM BroadcastsAreNotMissed == Spec /\ EcallsNameNoRegister => []NoMissedBroadcast
<1>1. PipelineInv => NoMissedBroadcast
  <2> SUFFICES ASSUME PipelineInv, NEW n \in DOMAIN entry, NEW i \in TagsOf(n)
               PROVE  i \in DOMAIN station \cup DOMAIN load_buf /\ entry[i].reg_value = NULL
    BY DEF NoMissedBroadcast
  <2>1. i \in Producing
    BY TagsAreProducing
  <2> QED BY <2>1 DEF PipelineInv, ProducersAreUnfinished, Producing
<1> QED BY <1>1, InvariantHolds, PTL
=============================================================================
