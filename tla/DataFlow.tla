------------------------------ MODULE DataFlow -------------------------------
(***************************************************************************)
(* The inductive invariant behind the refinement: whatever the order of    *)
(* execution, the values in flight are those the sequential machine will   *)
(* have when it comes to them.  A value is said of the place k of its      *)
(* instruction in Pending, so it stays true when older instructions retire. *)
(* P stands for Pending, g for gpr, and m, load, st, ad for mem, load_buf, *)
(* station and addresses.                                                  *)
(***************************************************************************)
EXTENDS ProgramOrder

InFlight == 1 .. Len(Pending)

(* The youngest instruction before the k-th that writes r. *)
LastWriter(P, k, r, j) ==
  /\ j \in 1 .. k - 1
  /\ P[j].e.rd = r
  /\ \A i \in j + 1 .. k - 1 : P[i].e.rd # r

(* v is the value of r the k-th instruction is to see: that of the last    *)
(* writer before it, once there is one, or that of the register.           *)
Sees(P, g, k, r, v) ==
  \/ /\ r = 0 \/ \A j \in 1 .. k - 1 : P[j].e.rd # r
     /\ v = g[r]
  \/ /\ r # 0 /\ v # NULL
     /\ \E j \in 1 .. k - 1 : LastWriter(P, k, r, j) /\ P[j].e.reg_value = v

AwaitsWriter(P, k, r, node) ==
  r # 0 /\ \E j \in 1 .. k - 1 : LastWriter(P, k, r, j) /\ P[j].node = node

(* An operand of the k-th instruction that reads r. *)
Carries(P, g, k, r, op) ==
  /\ IsValue(op) => Sees(P, g, k, r, op.val)
  /\ op.tag = "Rob" => AwaitsWriter(P, k, r, op.idx)

-----------------------------------------------------------------------------
(* The general units                                                       *)

ReadsLeft(inst)  == inst.opcode \notin {"AuiPc", "Jal", "Jalr", "Lui", "Amo"}
ReadsRight(inst) == inst.opcode \notin {"Jal", "Jalr", "Amo"} /\ inst.rs2 # NULL

FixedLeft(e)  == IF e.inst.opcode \in {"AuiPc", "Jal", "Jalr"} THEN e.pc ELSE 0
FixedRight(e) == IF e.inst.opcode \in {"Jal", "Jalr"} THEN WordSize
                 ELSE IF e.inst.opcode = "Amo" THEN 0 ELSE OrZero(e.inst.imm)

LeftIs(P, g, k, a) ==
  IF ReadsLeft(P[k].e.inst) THEN Sees(P, g, k, OrZero(P[k].e.inst.rs1), a)
  ELSE a = FixedLeft(P[k].e)

RightIs(P, g, k, b) ==
  IF ReadsRight(P[k].e.inst) THEN Sees(P, g, k, P[k].e.inst.rs2, b)
  ELSE b = FixedRight(P[k].e)

LeftCarried(P, g, k, op) ==
  IF ReadsLeft(P[k].e.inst) THEN Carries(P, g, k, OrZero(P[k].e.inst.rs1), op)
  ELSE op = Value(FixedLeft(P[k].e))

RightCarried(P, g, k, op) ==
  IF ReadsRight(P[k].e.inst) THEN Carries(P, g, k, P[k].e.inst.rs2, op)
  ELSE op = Value(FixedRight(P[k].e))

Computed(P, g, k, v) ==
  \E a, b \in Word : /\ LeftIs(P, g, k, a) /\ RightIs(P, g, k, b)
                     /\ v = Alu(P[k].e.inst.function, a, b)
                     /\ ~AluPanics(P[k].e.inst.function, a, b)

StationHolds(P, g, k, s) ==
  /\ s.function = P[k].e.inst.function
  /\ LeftCarried(P, g, k, s.op1) /\ RightCarried(P, g, k, s.op2)
  /\ s.status = "Finished" => Computed(P, g, k, s.value)

ResultIsComputed(P, g, st, k) ==
  /\ P[k].node \in DOMAIN st => StationHolds(P, g, k, st[P[k].node])
  /\ (UsesStation(P[k].e.inst) /\ P[k].e.reg_value # NULL) =>
       Computed(P, g, k, P[k].e.reg_value)

-----------------------------------------------------------------------------
(* Addresses                                                               *)

Aims(P, g, k, a) ==
  LET inst == P[k].e.inst IN
  \E b \in Word : /\ Sees(P, g, k, OrZero(inst.rs1), b)
                  /\ a = IF inst.opcode = "Amo" THEN b ELSE WrapAdd(b, OrZero(inst.imm))

Aimed(P, g, k, op) ==
  /\ IsValue(op) => Aims(P, g, k, op.val)
  /\ op.tag = "Rob" => /\ P[k].e.inst.opcode = "Amo"
                       /\ AwaitsWriter(P, k, OrZero(P[k].e.inst.rs1), op.idx)

AddressHolds(P, g, k, a) ==
  /\ Carries(P, g, k, OrZero(P[k].e.inst.rs1), a.op1)
  /\ a.imm = OrZero(P[k].e.inst.imm)

AddressIsAimed(P, g, ad, k) ==
  /\ P[k].node \in DOMAIN ad => AddressHolds(P, g, k, ad[P[k].node])
  /\ Aimed(P, g, k, P[k].e.addr)

-----------------------------------------------------------------------------
(* Loads and stores                                                        *)

(* A load that has read memory, and what it has read; NULL for a failure.  *)
IsLoaded(p, load) ==
  /\ UsesLoadBuffer(p.e.inst)
  /\ IF p.node \in DOMAIN load THEN load[p.node].status = "Finished"
     ELSE p.e.reg_value # NULL

LoadedAs(p, load) ==
  IF p.node \in DOMAIN load THEN load[p.node].value
  ELSE IF p.e.mem_exception = "Err" THEN NULL ELSE p.e.reg_value

(* The instruction stored, as the oldest. *)
StoredAt(k, e) == k = 1 /\ HasStored(e)

ReadFrom(e, v, m) ==
  /\ IsValue(e.addr)
  /\ IF v = NULL THEN ~InAddressSpace(e.addr.val)
     ELSE /\ Readable(e.addr.val, AccessSize(e.inst.function))
          /\ v = LoadValue(m, e.inst.function, e.addr.val)

(* What was read is still there, until the atomic that read it overwrites  *)
(* it.                                                                     *)
LoadIsCurrent(P, load, m, k) ==
  IsLoaded(P[k], load) =>
    StoredAt(k, P[k].e) \/ ReadFrom(P[k].e, LoadedAs(P[k], load), m)

(* What an atomic stores. *)
Combined(P, g, k, old, op) ==
  LET inst == P[k].e.inst IN
  \E b \in Word : /\ Sees(P, g, k, OrZero(inst.rs2), b)
                  /\ op = Value(AmoValue(inst.function, old, b))
                  /\ ~AmoPanics(inst.function, old, b)

StoreIsRight(P, g, load, k) ==
  LET inst == P[k].e.inst IN
  /\ (inst.opcode = "Store" \/ (inst.opcode = "Amo" /\ ~IsLoaded(P[k], load))) =>
       Carries(P, g, k, OrZero(inst.rs2), P[k].e.mem_value)
  /\ (/\ inst.opcode = "Amo" /\ inst.function # "Lrw"
      /\ IsLoaded(P[k], load) /\ LoadedAs(P[k], load) # NULL) =>
       Combined(P, g, k, LoadedAs(P[k], load), P[k].e.mem_value)

(* Only the oldest instruction has stored, and a fault is a load's.        *)
StoreIsOldest(P, load, k) ==
  LET e == P[k].e IN
  /\ (IsStoring(e.inst) /\ e.mem_rem_cycle = 0) =>
       StoredAt(k, e) \/ (IsLoaded(P[k], load) /\ LoadedAs(P[k], load) = NULL)
  /\ e.mem_exception = "Err" => UsesLoadBuffer(e.inst) /\ e.reg_value # NULL

-----------------------------------------------------------------------------

DataAt(P, g, st, ad, load, m, k) ==
  /\ ResultIsComputed(P, g, st, k)
  /\ AddressIsAimed(P, g, ad, k)
  /\ LoadIsCurrent(P, load, m, k)
  /\ StoreIsRight(P, g, load, k)
  /\ StoreIsOldest(P, load, k)

ValuesAreRight ==
  \A k \in InFlight : DataAt(Pending, gpr, station, addresses, load_buf, mem, k)

(* A store or an atomic that has stored leaves in the next commit.         *)
StoresLeave ==
  stage \in {"retire", "write_result", "execute"} =>
    \A i \in Listed : ~HasStored(Ith(i))

FetchedAt(p) == IF code[p].opcode \in FpOpcodes THEN Nop ELSE code[p]

TextIsFetched ==
  \A k \in InFlight : LET e == PendingAt(k) IN
    /\ e.pc \in DOMAIN code
    /\ e.inst = FetchedAt(e.pc)
    /\ e.rd = OrZero(e.inst.rd)

(* An ecall retires last of those popped together. *)
EcallEndsCommit ==
  \A k \in 1 .. Len(completed) :
    IsEcall(completed[k].e) => k = Len(completed) /\ buf = <<>>

DataInv ==
  /\ TextIsFetched
  /\ ValuesAreRight
  /\ StoresLeave
  /\ EcallEndsCommit
=============================================================================
